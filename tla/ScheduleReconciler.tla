------------------------- MODULE ScheduleReconciler --------------------------
(***************************************************************************)
(* The BackupSchedule controller of one hub (schedule_controller.go,       *)
(* schedule.go, utils.go): one BackupSchedule, the Velero schedules it     *)
(* owns, and what the hub sees of the shared storage location, to which    *)
(* another hub may write as well.                                          *)
(*                                                                         *)
(* A pass of Reconcile is cut at its API writes: Begin (reads and          *)
(* decides), then one step per Velero schedule that the pass pauses,       *)
(* creates, deletes or updates, then WriteStatus.                          *)
(***************************************************************************)
EXTENDS Naturals, FiniteSets

CONSTANTS
    N,          \* how many Velero schedules there are (5 in the code)
    Specs,      \* the BackupSchedule specs the user may write
    Lagging,    \* the kinds of object whose cache may lag behind
    MaxTime,    \* bound on the clock
    Faults,     \* kinds of disturbance that may happen
    MaxFaults   \* bound on the number of disturbances

Schedules == 1..N      \* in the order of initVeleroSchedules

FaultKinds ==
    {"createError", "deleteError", "pauseError", "updateError", "statusError",
     "prepareError", "crash", "edit", "recreate", "scheduleGone", "storage",
     "rejected", "restore", "foreignBackup", "foreignRestore", "ownRestore",
     "markerQueued"}

CachedKinds == {"backupSchedule", "veleroSchedule"}

(* settings stands for the cron expression and the TTL, which are copied   *)
(* to the Velero schedules; the cron expression may be invalid.            *)
BackupScheduleSpec == [paused: BOOLEAN, settings: {"s1", "s2", "invalid"}]

Time == 0..MaxTime     \* one unit is more than the five seconds of the code

ASSUME ScheduleAssumption ==
    /\ N \in Nat \ {0}
    /\ Specs \subseteq BackupScheduleSpec /\ Specs # {}
    /\ Lagging \subseteq CachedKinds
    /\ MaxTime \in Nat
    /\ Faults \subseteq FaultKinds
    /\ MaxFaults \in Nat

VARIABLES
    spec, phase,   \* the BackupSchedule
    cached,        \* ... as it is in the operator's cache
    sched,         \* the Velero schedules in the API server
    seen,          \* ... and in the operator's cache
    latest,        \* the latest resources backup: which hub, when it started
    marker,        \* the acm-restore-clusters backup of each hub
    pending,       \* an initial backup was created and has not started
    now,           \* clock
    valid,         \* storage location available, MSA component as asked for
    restoreActive, \* a Restore that is not completed exists
    queued, timer, \* the work queue and its delayed part
    pc, job,       \* the pass in progress
    prior,         \* history: schedules older than the last creation loop
    contested,     \* history: the other hub was active since the last restore here
    faults

ownVars == <<spec, phase, cached>>
storageVars == <<latest, marker, pending, contested>>
hubVars == <<valid, restoreActive>>
workVars == <<queued, timer>>
vars == <<ownVars, sched, seen, storageVars, hubVars, now, workVars, pc, job, prior, faults>>

VeleroPhases == {"", "New", "Enabled", "FailedValidation"}

(* old: owned by an earlier BackupSchedule of the same name, and about to  *)
(* be garbage collected.                                                   *)
VeleroSchedules ==
    [there: BOOLEAN, paused: BOOLEAN, settings: {"s1", "s2", "none"},
     phase: VeleroPhases, old: BOOLEAN, born: Time]

Absent ==
    [there |-> FALSE, paused |-> FALSE, settings |-> "none", phase |-> "",
     old |-> FALSE, born |-> 0]

Phases ==
    {"", "New", "Enabled", "FailedValidation", "Failed", "Unknown",
     "BackupCollision", "Paused"}

Hubs == {"this", "other"}

Backups == [hub: Hubs \cup {"none"}, time: Time]

(* start orders the markers once Velero has started them; made is the      *)
(* local creation time: for a marker of the other hub, the time at which   *)
(* Velero synced it here.                                                  *)
Markers == [there: BOOLEAN, started: BOOLEAN, start: Time, made: Time]

NoMarker == [there |-> FALSE, started |-> FALSE, start |-> 0, made |-> 0]

PCs == {"idle", "pause", "create", "delete", "update", "write"}

(* spec: the copy the pass works on; stale: the BackupSchedule was changed *)
(* since; target: the phase to write; failed: the pass ends in an error;   *)
(* after: it asks to be requeued later.                                    *)
Jobs ==
    [spec: Specs, stale: BOOLEAN, todo: SUBSET Schedules, target: Phases,
     failed: BOOLEAN, after: BOOLEAN]

Present(s) == {t \in Schedules : s[t].there}

-----------------------------------------------------------------------------
(* Helpers of schedule.go.  A definition whose name ends in _Mutant is a   *)
(* plausible wrong version of the one after it; it is used only to show    *)
(* that a property would notice the mistake.                               *)

(* The first item without a settled Velero status decides; a cached list   *)
(* comes in no particular order.                                           *)
setSchedulePhase_Mutant(s) ==
    IF \A t \in Present(s) : s[t].phase = "Enabled" THEN {"Enabled"} ELSE {"Error"}

setSchedulePhase(s) ==
    LET unsettled == {t \in Present(s) : s[t].phase # "Enabled"}
    IN  IF unsettled = {} THEN {"Enabled"}
        ELSE {IF s[t].phase = "" THEN "Unknown" ELSE s[t].phase : t \in unsettled}

isScheduleSpecUpdated(s, sp) ==
    \E t \in Present(s) : s[t].settings # sp.settings \/ s[t].paused # sp.paused

scheduleOwnsLatestStorageBackups == latest.hub # "other"

(* Hubs whose marker may be sorted first: a marker that Velero has not     *)
(* started yet has no start time and compares equal to any other.          *)
mostRecent ==
    {h \in Hubs : marker[h].there /\
        \A g \in Hubs : marker[g].there /\ marker[g].started /\ marker[h].started =>
                           marker[g].start <= marker[h].start}

isRestoreHubAfterSchedule(born, h) == h = "other" /\ born < marker[h].made

thisHubRestoredAfterBackup_Mutant(h) == h = "this" /\ marker[h].made < latest.time

thisHubRestoredAfterBackup_Untimed(h) == h = "this"

thisHubRestoredAfterBackup(h) == h = "this" /\ latest.time < marker[h].made

(* The reasons for a collision, given a marker that sorts first.           *)
Collides(born, h) ==
    IF scheduleOwnsLatestStorageBackups
    THEN mostRecent # {} /\ isRestoreHubAfterSchedule(born, h)
    ELSE ~(mostRecent # {} /\ thisHubRestoredAfterBackup(h))

-----------------------------------------------------------------------------
(* Writes to the API server.                                               *)

CanFail(kind) == kind \in Faults /\ faults < MaxFaults

Fault(kind) == CanFail(kind) /\ faults' = faults + 1

(* The event filter of SetupWithManager: creations, deletions and changes  *)
(* of a spec, but not of a status.                                         *)
Enqueues(s, t) ==
    \E i \in Schedules : [s[i] EXCEPT !.phase = ""] # [t[i] EXCEPT !.phase = ""]

SchedChanged(s) ==
    /\ sched' = s
    /\ seen' = IF "veleroSchedule" \in Lagging THEN seen ELSE s

BackupSchedule(s, p) == [spec |-> s, phase |-> p]

OwnChanged(s, p) ==
    /\ spec' = s /\ phase' = p
    /\ cached' = IF "backupSchedule" \in Lagging THEN cached ELSE BackupSchedule(s, p)

(* A BackupSchedule whose phase has become empty is a new one.             *)
OwnEnqueues(b, c) == b.spec # c.spec \/ (b.phase # "" /\ c.phase = "")

(* A write from a cached copy fails unless the copy is current.            *)
Current(t) == seen[t] = sched[t]

NewJob(target, todo, after) ==
    [spec |-> cached.spec, stale |-> cached # BackupSchedule(spec, phase),
     todo |-> todo, target |-> target, failed |-> FALSE, after |-> after]

NoJob ==
    [spec |-> CHOOSE s \in Specs : TRUE, stale |-> FALSE, todo |-> {}, target |-> "",
     failed |-> FALSE, after |-> FALSE]

Return == pc' = "idle" /\ job' = NoJob

(* The pass returns an error and is retried.                               *)
Retry == Return /\ queued' = TRUE /\ UNCHANGED timer

-----------------------------------------------------------------------------
(* The reconcile pass.                                                     *)

GoOn(point, target, todo, after) ==
    pc' = point /\ job' = NewJob(target, todo, after) /\ queued' = FALSE

(* What a pass does with the Velero schedules once nothing is in the way:  *)
(* it creates them, deletes what is left of them, or keeps them up to date.*)
Settle_Mutant ==
    LET here == Present(seen)
    IN  \/ /\ here # Schedules
           /\ GoOn("create", "New", Schedules \ here, TRUE)
           /\ prior' = [t \in Schedules |-> TRUE]
        \/ /\ here = Schedules
           /\ \E p \in setSchedulePhase(seen) : GoOn("write", p, {}, TRUE)
           /\ UNCHANGED prior

Settle ==
    LET here == Present(seen)
    IN  \/ /\ here = {}
           /\ GoOn("create", "New", Schedules, TRUE)
           /\ prior' = [t \in Schedules |-> TRUE]
        \/ /\ here # {} /\ here # Schedules
           /\ GoOn("delete", "New", here, TRUE)
           /\ UNCHANGED prior
        \/ /\ here = Schedules /\ isScheduleSpecUpdated(seen, cached.spec)
           /\ GoOn("update", cached.phase, Schedules, TRUE)
           /\ UNCHANGED prior
        \/ /\ here = Schedules /\ ~isScheduleSpecUpdated(seen, cached.spec)
           /\ \E p \in setSchedulePhase(seen) : GoOn("write", p, {}, TRUE)
           /\ UNCHANGED prior

(* The collision check is for schedules that are not brand new.            *)
CollisionCheckDue(t) == seen[t].born < now /\ cached.phase \notin {"", "New"}

(* The first item of the list is any of the Velero schedules.  The check   *)
(* also prepares the hub for the next backup, which may fail.              *)
CheckCollision ==
    \/ /\ Present(seen) = {}
       /\ Settle /\ UNCHANGED faults
    \/ \E first \in Present(seen) :
        /\ ~CollisionCheckDue(first)
        /\ Settle /\ UNCHANGED faults
    \/ /\ \E first \in Present(seen) : CollisionCheckDue(first)
       /\ Fault("prepareError")
       /\ Return /\ queued' = TRUE /\ UNCHANGED prior
    \/ \E first \in Present(seen), h \in Hubs :
        /\ CollisionCheckDue(first)
        /\ mostRecent # {} => h \in mostRecent
        /\ \/ /\ ~Collides(seen[first].born, h)
              /\ Settle
           \/ /\ Collides(seen[first].born, h)
              /\ GoOn("pause", "BackupCollision", Present(seen), FALSE)
              /\ UNCHANGED prior
        /\ UNCHANGED faults

(* isValidateConfiguration and the cron check: a schedule in collision is  *)
(* left alone, a configuration that is not valid is reported.              *)
IsInCollision_Mutant == cached.phase = "BackupCollision" /\ ~cached.spec.paused

IsInCollision == cached.phase = "BackupCollision"

isRestoreRunning == restoreActive

Blocked == (isRestoreRunning /\ ~cached.spec.paused) \/ ~valid

IsCronValid == cached.spec.settings # "invalid"

Begin ==
    /\ pc = "idle" /\ queued
    /\ \/ /\ IsInCollision
          /\ Return /\ queued' = FALSE
          /\ UNCHANGED <<prior, faults>>
       \/ /\ ~IsInCollision /\ Blocked
          /\ GoOn("write", "FailedValidation", {}, TRUE)
          /\ UNCHANGED <<prior, faults>>
       \/ /\ ~IsInCollision /\ ~Blocked /\ ~IsCronValid
          /\ GoOn("write", "FailedValidation", {}, FALSE)
          /\ UNCHANGED <<prior, faults>>
       \/ /\ ~IsInCollision /\ ~Blocked /\ IsCronValid /\ cached.spec.paused
          /\ GoOn("pause", "Paused", Present(seen), FALSE)
          /\ UNCHANGED <<prior, faults>>
       \/ /\ ~IsInCollision /\ ~Blocked /\ IsCronValid /\ ~cached.spec.paused
          /\ CheckCollision
    /\ UNCHANGED <<ownVars, sched, seen, storageVars, hubVars, now, timer>>

(* pauseVeleroSchedule reads the schedule from the cache again.  It fails  *)
(* if the schedule is not there or was changed since, but not if it is     *)
(* deleted in between; the loop goes on after a failure.                   *)
pauseVeleroSchedule_Mutant(t, failed) ==
    ~failed /\ UNCHANGED <<sched, seen, faults>>

pauseVeleroSchedule(t, failed) ==
    \/ /\ seen[t].there /\ sched[t].there /\ Current(t) /\ ~failed
       /\ SchedChanged([sched EXCEPT ![t].paused = TRUE])
       /\ UNCHANGED faults
    \/ /\ seen[t].there /\ ~sched[t].there /\ ~failed
       /\ UNCHANGED <<sched, seen, faults>>
    \/ /\ ~seen[t].there \/ (sched[t].there /\ ~Current(t))
       /\ failed
       /\ UNCHANGED <<sched, seen, faults>>
    \/ /\ Fault("pauseError") /\ failed
       /\ UNCHANGED <<sched, seen>>

Pause ==
    /\ pc = "pause"
    /\ \/ /\ job.todo = {}
          /\ pc' = "write"
          /\ UNCHANGED <<job, sched, seen, faults>>
       \/ /\ \E t \in job.todo, failed \in BOOLEAN :
               /\ pauseVeleroSchedule(t, failed)
               /\ job' = [job EXCEPT !.todo = @ \ {t}, !.failed = @ \/ failed]
          /\ UNCHANGED pc
    /\ queued' = (queued \/ Enqueues(seen, seen'))
    /\ UNCHANGED <<ownVars, storageVars, hubVars, now, timer, prior>>

(* One iteration of initVeleroSchedules; the first error ends the loop (an *)
(* error before the loop is one in its first iteration).  Unless the spec  *)
(* says otherwise, or it fails, a first backup is requested as well.       *)
Create ==
    /\ pc = "create"
    /\ LET t == CHOOSE i \in job.todo : \A k \in job.todo : i <= k
       IN  \/ /\ sched[t].there \/ CanFail("createError")
              /\ faults' = IF sched[t].there THEN faults ELSE faults + 1
              /\ job' = [job EXCEPT !.todo = {}, !.target = "Failed", !.failed = TRUE]
              /\ pc' = "write"
              /\ UNCHANGED <<sched, seen, pending, prior>>
           \/ /\ ~sched[t].there
              /\ SchedChanged([sched EXCEPT ![t] =
                    [there |-> TRUE, paused |-> job.spec.paused, settings |-> job.spec.settings,
                     phase |-> "", old |-> FALSE, born |-> now]])
              /\ pending' \in {pending, TRUE}
              /\ prior' = [prior EXCEPT ![t] = FALSE]
              /\ job' = [job EXCEPT !.todo = @ \ {t}]
              /\ pc' = IF job.todo = {t} THEN "write" ELSE "create"
              /\ UNCHANGED faults
    /\ queued' = (queued \/ Enqueues(seen, seen'))
    /\ UNCHANGED <<ownVars, latest, marker, contested, hubVars, now, timer>>

(* One iteration of deleteVeleroSchedules; an error, a schedule that is    *)
(* gone already included, ends the pass.                                   *)
Delete ==
    /\ pc = "delete"
    /\ \E t \in job.todo :
        \/ /\ sched[t].there
           /\ SchedChanged([sched EXCEPT ![t] = Absent])
           /\ job' = [job EXCEPT !.todo = @ \ {t}]
           /\ pc' = IF job.todo = {t} THEN "write" ELSE "delete"
           /\ queued' = (queued \/ Enqueues(seen, seen'))
           /\ UNCHANGED <<faults, timer>>
        \/ /\ ~sched[t].there \/ CanFail("deleteError")
           /\ faults' = IF sched[t].there THEN faults + 1 ELSE faults
           /\ Retry
           /\ UNCHANGED <<sched, seen>>
    /\ UNCHANGED <<ownVars, storageVars, hubVars, now, prior>>

(* One update of isVeleroSchedulesUpdateRequired; the pass ends after the  *)
(* last one, without a status update.                                      *)
Update ==
    /\ pc = "update"
    /\ \E t \in job.todo :
        \/ /\ sched[t].there /\ Current(t)
           /\ SchedChanged([sched EXCEPT ![t].paused = job.spec.paused,
                                         ![t].settings = job.spec.settings])
           /\ IF job.todo = {t}
              THEN Return /\ timer' = TRUE
              ELSE job' = [job EXCEPT !.todo = @ \ {t}] /\ UNCHANGED <<pc, timer>>
           /\ queued' = (queued \/ Enqueues(seen, seen'))
           /\ UNCHANGED faults
        \/ /\ ~sched[t].there \/ ~Current(t) \/ CanFail("updateError")
           /\ faults' = IF sched[t].there /\ Current(t) THEN faults + 1 ELSE faults
           /\ Retry
           /\ UNCHANGED <<sched, seen>>
    /\ UNCHANGED <<ownVars, storageVars, hubVars, now, prior>>

(* A pass that failed is retried, others come back when they asked to.     *)
Finish_Mutant ==
    /\ Return
    /\ timer' = (timer \/ (job.after /\ job.target # "FailedValidation"))
    /\ UNCHANGED queued

Finish ==
    /\ Return
    /\ queued' = (queued \/ job.failed)
    /\ timer' = (timer \/ (job.after /\ ~job.failed))

(* The status update.  Where a pass has paused schedules and the status    *)
(* update fails, a plain update is tried: if that one succeeds, nothing is *)
(* written to the status and the pass goes on as if it had been.           *)
WriteStatus ==
    /\ pc = "write"
    /\ \/ /\ ~job.stale
          /\ OwnChanged(spec, job.target)
          /\ Finish /\ UNCHANGED faults
       \/ /\ ~job.stale /\ job.target \in {"Paused", "BackupCollision"}
          /\ Fault("statusError")
          /\ Finish /\ UNCHANGED ownVars
       \/ /\ job.stale \/ CanFail("statusError")
          /\ faults' = IF job.stale THEN faults ELSE faults + 1
          /\ Retry /\ UNCHANGED ownVars
    /\ UNCHANGED <<sched, seen, storageVars, hubVars, now, prior>>

Reconcile == Begin \/ Pause \/ Create \/ Delete \/ Update \/ WriteStatus

-----------------------------------------------------------------------------
(* The surroundings.                                                       *)

Touched == IF pc = "idle" THEN job ELSE [job EXCEPT !.stale = TRUE]

RequeueAfter ==
    /\ timer
    /\ timer' = FALSE /\ queued' = TRUE
    /\ UNCHANGED <<ownVars, sched, seen, storageVars, hubVars, now, pc, job, prior, faults>>

BackupScheduleInformer ==
    /\ cached # BackupSchedule(spec, phase)
    /\ cached' = BackupSchedule(spec, phase)
    /\ queued' = (queued \/ OwnEnqueues(cached, cached'))
    /\ UNCHANGED <<spec, phase, sched, seen, storageVars, hubVars, now, timer, pc, job,
                   prior, faults>>

ScheduleInformer ==
    /\ seen # sched
    /\ seen' = sched
    /\ queued' = (queued \/ Enqueues(seen, sched))
    /\ UNCHANGED <<ownVars, sched, storageVars, hubVars, now, timer, pc, job, prior, faults>>

UserEdit(s) ==
    /\ s # spec /\ Fault("edit")
    /\ OwnChanged(s, phase)
    /\ queued' = (queued \/ OwnEnqueues(cached, cached'))
    /\ job' = Touched
    /\ UNCHANGED <<sched, seen, storageVars, hubVars, now, timer, pc, prior>>

(* The user deletes the BackupSchedule and creates it anew: the Velero     *)
(* schedules of the old one are left to the garbage collector.             *)
UserRecreate ==
    /\ phase # "" /\ Fault("recreate")
    /\ OwnChanged(spec, "")
    /\ queued' = (queued \/ OwnEnqueues(cached, cached'))
    /\ job' = Touched
    /\ SchedChanged([t \in Schedules |->
            IF sched[t].there THEN [sched[t] EXCEPT !.old = TRUE] ELSE sched[t]])
    /\ UNCHANGED <<storageVars, hubVars, now, timer, pc, prior>>

Removed(t) ==
    /\ SchedChanged([sched EXCEPT ![t] = Absent])
    /\ queued' = (queued \/ Enqueues(seen, seen'))
    /\ UNCHANGED <<ownVars, storageVars, hubVars, now, timer, pc, job, prior>>

GarbageCollected(t) == sched[t].there /\ sched[t].old /\ Removed(t) /\ UNCHANGED faults

ScheduleDeleted(t) == sched[t].there /\ Fault("scheduleGone") /\ Removed(t)

(* External: Velero validates its schedules and runs them.                 *)
VeleroValidates(t) ==
    /\ sched[t].there /\ sched[t].phase = ""
    /\ \/ /\ SchedChanged([sched EXCEPT ![t].phase = "Enabled"])
          /\ UNCHANGED faults
       \/ /\ Fault("rejected")
          /\ SchedChanged([sched EXCEPT ![t].phase = "FailedValidation"])
    /\ UNCHANGED <<ownVars, storageVars, hubVars, now, queued, timer, pc, job, prior>>

Running(t) == sched[t].there /\ ~sched[t].paused /\ sched[t].phase = "Enabled"

OwnBackupStarts ==
    /\ pending \/ \E t \in Schedules : Running(t)
    /\ latest' = [hub |-> "this", time |-> now]
    /\ pending' = FALSE
    /\ UNCHANGED <<ownVars, sched, seen, marker, contested, hubVars, now, queued, timer,
                   pc, job, prior, faults>>

(* This hub restored the managed clusters after the given time.            *)
RestoredHereAfter(time) == marker["this"].there /\ time < marker["this"].made

(* A backup of the other hub is synced, some time after it was started.    *)
ForeignBackup(started) ==
    /\ Fault("foreignBackup")
    /\ latest.hub # "none" => started >= latest.time
    /\ started <= now
    /\ latest' = [hub |-> "other", time |-> started]
    /\ contested' = (contested \/ ~RestoredHereAfter(started))
    /\ UNCHANGED <<ownVars, sched, seen, marker, pending, hubVars, now, queued, timer,
                   pc, job, prior>>

(* recordClustersRestoreOperation on the other hub, synced here later, ... *)
ForeignRestore(started) ==
    /\ Fault("foreignRestore")
    /\ started <= now /\ started >= marker["other"].start
    /\ marker' = [marker EXCEPT !["other"] =
            [there |-> TRUE, started |-> TRUE, start |-> started, made |-> now]]
    /\ contested' = (contested \/ ~RestoredHereAfter(started))
    /\ UNCHANGED <<ownVars, sched, seen, latest, pending, hubVars, now, queued, timer,
                   pc, job, prior>>

(* ... and on this one, at the end of a Restore that took more than a unit *)
(* of time, which isBackupScheduleRunning only lets run next to a schedule *)
(* that is paused.  Velero may not start the marker at once.               *)
OwnRestore ==
    /\ restoreActive /\ phase \in {"Paused", "BackupCollision"} /\ Fault("ownRestore")
    /\ latest.time < now /\ marker["other"].start < now
    /\ \E started \in BOOLEAN :
        /\ ~started => "markerQueued" \in Faults
        /\ marker' = [marker EXCEPT !["this"] =
                [there |-> TRUE, started |-> started, start |-> now, made |-> now]]
    /\ restoreActive' = FALSE
    /\ contested' = (job.target = "BackupCollision")
    /\ UNCHANGED <<ownVars, sched, seen, latest, pending, valid, now, queued, timer, pc, job, prior>>

MarkerStarts ==
    /\ marker["this"].there /\ ~marker["this"].started
    /\ marker' = [marker EXCEPT !["this"].started = TRUE, !["this"].start = now]
    /\ UNCHANGED <<ownVars, sched, seen, latest, pending, contested, hubVars, now, workVars,
                   pc, job, prior, faults>>

(* deleteOlderRestoreClustersBackups on the hub with the newer marker only *)
(* requests the deletion of the older one.                                 *)
MarkerDeleted(h) ==
    LET recorded(g) == IF g = "this" THEN marker[g].made ELSE marker[g].start
    IN  /\ \A g \in Hubs : marker[g].there /\ (g # h => recorded(h) < recorded(g))
        /\ marker' = [marker EXCEPT ![h] = NoMarker]
        /\ UNCHANGED <<ownVars, sched, seen, latest, pending, contested, hubVars, now,
                       workVars, pc, job, prior, faults>>

RestoreStarts ==
    /\ ~restoreActive /\ Fault("restore")
    /\ restoreActive' = TRUE
    /\ UNCHANGED <<ownVars, sched, seen, storageVars, valid, now, queued, timer, pc, job, prior>>

RestoreEnds ==
    /\ restoreActive
    /\ restoreActive' = FALSE
    /\ UNCHANGED <<ownVars, sched, seen, storageVars, valid, now, workVars, pc, job,
                   prior, faults>>

StorageLost ==
    /\ valid /\ Fault("storage")
    /\ valid' = FALSE
    /\ UNCHANGED <<ownVars, sched, seen, storageVars, restoreActive, now, workVars, pc, job, prior>>

StorageBack ==
    /\ ~valid
    /\ valid' = TRUE
    /\ UNCHANGED <<ownVars, sched, seen, storageVars, restoreActive, now, workVars, pc, job,
                   prior, faults>>

OperatorRestart ==
    /\ Fault("crash")
    /\ Return /\ queued' = TRUE /\ timer' = FALSE
    /\ seen' = sched /\ cached' = BackupSchedule(spec, phase)
    /\ UNCHANGED <<spec, phase, sched, storageVars, hubVars, now, prior>>

Tick ==
    /\ now < MaxTime
    /\ now' = now + 1
    /\ UNCHANGED <<ownVars, sched, seen, storageVars, hubVars, workVars, pc, job, prior, faults>>

Environment ==
    \/ RequeueAfter \/ BackupScheduleInformer \/ ScheduleInformer
    \/ \E s \in Specs : UserEdit(s)
    \/ UserRecreate
    \/ \E t \in Schedules : GarbageCollected(t) \/ ScheduleDeleted(t) \/ VeleroValidates(t)
    \/ OwnBackupStarts
    \/ \E started \in Time : ForeignBackup(started) \/ ForeignRestore(started)
    \/ OwnRestore \/ MarkerStarts
    \/ \E h \in Hubs : MarkerDeleted(h)
    \/ RestoreStarts \/ RestoreEnds
    \/ StorageLost \/ StorageBack
    \/ OperatorRestart
    \/ Tick

Init ==
    /\ spec \in Specs /\ phase = "" /\ cached = BackupSchedule(spec, phase)
    /\ sched = [t \in Schedules |-> Absent] /\ seen = sched
    /\ latest = [hub |-> "none", time |-> 0] /\ pending = FALSE
    /\ marker = [h \in Hubs |-> NoMarker] /\ contested = FALSE
    /\ now = 0 /\ valid = TRUE /\ restoreActive = FALSE
    /\ queued = TRUE /\ timer = FALSE /\ pc = "idle" /\ job = NoJob
    /\ prior = [t \in Schedules |-> FALSE] /\ faults = 0

Next == Reconcile \/ Environment

Spec == Init /\ [][Next]_vars

(* The worker runs, timers fire, the informers deliver, Velero validates,  *)
(* the garbage collector collects, Restores end, the storage comes back.   *)
Fairness ==
    /\ WF_vars(Reconcile) /\ WF_vars(RequeueAfter)
    /\ WF_vars(BackupScheduleInformer) /\ WF_vars(ScheduleInformer)
    /\ WF_vars(StorageBack) /\ WF_vars(RestoreEnds)
    /\ \A t \in Schedules : WF_vars(VeleroValidates(t)) /\ WF_vars(GarbageCollected(t))

FairSpec == Spec /\ Fairness

-----------------------------------------------------------------------------
(* Properties.                                                             *)

(* Every variable keeps its type.                                          *)
TypeOK ==
    /\ spec \in Specs /\ phase \in Phases /\ cached \in [spec: Specs, phase: Phases]
    /\ sched \in [Schedules -> VeleroSchedules] /\ seen \in [Schedules -> VeleroSchedules]
    /\ latest \in Backups /\ marker \in [Hubs -> Markers]
    /\ pending \in BOOLEAN /\ contested \in BOOLEAN
    /\ now \in Time /\ valid \in BOOLEAN /\ restoreActive \in BOOLEAN
    /\ queued \in BOOLEAN /\ timer \in BOOLEAN
    /\ pc \in PCs /\ job \in Jobs
    /\ prior \in [Schedules -> BOOLEAN] /\ faults \in 0..MaxFaults

(* "create a new BackupSchedule resource to resume backups": nothing but   *)
(* that ends a reported collision, and until then no pass, whatever the    *)
(* user edits and whatever it started from, creates a Velero schedule or   *)
(* resumes a paused one.                                                   *)
CollisionNeverResumes ==
    [][phase = "BackupCollision" =>
         /\ phase' \in {"BackupCollision", ""}
         /\ \A t \in Schedules :
              sched'[t].there /\ ~sched'[t].paused => sched[t].there /\ ~sched[t].paused]_vars

(* A collision is reported only if another hub wrote a backup or restored  *)
(* the managed clusters since the last restore on this hub (the failback   *)
(* exemption of thisHubRestoredAfterBackup).                               *)
CollisionHasCause ==
    [][phase' = "BackupCollision" /\ phase # "BackupCollision" => contested]_vars

(* "recreate them all to have the same backup due time": when the schedule *)
(* is Enabled its Velero schedules come from one creation loop.            *)
SameDueTime ==
    phase = "Enabled" => \A t, u \in Present(sched) : prior[t] = prior[u]

AllPaused == \A t \in Present(sched) : sched[t].paused

(* "pause schedules, so we don't generate new backups": a collision stops  *)
(* the Velero schedules, unless the user starts over.                      *)
CollisionStopsBackups == phase = "BackupCollision" ~> AllPaused \/ phase # "BackupCollision"

(* The controller "checks regularly": when the other hub has the last word *)
(* in the storage location, and this hub did not restore after that, an    *)
(* active schedule ends up in collision.                                   *)
CollisionNoticed ==
    <>[](/\ latest.hub = "other" /\ ~RestoredHereAfter(latest.time)
         /\ ~spec.paused /\ spec.settings # "invalid"
         /\ \A t \in Present(sched) : sched[t].born < now)
        => <>(phase = "BackupCollision")

(* A schedule that the user pauses for good stops its Velero schedules.    *)
PausedStopsBackups ==
    <>[](spec.paused /\ spec.settings # "invalid" /\ phase # "BackupCollision") => <>[]AllPaused

(* With a valid configuration, and as long as no collision is reported, the*)
(* schedule ends up Enabled with every Velero schedule as the spec asks.   *)
EventuallyEnabled ==
    <>[](~spec.paused /\ spec.settings # "invalid" /\ phase # "BackupCollision") =>
        <>[](/\ phase = "Enabled"
             /\ \A t \in Schedules :
                  /\ sched[t].there /\ ~sched[t].paused /\ ~sched[t].old
                  /\ sched[t].settings = spec.settings)

=============================================================================
