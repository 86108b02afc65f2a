----------------------- MODULE ScheduleReconcilerProofs ----------------------
(***************************************************************************)
(* Theorems about ScheduleReconciler, for every value of its constants.    *)
(***************************************************************************)
EXTENDS ScheduleReconciler, TLAPS

-----------------------------------------------------------------------------
(* What the helpers return.                                                *)

LEMMA NoJobType == NoJob \in Jobs
<1>1. (CHOOSE s \in Specs : TRUE) \in Specs
  BY ScheduleAssumption
<1> QED
  BY <1>1 DEF NoJob, Jobs, Phases

LEMMA NewJobType ==
    ASSUME TypeOK, NEW target \in Phases, NEW todo \in SUBSET Schedules, NEW after \in BOOLEAN
    PROVE  NewJob(target, todo, after) \in Jobs
<1>1. (cached # BackupSchedule(spec, phase)) \in BOOLEAN
  OBVIOUS
<1> QED
  BY <1>1 DEF NewJob, Jobs, TypeOK

LEMMA AbsentType == Absent \in VeleroSchedules
BY ScheduleAssumption DEF Absent, VeleroSchedules, VeleroPhases, Time

LEMMA SetSchedulePhaseType ==
    ASSUME NEW s \in [Schedules -> VeleroSchedules]
    PROVE  setSchedulePhase(s) \subseteq Phases
BY DEF setSchedulePhase, Present, VeleroSchedules, VeleroPhases, Phases

(* The writes to the API server keep the types of what they write.         *)
LEMMA SchedChangedType ==
    ASSUME TypeOK, NEW s \in [Schedules -> VeleroSchedules], SchedChanged(s)
    PROVE  sched' \in [Schedules -> VeleroSchedules] /\ seen' \in [Schedules -> VeleroSchedules]
BY DEF SchedChanged, TypeOK

LEMMA OwnChangedType ==
    ASSUME TypeOK, NEW s \in Specs, NEW p \in Phases, OwnChanged(s, p)
    PROVE  spec' \in Specs /\ phase' \in Phases /\ cached' \in [spec: Specs, phase: Phases]
BY DEF OwnChanged, BackupSchedule, TypeOK

LEMMA FaultType ==
    ASSUME TypeOK, NEW kind
    PROVE  /\ CanFail(kind) => faults + 1 \in 0..MaxFaults
           /\ Fault(kind) => faults' \in 0..MaxFaults
BY ScheduleAssumption DEF CanFail, Fault, TypeOK

LEMMA EnqueuesType ==
    /\ \A s, t : Enqueues(s, t) \in BOOLEAN
    /\ \A b, c : OwnEnqueues(b, c) \in BOOLEAN
BY DEF Enqueues, OwnEnqueues

-----------------------------------------------------------------------------
(* Type correctness.  A pass that creates or updates Velero schedules has  *)
(* seen a cron expression that is valid: the types alone do not say so.    *)

TypeInv ==
    /\ TypeOK
    /\ pc \in {"create", "update"} => job.spec.settings # "invalid"

(* How a pass goes on.                                                     *)
LEMMA GoOnType ==
    ASSUME TypeOK, NEW point \in PCs, NEW target \in Phases, NEW todo \in SUBSET Schedules,
           NEW after \in BOOLEAN, GoOn(point, target, todo, after)
    PROVE  pc' \in PCs /\ job' \in Jobs /\ queued' \in BOOLEAN /\ job'.spec = cached.spec
BY NewJobType DEF GoOn, NewJob

LEMMA ReturnType ==
    ASSUME Return
    PROVE  pc' = "idle" /\ pc' \in PCs /\ job' \in Jobs
BY NoJobType DEF Return, PCs

LEMMA SettleType ==
    ASSUME TypeOK, Settle
    PROVE  /\ pc' \in PCs /\ job' \in Jobs /\ queued' \in BOOLEAN
           /\ prior' \in [Schedules -> BOOLEAN]
           /\ job'.spec = cached.spec
<1> DEFINE here == Present(seen)
<1>1. here \in SUBSET Schedules /\ Schedules \in SUBSET Schedules
      /\ {} \in SUBSET Schedules /\ "New" \in Phases /\ cached.phase \in Phases
  BY DEF Present, Phases, TypeOK
<1>2. {"create", "delete", "update", "write"} \subseteq PCs
  BY DEF PCs
<1>3. CASE GoOn("create", "New", Schedules, TRUE) /\ prior' = [t \in Schedules |-> TRUE]
  BY <1>1, <1>2, <1>3, GoOnType
<1>4. CASE GoOn("delete", "New", here, TRUE) /\ UNCHANGED prior
  BY <1>1, <1>2, <1>4, GoOnType DEF TypeOK
<1>5. CASE GoOn("update", cached.phase, Schedules, TRUE) /\ UNCHANGED prior
  BY <1>1, <1>2, <1>5, GoOnType DEF TypeOK
<1>6. CASE (\E p \in setSchedulePhase(seen) : GoOn("write", p, {}, TRUE)) /\ UNCHANGED prior
  <2>1. PICK p \in Phases : GoOn("write", p, {}, TRUE)
    BY <1>6, SetSchedulePhaseType DEF TypeOK
  <2> QED
    BY <2>1, <1>1, <1>2, <1>6, GoOnType DEF TypeOK
<1> QED
  BY <1>3, <1>4, <1>5, <1>6 DEF Settle

LEMMA BeginType ==
    ASSUME TypeInv, Begin
    PROVE  TypeInv'
<1> DEFINE Known == /\ pc' \in PCs /\ job' \in Jobs /\ queued' \in BOOLEAN
                    /\ prior' \in [Schedules -> BOOLEAN] /\ faults' \in 0..MaxFaults
                    /\ pc' \in {"create", "update"} => job'.spec.settings # "invalid"
<1>0. TypeOK
  BY DEF TypeInv
<1>1. {} \in SUBSET Schedules /\ Present(seen) \in SUBSET Schedules
      /\ {"FailedValidation", "Paused", "BackupCollision"} \subseteq Phases
      /\ {"write", "pause"} \subseteq PCs
  BY DEF Present, Phases, PCs
<1>2. ASSUME NEW target \in {"FailedValidation", "Paused", "BackupCollision"},
             NEW point \in {"write", "pause"}, NEW todo \in SUBSET Schedules,
             NEW after \in BOOLEAN, GoOn(point, target, todo, after), UNCHANGED <<prior, faults>>
      PROVE  Known
  <2>1. pc' \in {"write", "pause"} /\ pc' \in PCs /\ job' \in Jobs /\ queued' \in BOOLEAN
    BY <1>0, <1>1, <1>2, GoOnType DEF GoOn
  <2> QED
    BY <1>0, <1>2, <2>1 DEF TypeOK
<1>3. ASSUME Return, queued' \in BOOLEAN, UNCHANGED prior, faults' \in 0..MaxFaults
      PROVE  Known
  BY <1>0, <1>3, ReturnType DEF TypeOK
<1>4. ASSUME IsCronValid, CheckCollision
      PROVE  Known
  <2>1. ASSUME Settle, UNCHANGED faults PROVE Known
    BY <1>0, <1>4, <2>1, SettleType DEF TypeOK, IsCronValid
  <2>2. CASE Fault("prepareError") /\ Return /\ queued' = TRUE /\ UNCHANGED prior
    BY <1>0, <1>3, <2>2, FaultType
  <2>3. CASE GoOn("pause", "BackupCollision", Present(seen), FALSE) /\ UNCHANGED <<prior, faults>>
    BY <1>1, <1>2, <2>3
  <2> QED
    BY <1>4, <2>1, <2>2, <2>3 DEF CheckCollision
<1>5. Known
  <2>1. CASE IsInCollision /\ Return /\ queued' = FALSE /\ UNCHANGED <<prior, faults>>
    BY <1>0, <1>3, <2>1 DEF TypeOK
  <2>2. ASSUME NEW after \in BOOLEAN, GoOn("write", "FailedValidation", {}, after),
               UNCHANGED <<prior, faults>>
        PROVE  Known
    BY <1>1, <1>2, <2>2
  <2>3. CASE GoOn("pause", "Paused", Present(seen), FALSE) /\ UNCHANGED <<prior, faults>>
    BY <1>1, <1>2, <2>3
  <2> QED
    BY <1>4, <2>1, <2>2, <2>3 DEF Begin
<1> QED
  BY <1>0, <1>5 DEF TypeInv, TypeOK, Begin, ownVars, storageVars, hubVars

(* A change of the paused field keeps the type of the Velero schedules.    *)
LEMMA SetPausedType ==
    ASSUME NEW s \in [Schedules -> VeleroSchedules], NEW t, NEW b \in BOOLEAN
    PROVE  [s EXCEPT ![t].paused = b] \in [Schedules -> VeleroSchedules]
<1>1. ASSUME NEW v \in VeleroSchedules
      PROVE  [v EXCEPT !.paused = b] \in VeleroSchedules
  BY DEF VeleroSchedules
<1> QED
  BY <1>1

(* The iterations over the Velero schedules.                               *)
LEMMA PauseType ==
    ASSUME TypeInv, Pause
    PROVE  TypeInv'
<1>0. TypeOK /\ pc = "pause"
  BY DEF TypeInv, Pause
<1>1. queued' \in BOOLEAN
  BY <1>0, EnqueuesType DEF Pause, TypeOK
<1>2. CASE job.todo = {} /\ pc' = "write" /\ UNCHANGED <<job, sched, seen, faults>>
  BY <1>0, <1>1, <1>2 DEF Pause, TypeInv, TypeOK, PCs, ownVars, storageVars, hubVars
<1>3. ASSUME NEW t \in job.todo, NEW failed \in BOOLEAN,
             pauseVeleroSchedule(t, failed), UNCHANGED pc,
             job' = [job EXCEPT !.todo = @ \ {t}, !.failed = @ \/ failed]
      PROVE  TypeInv'
  <2>1. /\ sched' \in [Schedules -> VeleroSchedules] /\ seen' \in [Schedules -> VeleroSchedules]
        /\ faults' \in 0..MaxFaults
    <3>1. [sched EXCEPT ![t].paused = TRUE] \in [Schedules -> VeleroSchedules]
      BY <1>0, SetPausedType DEF TypeOK
    <3> QED
      BY <1>0, <1>3, <3>1, SchedChangedType, FaultType DEF pauseVeleroSchedule, TypeOK
  <2>2. (job.failed \/ failed) \in BOOLEAN
    OBVIOUS
  <2>3. job' \in Jobs
    BY <1>0, <1>3, <2>2 DEF TypeOK, Jobs
  <2> QED
    BY <1>0, <1>1, <1>3, <2>1, <2>3 DEF Pause, TypeInv, TypeOK, ownVars, storageVars, hubVars
<1> QED
  BY <1>2, <1>3 DEF Pause

LEMMA CreateType ==
    ASSUME TypeInv, Create
    PROVE  TypeInv'
<1> DEFINE t == CHOOSE i \in job.todo : \A k \in job.todo : i <= k
           new == [there |-> TRUE, paused |-> job.spec.paused, settings |-> job.spec.settings,
                   phase |-> "", old |-> FALSE, born |-> now]
<1>0. TypeOK /\ pc = "create" /\ job.spec.settings # "invalid"
  BY DEF TypeInv, Create
<1>1. queued' \in BOOLEAN
  BY <1>0, EnqueuesType DEF Create, TypeOK
<1>2. CASE /\ sched[t].there \/ CanFail("createError")
           /\ faults' = IF sched[t].there THEN faults ELSE faults + 1
           /\ job' = [job EXCEPT !.todo = {}, !.target = "Failed", !.failed = TRUE]
           /\ pc' = "write"
           /\ UNCHANGED <<sched, seen, pending, prior>>
  <2>1. faults' \in 0..MaxFaults
    BY <1>0, <1>2, FaultType DEF TypeOK
  <2>2. job' \in Jobs
    BY <1>0, <1>2 DEF TypeOK, Jobs, Phases
  <2> QED
    BY <1>0, <1>1, <1>2, <2>1, <2>2 DEF Create, TypeInv, TypeOK, PCs, ownVars, hubVars
<1>3. CASE /\ SchedChanged([sched EXCEPT ![t] = new])
           /\ pending' \in {pending, TRUE}
           /\ prior' = [prior EXCEPT ![t] = FALSE]
           /\ job' = [job EXCEPT !.todo = @ \ {t}]
           /\ pc' = IF job.todo = {t} THEN "write" ELSE "create"
           /\ UNCHANGED faults
  <2>1. new \in VeleroSchedules
    BY <1>0, ScheduleAssumption
       DEF TypeOK, Jobs, BackupScheduleSpec, VeleroSchedules, VeleroPhases
  <2>2. sched' \in [Schedules -> VeleroSchedules] /\ seen' \in [Schedules -> VeleroSchedules]
    <3>1. [sched EXCEPT ![t] = new] \in [Schedules -> VeleroSchedules]
      BY <1>0, <2>1 DEF TypeOK
    <3> QED
      BY <1>0, <1>3, <3>1, SchedChangedType
  <2>3. job' \in Jobs /\ job'.spec = job.spec
    BY <1>0, <1>3 DEF TypeOK, Jobs
  <2> QED
    BY <1>0, <1>1, <1>3, <2>2, <2>3 DEF Create, TypeInv, TypeOK, PCs, ownVars, hubVars
<1> QED
  BY <1>2, <1>3 DEF Create

LEMMA DeleteType ==
    ASSUME TypeInv, Delete
    PROVE  TypeInv'
<1>0. TypeOK /\ pc = "delete"
  BY DEF TypeInv, Delete
<1>1. PICK t \in job.todo :
        \/ /\ SchedChanged([sched EXCEPT ![t] = Absent])
           /\ job' = [job EXCEPT !.todo = @ \ {t}]
           /\ pc' = IF job.todo = {t} THEN "write" ELSE "delete"
           /\ queued' = (queued \/ Enqueues(seen, seen'))
           /\ UNCHANGED <<faults, timer>>
        \/ /\ ~sched[t].there \/ CanFail("deleteError")
           /\ faults' = IF sched[t].there THEN faults + 1 ELSE faults
           /\ Retry
           /\ UNCHANGED <<sched, seen>>
  BY DEF Delete
<1>2. CASE /\ SchedChanged([sched EXCEPT ![t] = Absent])
           /\ job' = [job EXCEPT !.todo = @ \ {t}]
           /\ pc' = IF job.todo = {t} THEN "write" ELSE "delete"
           /\ queued' = (queued \/ Enqueues(seen, seen'))
           /\ UNCHANGED <<faults, timer>>
  <2>1. [sched EXCEPT ![t] = Absent] \in [Schedules -> VeleroSchedules]
    BY <1>0, AbsentType DEF TypeOK
  <2>2. job' \in Jobs
    BY <1>0, <1>2 DEF TypeOK, Jobs
  <2> QED
    BY <1>0, <1>2, <2>1, <2>2, SchedChangedType, EnqueuesType
       DEF Delete, TypeInv, TypeOK, PCs, ownVars, storageVars, hubVars
<1>3. CASE /\ ~sched[t].there \/ CanFail("deleteError")
           /\ faults' = IF sched[t].there THEN faults + 1 ELSE faults
           /\ Retry
           /\ UNCHANGED <<sched, seen>>
  <2>1. faults' \in 0..MaxFaults
    BY <1>0, <1>3, FaultType DEF TypeOK
  <2> QED
    BY <1>0, <1>3, <2>1, ReturnType
       DEF Retry, Delete, TypeInv, TypeOK, ownVars, storageVars, hubVars
<1> QED
  BY <1>1, <1>2, <1>3

LEMMA UpdateType ==
    ASSUME TypeInv, Update
    PROVE  TypeInv'
<1>0. TypeOK /\ pc = "update" /\ job.spec.settings # "invalid"
  BY DEF TypeInv, Update
<1> DEFINE new(t) == [sched EXCEPT ![t].paused = job.spec.paused,
                                   ![t].settings = job.spec.settings]
<1>1. ASSUME NEW t \in job.todo,
             SchedChanged(new(t)),
             IF job.todo = {t}
             THEN Return /\ timer' = TRUE
             ELSE job' = [job EXCEPT !.todo = @ \ {t}] /\ UNCHANGED <<pc, timer>>,
             queued' = (queued \/ Enqueues(seen, seen')),
             UNCHANGED faults
      PROVE  TypeInv'
  <2>1. new(t) \in [Schedules -> VeleroSchedules]
    <3>1. job.spec.paused \in BOOLEAN /\ job.spec.settings \in {"s1", "s2", "none"}
      BY <1>0, ScheduleAssumption DEF TypeOK, Jobs, BackupScheduleSpec
    <3>2. [sched EXCEPT ![t].paused = job.spec.paused] \in [Schedules -> VeleroSchedules]
      BY <1>0, <3>1, SetPausedType DEF TypeOK
    <3>3. ASSUME NEW s \in [Schedules -> VeleroSchedules]
          PROVE  [s EXCEPT ![t].settings = job.spec.settings] \in [Schedules -> VeleroSchedules]
      BY <3>1 DEF VeleroSchedules
    <3>4. new(t) = [[sched EXCEPT ![t].paused = job.spec.paused]
                        EXCEPT ![t].settings = job.spec.settings]
      OBVIOUS
    <3> QED
      BY <3>2, <3>3, <3>4
  <2>2. /\ pc' \in PCs /\ job' \in Jobs /\ timer' \in BOOLEAN
        /\ pc' = "update" => job'.spec = job.spec
        /\ pc' # "create"
    <3>1. CASE job.todo = {t}
      BY <1>1, <3>1, ReturnType
    <3>2. CASE job.todo # {t}
      BY <1>0, <1>1, <3>2 DEF TypeOK, Jobs
    <3> QED
      BY <3>1, <3>2
  <2> QED
    BY <1>0, <1>1, <2>1, <2>2, SchedChangedType, EnqueuesType
       DEF Update, TypeInv, TypeOK, ownVars, storageVars, hubVars
<1>2. ASSUME NEW t \in job.todo,
             ~sched[t].there \/ ~Current(t) \/ CanFail("updateError"),
             faults' = IF sched[t].there /\ Current(t) THEN faults + 1 ELSE faults,
             Retry,
             UNCHANGED <<sched, seen>>
      PROVE  TypeInv'
  <2>1. faults' \in 0..MaxFaults
    BY <1>0, <1>2, FaultType DEF TypeOK
  <2> QED
    BY <1>0, <1>2, <2>1, ReturnType
       DEF Retry, Update, TypeInv, TypeOK, ownVars, storageVars, hubVars
<1> QED
  BY <1>1, <1>2 DEF Update

LEMMA WriteStatusType ==
    ASSUME TypeInv, WriteStatus
    PROVE  TypeInv'
<1>0. TypeOK
  BY DEF TypeInv
<1>1. /\ Finish => pc' = "idle" /\ job' \in Jobs /\ queued' \in BOOLEAN /\ timer' \in BOOLEAN
      /\ Retry => pc' = "idle" /\ job' \in Jobs /\ queued' \in BOOLEAN /\ timer' \in BOOLEAN
  BY <1>0, ReturnType DEF Finish, Retry, TypeOK
<1>2. /\ pc' = "idle" /\ job' \in Jobs /\ queued' \in BOOLEAN /\ timer' \in BOOLEAN
      /\ faults' \in 0..MaxFaults
  BY <1>0, <1>1, FaultType DEF WriteStatus, TypeOK
<1>3. spec' \in Specs /\ phase' \in Phases /\ cached' \in [spec: Specs, phase: Phases]
  <2>1. job.target \in Phases
    BY <1>0 DEF TypeOK, Jobs
  <2> QED
    BY <1>0, <2>1, OwnChangedType DEF WriteStatus, TypeOK, ownVars
<1> QED
  BY <1>0, <1>2, <1>3 DEF WriteStatus, TypeInv, TypeOK, PCs, storageVars, hubVars

(* The events around the controller.                                       *)
LEMMA OwnEventsType ==
    ASSUME TypeInv,
           \/ RequeueAfter \/ BackupScheduleInformer \/ ScheduleInformer
           \/ \E s \in Specs : UserEdit(s)
           \/ UserRecreate \/ OperatorRestart
    PROVE  TypeInv'
<1>0. TypeOK
  BY DEF TypeInv
<1>1. Touched \in Jobs /\ Touched.spec = job.spec
  BY <1>0 DEF TypeOK, Touched, Jobs
<1>2. CASE RequeueAfter
  BY <1>2 DEF TypeInv, TypeOK, RequeueAfter, ownVars, storageVars, hubVars
<1>3. CASE BackupScheduleInformer
  BY <1>3, EnqueuesType
     DEF TypeInv, TypeOK, BackupScheduleInformer, BackupSchedule, storageVars, hubVars
<1>4. CASE ScheduleInformer
  BY <1>4, EnqueuesType DEF TypeInv, TypeOK, ScheduleInformer, ownVars, storageVars, hubVars
<1>5. ASSUME NEW s \in Specs, UserEdit(s)
      PROVE  TypeInv'
  <2>1. spec' \in Specs /\ phase' \in Phases /\ cached' \in [spec: Specs, phase: Phases]
    <3>1. OwnChanged(s, phase) /\ phase \in Phases
      BY <1>0, <1>5 DEF UserEdit, TypeOK
    <3> QED
      BY <1>0, <3>1, OwnChangedType
  <2> QED
    BY <1>0, <1>1, <1>5, <2>1, FaultType, EnqueuesType
       DEF TypeInv, TypeOK, UserEdit, storageVars, hubVars
<1>6. CASE UserRecreate
  <2>1. spec' \in Specs /\ phase' \in Phases /\ cached' \in [spec: Specs, phase: Phases]
    <3>1. OwnChanged(spec, "") /\ spec \in Specs /\ "" \in Phases
      BY <1>0, <1>6 DEF UserRecreate, TypeOK, Phases
    <3> QED
      BY <1>0, <3>1, OwnChangedType
  <2>2. [t \in Schedules |-> IF sched[t].there THEN [sched[t] EXCEPT !.old = TRUE] ELSE sched[t]]
            \in [Schedules -> VeleroSchedules]
    <3>1. sched \in [Schedules -> VeleroSchedules]
      BY <1>0 DEF TypeOK
    <3>2. ASSUME NEW v \in VeleroSchedules
          PROVE  [v EXCEPT !.old = TRUE] \in VeleroSchedules
      BY DEF VeleroSchedules
    <3> QED
      BY <3>1, <3>2
  <2> QED
    BY <1>0, <1>1, <1>6, <2>1, <2>2, SchedChangedType, FaultType, EnqueuesType
       DEF TypeInv, TypeOK, UserRecreate, storageVars, hubVars
<1>7. CASE OperatorRestart
  BY <1>0, <1>7, ReturnType, FaultType
     DEF TypeInv, TypeOK, OperatorRestart, BackupSchedule, storageVars, hubVars
<1> QED
  BY <1>2, <1>3, <1>4, <1>5, <1>6, <1>7

LEMMA VeleroEventsType ==
    ASSUME TypeInv, NEW t \in Schedules,
           GarbageCollected(t) \/ ScheduleDeleted(t) \/ VeleroValidates(t)
    PROVE  TypeInv'
<1>0. TypeOK
  BY DEF TypeInv
<1>1. CASE GarbageCollected(t) \/ ScheduleDeleted(t)
  <2>1. Removed(t) /\ faults' \in 0..MaxFaults
    BY <1>0, <1>1, FaultType DEF GarbageCollected, ScheduleDeleted, TypeOK
  <2>2. [sched EXCEPT ![t] = Absent] \in [Schedules -> VeleroSchedules]
    BY <1>0, AbsentType DEF TypeOK
  <2> QED
    BY <1>0, <2>1, <2>2, SchedChangedType, EnqueuesType
       DEF TypeInv, TypeOK, Removed, ownVars, storageVars, hubVars
<1>2. CASE VeleroValidates(t)
  <2>1. ASSUME NEW p \in {"Enabled", "FailedValidation"}
        PROVE  [sched EXCEPT ![t].phase = p] \in [Schedules -> VeleroSchedules]
    <3>1. p \in VeleroPhases
      BY DEF VeleroPhases
    <3> QED
      BY <1>0, <3>1 DEF TypeOK, VeleroSchedules
  <2>2. /\ sched' \in [Schedules -> VeleroSchedules] /\ seen' \in [Schedules -> VeleroSchedules]
        /\ faults' \in 0..MaxFaults
    BY <1>0, <1>2, <2>1, SchedChangedType, FaultType DEF VeleroValidates, TypeOK
  <2> QED
    BY <1>0, <1>2, <2>2 DEF TypeInv, TypeOK, VeleroValidates, ownVars, storageVars, hubVars
<1> QED
  BY <1>1, <1>2

LEMMA StorageEventsType ==
    ASSUME TypeInv,
           \/ OwnBackupStarts
           \/ \E started \in Time : ForeignBackup(started) \/ ForeignRestore(started)
           \/ OwnRestore \/ MarkerStarts
           \/ \E h \in Hubs : MarkerDeleted(h)
    PROVE  TypeInv'
<1>0. TypeOK
  BY DEF TypeInv
<1>1. (\A time : RestoredHereAfter(time) \in BOOLEAN) /\ (job.target = "BackupCollision") \in BOOLEAN
  BY <1>0 DEF RestoredHereAfter, TypeOK, Markers, Hubs
<1>2. CASE OwnBackupStarts
  BY <1>0, <1>2 DEF TypeInv, TypeOK, OwnBackupStarts, Backups, Hubs, ownVars, hubVars
<1>3. ASSUME NEW started \in Time, ForeignBackup(started)
      PROVE  TypeInv'
  BY <1>0, <1>1, <1>3, FaultType
     DEF TypeInv, TypeOK, ForeignBackup, Backups, Hubs, ownVars, hubVars
<1>4. ASSUME NEW started \in Time, ForeignRestore(started)
      PROVE  TypeInv'
  <2>1. marker' \in [Hubs -> Markers]
    BY <1>0, <1>4 DEF ForeignRestore, TypeOK, Markers
  <2> QED
    BY <1>0, <1>1, <1>4, <2>1, FaultType DEF TypeInv, TypeOK, ForeignRestore, ownVars, hubVars
<1>5. CASE OwnRestore
  <2>1. marker' \in [Hubs -> Markers]
    <3>1. PICK started \in BOOLEAN : marker' = [marker EXCEPT !["this"] =
                [there |-> TRUE, started |-> started, start |-> now, made |-> now]]
      BY <1>5 DEF OwnRestore
    <3>2. [there |-> TRUE, started |-> started, start |-> now, made |-> now] \in Markers
      BY <1>0 DEF TypeOK, Markers
    <3> QED
      BY <1>0, <3>1, <3>2 DEF TypeOK
  <2> QED
    BY <1>0, <1>1, <1>5, <2>1, FaultType DEF TypeInv, TypeOK, OwnRestore, ownVars
<1>6. CASE MarkerStarts
  <2>1. marker' \in [Hubs -> Markers]
    <3>1. marker' = [marker EXCEPT !["this"] = [marker["this"] EXCEPT !.started = TRUE, !.start = now]]
      BY <1>0, <1>6 DEF MarkerStarts, TypeOK, Hubs, Markers
    <3>2. [marker["this"] EXCEPT !.started = TRUE, !.start = now] \in Markers
      BY <1>0 DEF TypeOK, Hubs, Markers
    <3> QED
      BY <1>0, <3>1, <3>2 DEF TypeOK
  <2> QED
    BY <1>0, <1>6, <2>1 DEF TypeInv, TypeOK, MarkerStarts, ownVars, hubVars, workVars
<1>7. ASSUME NEW h \in Hubs, MarkerDeleted(h)
      PROVE  TypeInv'
  <2>1. NoMarker \in Markers
    BY ScheduleAssumption DEF NoMarker, Markers, Time
  <2>2. marker' \in [Hubs -> Markers]
    BY <1>0, <1>7, <2>1 DEF MarkerDeleted, TypeOK
  <2> QED
    BY <1>0, <1>7, <2>2 DEF TypeInv, TypeOK, MarkerDeleted, ownVars, hubVars, workVars
<1> QED
  BY <1>2, <1>3, <1>4, <1>5, <1>6, <1>7

LEMMA HubEventsType ==
    ASSUME TypeInv, RestoreStarts \/ RestoreEnds \/ StorageLost \/ StorageBack \/ Tick
    PROVE  TypeInv'
<1>0. TypeOK
  BY DEF TypeInv
<1>1. CASE RestoreStarts \/ RestoreEnds
  BY <1>0, <1>1, FaultType
     DEF TypeInv, TypeOK, RestoreStarts, RestoreEnds, ownVars, storageVars, workVars
<1>2. CASE StorageLost \/ StorageBack
  BY <1>0, <1>2, FaultType
     DEF TypeInv, TypeOK, StorageLost, StorageBack, ownVars, storageVars, workVars
<1>3. CASE Tick
  <2>1. now' \in Time
    BY <1>0, <1>3, ScheduleAssumption DEF Tick, TypeOK, Time
  <2> QED
    BY <1>0, <1>3, <2>1 DEF TypeInv, TypeOK, Tick, ownVars, storageVars, hubVars, workVars
<1> QED
  BY <1>1, <1>2, <1>3

LEMMA InitType == Init => TypeInv
<1>1. "" \in Phases /\ Absent \in VeleroSchedules /\ NoJob \in Jobs /\ NoMarker \in Markers
      /\ 0 \in Time /\ 0 \in 0..MaxFaults
  BY AbsentType, NoJobType, ScheduleAssumption DEF Phases, NoMarker, Markers, Time
<1>2. [hub |-> "none", time |-> 0] \in Backups /\ "idle" \in PCs
  BY <1>1 DEF Backups, PCs
<1>3. Init => cached \in [spec: Specs, phase: Phases]
  <2>1. Init => spec \in Specs /\ phase \in Phases /\ cached = BackupSchedule(spec, phase)
    BY <1>1 DEF Init
  <2> QED
    BY <2>1 DEF BackupSchedule
<1>4. Init => /\ sched \in [Schedules -> VeleroSchedules] /\ seen \in [Schedules -> VeleroSchedules]
              /\ marker \in [Hubs -> Markers] /\ prior \in [Schedules -> BOOLEAN]
  BY <1>1 DEF Init
<1>5. Init => /\ pending \in BOOLEAN /\ contested \in BOOLEAN /\ valid \in BOOLEAN
              /\ restoreActive \in BOOLEAN /\ queued \in BOOLEAN /\ timer \in BOOLEAN
  BY DEF Init
<1>6. Init => /\ spec \in Specs /\ phase \in Phases /\ latest \in Backups /\ now \in Time
              /\ pc \in PCs /\ job \in Jobs /\ faults \in 0..MaxFaults
              /\ pc = "idle"
  BY <1>1, <1>2 DEF Init
<1> QED
  BY <1>3, <1>4, <1>5, <1>6 DEF TypeInv, TypeOK

LEMMA NextType == TypeInv /\ [Next]_vars => TypeInv'
<1> SUFFICES ASSUME TypeInv, [Next]_vars PROVE TypeInv'
  OBVIOUS
<1>1. CASE Reconcile
  BY <1>1, BeginType, PauseType, CreateType, DeleteType, UpdateType, WriteStatusType DEF Reconcile
<1>2. CASE Environment
  BY <1>2, OwnEventsType, VeleroEventsType, StorageEventsType, HubEventsType DEF Environment
<1>3. CASE UNCHANGED vars
  BY <1>3 DEF TypeInv, TypeOK, vars, ownVars, storageVars, hubVars, workVars
<1> QED
  BY <1>1, <1>2, <1>3 DEF Next

(* Type correctness of the BackupSchedule controller: in particular no     *)
(* Velero schedule ever carries a cron expression that is not valid.       *)
THEOREM TypeCorrect == Spec => []TypeOK
<1>1. TypeInv => TypeOK
  BY DEF TypeInv
<1> QED
  BY <1>1, InitType, NextType, PTL DEF Spec

-----------------------------------------------------------------------------
(* A reported collision is final.  With a current copy of the              *)
(* BackupSchedule no pass is under way while a collision is reported: the  *)
(* pass that reports it ends with that, and the next ones return at once.  *)

CollisionInv ==
    /\ cached = BackupSchedule(spec, phase)
    /\ phase = "BackupCollision" => pc = "idle"

(* Without lag every write of the BackupSchedule reaches the cache.        *)
LEMMA OwnChangedCached ==
    ASSUME "backupSchedule" \notin Lagging, NEW s, NEW p, OwnChanged(s, p)
    PROVE  spec' = s /\ phase' = p /\ cached' = BackupSchedule(spec', phase')
BY DEF OwnChanged, BackupSchedule

LEMMA ReconcileCollision ==
    ASSUME "backupSchedule" \notin Lagging, TypeInv, CollisionInv, Reconcile
    PROVE  CollisionInv' /\ (phase = "BackupCollision" => UNCHANGED <<phase, sched>>)
<1>1. CASE Begin
  <2>1. CASE phase = "BackupCollision"
    <3>1. IsInCollision
      BY <2>1 DEF CollisionInv, BackupSchedule, IsInCollision
    <3> QED
      BY <1>1, <3>1 DEF Begin, Return, CollisionInv, BackupSchedule, ownVars
  <2>2. CASE phase # "BackupCollision"
    BY <1>1, <2>2 DEF Begin, CollisionInv, BackupSchedule, ownVars
  <2> QED
    BY <2>1, <2>2
<1>2. CASE Pause \/ Create \/ Delete \/ Update
  BY <1>2 DEF Pause, Create, Delete, Update, CollisionInv, BackupSchedule, ownVars
<1>3. CASE WriteStatus
  <2>1. pc' = "idle" /\ pc = "write"
    BY <1>3 DEF WriteStatus, Finish, Retry, Return
  <2>2. cached' = BackupSchedule(spec', phase')
    BY <1>3, OwnChangedCached DEF WriteStatus, CollisionInv, BackupSchedule, ownVars
  <2> QED
    BY <2>1, <2>2 DEF CollisionInv
<1> QED
  BY <1>1, <1>2, <1>3 DEF Reconcile

(* What the surroundings do to a Velero schedule never resumes it.         *)
Resumes(t) == sched'[t].there /\ ~sched'[t].paused /\ ~(sched[t].there /\ ~sched[t].paused)

LEMMA EnvironmentCollision ==
    ASSUME "backupSchedule" \notin Lagging, TypeInv, CollisionInv, Environment
    PROVE  /\ CollisionInv'
           /\ phase' \in {phase, ""}
           /\ \A t \in Schedules : ~Resumes(t)
<1>0. sched \in [Schedules -> VeleroSchedules]
  BY DEF TypeInv, TypeOK
<1>1. ASSUME NEW s \in Specs, UserEdit(s)
      PROVE  CollisionInv' /\ UNCHANGED <<phase, sched>>
  BY <1>1, OwnChangedCached DEF UserEdit, CollisionInv
<1>2. CASE UserRecreate
  <2>1. CollisionInv' /\ phase' = ""
    <3>1. OwnChanged(spec, "")
      BY <1>2 DEF UserRecreate
    <3>2. phase' = "" /\ cached' = BackupSchedule(spec', phase')
      BY <3>1, OwnChangedCached
    <3> QED
      BY <3>2 DEF CollisionInv
  <2>2. \A t \in Schedules : ~Resumes(t)
    BY <1>0, <1>2 DEF UserRecreate, SchedChanged, Resumes, VeleroSchedules
  <2> QED
    BY <2>1, <2>2
<1>3. ASSUME NEW t \in Schedules, GarbageCollected(t) \/ ScheduleDeleted(t)
      PROVE  CollisionInv' /\ UNCHANGED phase /\ \A u \in Schedules : ~Resumes(u)
  <2>1. Removed(t)
    BY <1>3 DEF GarbageCollected, ScheduleDeleted
  <2>2. CollisionInv' /\ UNCHANGED phase
    BY <2>1 DEF Removed, CollisionInv, BackupSchedule, ownVars
  <2>3. sched' = [sched EXCEPT ![t] = Absent] /\ ~Absent.there
    BY <2>1 DEF Removed, SchedChanged, Absent
  <2>4. \A u \in Schedules : ~Resumes(u)
    BY <1>0, <2>3 DEF Resumes
  <2> QED
    BY <2>2, <2>4
<1>4. ASSUME NEW t \in Schedules, VeleroValidates(t)
      PROVE  CollisionInv' /\ UNCHANGED phase /\ \A u \in Schedules : ~Resumes(u)
  <2>1. CollisionInv' /\ UNCHANGED phase
    BY <1>4 DEF VeleroValidates, CollisionInv, BackupSchedule, ownVars
  <2>2. PICK p \in VeleroPhases : SchedChanged([sched EXCEPT ![t].phase = p])
    BY <1>4 DEF VeleroValidates, VeleroPhases
  <2>3. \A u \in Schedules : ~Resumes(u)
    <3>1. sched' = [sched EXCEPT ![t].phase = p]
      BY <2>2 DEF SchedChanged
    <3>2. \A u \in Schedules : /\ sched'[u].there = sched[u].there
                               /\ sched'[u].paused = sched[u].paused
      BY <1>0, <3>1 DEF VeleroSchedules
    <3> QED
      BY <3>2 DEF Resumes
  <2> QED
    BY <2>1, <2>3
<1>5. CASE \/ RequeueAfter \/ ScheduleInformer \/ OwnBackupStarts
           \/ \E started \in Time : ForeignBackup(started) \/ ForeignRestore(started)
           \/ OwnRestore \/ MarkerStarts
           \/ \E h \in Hubs : MarkerDeleted(h)
           \/ RestoreStarts \/ RestoreEnds \/ StorageLost \/ StorageBack \/ Tick
  <2>1. UNCHANGED <<spec, phase, cached, sched, pc>>
    BY <1>5 DEF RequeueAfter, ScheduleInformer, OwnBackupStarts, ForeignBackup, ForeignRestore,
                OwnRestore, MarkerStarts, MarkerDeleted, RestoreStarts, RestoreEnds,
                StorageLost, StorageBack, Tick, ownVars
  <2> QED
    BY <2>1 DEF CollisionInv, BackupSchedule, Resumes
<1>6. CASE BackupScheduleInformer \/ OperatorRestart
  <2>1. UNCHANGED <<spec, phase, sched>> /\ cached' = BackupSchedule(spec, phase)
        /\ (pc' = pc \/ pc' = "idle")
    BY <1>6 DEF BackupScheduleInformer, OperatorRestart, Return
  <2> QED
    BY <2>1 DEF CollisionInv, BackupSchedule, Resumes
<1> QED
  BY <1>1, <1>2, <1>3, <1>4, <1>5, <1>6 DEF Environment, Resumes

(* A reported collision is final, whatever the user edits and whatever     *)
(* fails, and even with a cache of Velero schedules that lags: only a new  *)
(* BackupSchedule resumes the backups.                                     *)
THEOREM CollisionIsFinal ==
    ASSUME "backupSchedule" \notin Lagging
    PROVE  Spec => CollisionNeverResumes
<1> DEFINE Step == phase = "BackupCollision" =>
                     /\ phase' \in {"BackupCollision", ""}
                     /\ \A t \in Schedules : sched'[t].there /\ ~sched'[t].paused =>
                                               sched[t].there /\ ~sched[t].paused
<1>1. Init => CollisionInv
  BY DEF Init, CollisionInv
<1>2. ASSUME TypeInv, CollisionInv, [Next]_vars
      PROVE  CollisionInv' /\ [Step]_vars
  <2>1. CASE Reconcile
    BY <1>2, <2>1, ReconcileCollision
  <2>2. CASE Environment
    BY <1>2, <2>2, EnvironmentCollision DEF Resumes
  <2>3. CASE UNCHANGED vars
    BY <1>2, <2>3 DEF CollisionInv, BackupSchedule, vars, ownVars
  <2> QED
    BY <1>2, <2>1, <2>2, <2>3 DEF Next
<1> QED
  BY <1>1, <1>2, InitType, NextType, PTL DEF Spec, CollisionNeverResumes

-----------------------------------------------------------------------------
(* The Velero schedules come from one creation loop.                       *)

(* A loop starts only when there is no Velero schedule, and nothing else   *)
(* creates one: those that are there are all of the last loop, or none is. *)
SameInv ==
    /\ TypeInv
    /\ seen = sched
    /\ \A t, u \in Present(sched) : prior[t] = prior[u]
    /\ pc = "create" => \A t \in Present(sched) : prior[t] = FALSE

(* Without lag every write of a Velero schedule reaches the cache.         *)
LEMMA SchedChangedSeen ==
    ASSUME "veleroSchedule" \notin Lagging, NEW s, SchedChanged(s)
    PROVE  sched' = s /\ seen' = sched'
BY DEF SchedChanged

(* A step that brings no Velero schedule into being and starts no loop.    *)
LEMMA SameKept ==
    ASSUME SameInv, TypeInv', UNCHANGED prior, seen' = sched',
           Present(sched') \subseteq Present(sched), pc' = "create" => pc = "create"
    PROVE  SameInv'
BY DEF SameInv

(* A pass that settles the Velero schedules.                               *)
LEMMA SettleSame ==
    ASSUME SameInv, Settle, UNCHANGED <<sched, seen>>
    PROVE  \/ UNCHANGED prior /\ pc' # "create"
           \/ Present(sched) = {} /\ prior' = [t \in Schedules |-> TRUE]
BY DEF Settle, GoOn, SameInv

LEMMA SameReconcile ==
    ASSUME "veleroSchedule" \notin Lagging, SameInv, Reconcile
    PROVE  SameInv'
<1>t. TypeInv' /\ sched \in [Schedules -> VeleroSchedules]
  BY NextType DEF SameInv, Next, TypeInv, TypeOK
<1>s. seen = sched
  BY DEF SameInv
<1>1. CASE Begin
  <2>1. UNCHANGED <<sched, seen>>
    BY <1>1 DEF Begin
  <2>2. \/ UNCHANGED prior /\ pc' # "create"
        \/ Present(sched) = {} /\ prior' = [t \in Schedules |-> TRUE]
    <3>1. CASE Settle
      BY <2>1, <3>1, SettleSame
    <3>2. CASE ~Settle
      BY <1>1, <3>2 DEF Begin, CheckCollision, GoOn, Return
    <3> QED
      BY <3>1, <3>2
  <2>3. CASE UNCHANGED prior /\ pc' # "create"
    BY <1>t, <1>s, <2>1, <2>3, SameKept
  <2>4. CASE Present(sched) = {}
    BY <1>t, <1>s, <2>1, <2>4 DEF SameInv
  <2> QED
    BY <2>2, <2>3, <2>4
<1>2. CASE Pause
  <2>1. \/ UNCHANGED <<sched, seen>>
        \/ \E t \in Schedules : SchedChanged([sched EXCEPT ![t].paused = TRUE])
    <3>1. job.todo \subseteq Schedules
      BY DEF SameInv, TypeInv, TypeOK, Jobs
    <3> QED
      BY <1>2, <3>1 DEF Pause, pauseVeleroSchedule
  <2>2. seen' = sched'
    BY <1>s, <2>1, SchedChangedSeen
  <2>3. Present(sched') \subseteq Present(sched)
    <3>1. ASSUME NEW t \in Schedules, SchedChanged([sched EXCEPT ![t].paused = TRUE])
          PROVE  \A u \in Schedules : sched'[u].there = sched[u].there
      <4>1. sched' = [sched EXCEPT ![t].paused = TRUE]
        BY <3>1 DEF SchedChanged
      <4> QED
        BY <1>t, <4>1 DEF VeleroSchedules
    <3> QED
      BY <2>1, <3>1 DEF Present
  <2>4. UNCHANGED prior /\ pc' # "create"
    BY <1>2 DEF Pause
  <2> QED
    BY <1>t, <2>2, <2>3, <2>4, SameKept
<1>3. CASE Create
  <2> DEFINE t == CHOOSE i \in job.todo : \A k \in job.todo : i <= k
             new == [there |-> TRUE, paused |-> job.spec.paused, settings |-> job.spec.settings,
                     phase |-> "", old |-> FALSE, born |-> now]
  <2>1. \/ UNCHANGED <<sched, seen, prior>> /\ pc' = "write"
        \/ SchedChanged([sched EXCEPT ![t] = new]) /\ prior' = [prior EXCEPT ![t] = FALSE]
    BY <1>3 DEF Create
  <2>2. CASE UNCHANGED <<sched, seen, prior>> /\ pc' = "write"
    BY <1>t, <1>s, <2>2, SameKept
  <2>3. CASE SchedChanged([sched EXCEPT ![t] = new]) /\ prior' = [prior EXCEPT ![t] = FALSE]
    <3>1. sched' = [sched EXCEPT ![t] = new] /\ seen' = sched'
      BY <2>3, SchedChangedSeen
    <3>2. \A u \in Present(sched) : prior[u] = FALSE
      BY <1>3 DEF Create, SameInv
    <3>3. \A u \in Present(sched') : u = t \/ u \in Present(sched)
      BY <1>t, <3>1 DEF Present
    <3>4. Present(sched') \subseteq Schedules /\ prior \in [Schedules -> BOOLEAN]
      BY DEF Present, SameInv, TypeInv, TypeOK
    <3>5. \A u \in Present(sched') : prior'[u] = FALSE
      <4> HIDE DEF t
      <4> QED
        BY <2>3, <3>2, <3>3, <3>4
    <3> QED
      BY <1>t, <3>1, <3>5 DEF SameInv
  <2> QED
    BY <2>1, <2>2, <2>3
<1>4. CASE Delete
  <2>1. \/ UNCHANGED <<sched, seen>>
        \/ \E t \in Schedules : SchedChanged([sched EXCEPT ![t] = Absent])
    <3>1. job.todo \subseteq Schedules
      BY DEF SameInv, TypeInv, TypeOK, Jobs
    <3> QED
      BY <1>4, <3>1 DEF Delete
  <2>2. seen' = sched'
    BY <1>s, <2>1, SchedChangedSeen
  <2>3. Present(sched') \subseteq Present(sched)
    <3>1. ASSUME NEW t \in Schedules, SchedChanged([sched EXCEPT ![t] = Absent])
          PROVE  \A u \in Schedules : u # t => sched'[u] = sched[u]
      BY <1>t, <3>1 DEF SchedChanged
    <3>2. ASSUME NEW t \in Schedules, SchedChanged([sched EXCEPT ![t] = Absent])
          PROVE  ~sched'[t].there
      BY <1>t, <3>2 DEF SchedChanged, Absent
    <3> QED
      BY <2>1, <3>1, <3>2 DEF Present
  <2>4. UNCHANGED prior /\ pc' # "create"
    BY <1>4 DEF Delete, Retry, Return
  <2> QED
    BY <1>t, <2>2, <2>3, <2>4, SameKept
<1>5. CASE Update
  <2>1. \/ UNCHANGED <<sched, seen>>
        \/ \E t \in Schedules : \E p, s :
             SchedChanged([sched EXCEPT ![t].paused = p, ![t].settings = s])
    <3>1. job.todo \subseteq Schedules
      BY DEF SameInv, TypeInv, TypeOK, Jobs
    <3> QED
      BY <1>5, <3>1 DEF Update
  <2>2. seen' = sched'
    BY <1>s, <2>1, SchedChangedSeen
  <2>3. Present(sched') \subseteq Present(sched)
    <3>1. ASSUME NEW t \in Schedules, NEW p, NEW s,
                 SchedChanged([sched EXCEPT ![t].paused = p, ![t].settings = s])
          PROVE  \A u \in Schedules : sched'[u].there = sched[u].there
      <4>1. sched' = [sched EXCEPT ![t].paused = p, ![t].settings = s]
        BY <3>1 DEF SchedChanged
      <4> QED
        BY <1>t, <4>1 DEF VeleroSchedules
    <3> QED
      BY <2>1, <3>1 DEF Present
  <2>4. UNCHANGED prior /\ pc' # "create"
    BY <1>5 DEF Update, Retry, Return
  <2> QED
    BY <1>t, <2>2, <2>3, <2>4, SameKept
<1>6. CASE WriteStatus
  <2>1. UNCHANGED <<sched, seen, prior>> /\ pc' = "idle"
    BY <1>6 DEF WriteStatus, Finish, Retry, Return
  <2> QED
    BY <1>t, <1>s, <2>1, SameKept
<1> QED
  BY <1>1, <1>2, <1>3, <1>4, <1>5, <1>6 DEF Reconcile

LEMMA SameEnvironment ==
    ASSUME "veleroSchedule" \notin Lagging, SameInv, Environment
    PROVE  SameInv'
<1>t. TypeInv' /\ sched \in [Schedules -> VeleroSchedules]
  BY NextType DEF SameInv, Next, TypeInv, TypeOK
<1>s. seen = sched
  BY DEF SameInv
<1>1. ASSUME UNCHANGED prior, pc' = pc \/ pc' = "idle", NEW s, sched' = s, seen' = s,
             \A t \in Schedules : s[t].there => sched[t].there
      PROVE  SameInv'
  <2>1. Present(sched') \subseteq Present(sched)
    BY <1>1 DEF Present
  <2> QED
    BY <1>t, <1>1, <2>1, SameKept
<1>2. CASE UserRecreate
  <2> DEFINE s == [t \in Schedules |->
                     IF sched[t].there THEN [sched[t] EXCEPT !.old = TRUE] ELSE sched[t]]
  <2>1. SchedChanged(s) /\ UNCHANGED <<prior, pc>>
    BY <1>2 DEF UserRecreate
  <2>2. sched' = s /\ seen' = s
    BY <2>1, SchedChangedSeen
  <2>3. \A t \in Schedules : s[t].there => sched[t].there
    OBVIOUS
  <2> HIDE DEF s
  <2> QED
    BY <1>1, <2>1, <2>2, <2>3
<1>3. ASSUME NEW t \in Schedules, GarbageCollected(t) \/ ScheduleDeleted(t) PROVE SameInv'
  <2>1. SchedChanged([sched EXCEPT ![t] = Absent]) /\ UNCHANGED <<prior, pc>>
    BY <1>3 DEF GarbageCollected, ScheduleDeleted, Removed
  <2>2. sched' = [sched EXCEPT ![t] = Absent] /\ seen' = [sched EXCEPT ![t] = Absent]
    BY <2>1, SchedChangedSeen
  <2>3. \A u \in Schedules : [sched EXCEPT ![t] = Absent][u].there => sched[u].there
    BY <1>t DEF Absent
  <2> QED
    BY <1>1, <2>1, <2>2, <2>3
<1>4. ASSUME NEW t \in Schedules, VeleroValidates(t) PROVE SameInv'
  <2>1. PICK p : SchedChanged([sched EXCEPT ![t].phase = p])
    BY <1>4 DEF VeleroValidates
  <2>2. sched' = [sched EXCEPT ![t].phase = p] /\ seen' = [sched EXCEPT ![t].phase = p]
    BY <2>1, SchedChangedSeen
  <2>3. \A u \in Schedules : [sched EXCEPT ![t].phase = p][u].there => sched[u].there
    BY <1>t DEF VeleroSchedules
  <2>4. UNCHANGED <<prior, pc>>
    BY <1>4 DEF VeleroValidates
  <2> QED
    BY <1>1, <2>2, <2>3, <2>4
<1>5. CASE \/ RequeueAfter \/ BackupScheduleInformer \/ ScheduleInformer \/ OwnBackupStarts
           \/ (\E s \in Specs : UserEdit(s))
           \/ (\E started \in Time : ForeignBackup(started) \/ ForeignRestore(started))
           \/ OwnRestore \/ MarkerStarts
           \/ (\E h \in Hubs : MarkerDeleted(h))
           \/ RestoreStarts \/ RestoreEnds \/ StorageLost \/ StorageBack \/ Tick
           \/ OperatorRestart
  <2>1. UNCHANGED <<prior, sched>> /\ (pc' = pc \/ pc' = "idle") /\ seen' = sched
    BY <1>5, <1>s DEF RequeueAfter, BackupScheduleInformer, ScheduleInformer, OwnBackupStarts,
         UserEdit, ForeignBackup, ForeignRestore, OwnRestore, MarkerStarts, MarkerDeleted,
         RestoreStarts, RestoreEnds, StorageLost, StorageBack, Tick, OperatorRestart, Return
  <2> QED
    BY <1>1, <2>1
<1> QED
  BY <1>2, <1>3, <1>4, <1>5 DEF Environment

(* With a current list of Velero schedules, those of an Enabled            *)
(* BackupSchedule come from one creation loop and so have the same due     *)
(* time: whatever the user deletes, whatever fails and wherever the        *)
(* operator restarts, a partial set is deleted before a new one is created.*)
THEOREM OneDueTime ==
    ASSUME "veleroSchedule" \notin Lagging
    PROVE  Spec => []SameDueTime
<1>1. Init => SameInv
  <2> SUFFICES ASSUME Init PROVE SameInv
    OBVIOUS
  <2>1. seen = sched /\ pc = "idle"
    BY DEF Init
  <2>2. Present(sched) = {}
    BY DEF Init, Present, Absent
  <2> QED
    BY <2>1, <2>2, InitType DEF SameInv
<1>2. SameInv /\ [Next]_vars => SameInv'
  <2> SUFFICES ASSUME SameInv, [Next]_vars PROVE SameInv'
    OBVIOUS
  <2>1. CASE UNCHANGED vars
    <3>1. UNCHANGED <<prior, sched, seen, pc>>
      BY <2>1 DEF vars
    <3>2. TypeInv'
      BY NextType DEF SameInv
    <3> QED
      BY <3>1, <3>2, SameKept DEF SameInv
  <2> QED
    BY <2>1, SameReconcile, SameEnvironment DEF Next
<1>3. SameInv => SameDueTime
  BY DEF SameInv, SameDueTime
<1> QED
  BY <1>1, <1>2, <1>3, PTL DEF Spec

-----------------------------------------------------------------------------
(* Why a collision is reported.  As long as the other hub has not been     *)
(* active since the last restore on this hub, the marker of that restore   *)
(* is newer than anything the other hub left in the storage location.      *)

MarkersStarted ==
    /\ marker["this"].there => marker["this"].started /\ marker["this"].start = marker["this"].made
    /\ marker["other"].there => marker["other"].started

FailbackHolds ==
    /\ latest.hub = "other" => RestoredHereAfter(latest.time)
    /\ marker["other"].there => RestoredHereAfter(marker["other"].start)

CauseInv ==
    /\ TypeInv
    /\ MarkersStarted
    /\ ~contested => FailbackHolds
    /\ job.target = "BackupCollision" => contested

LEMMA MarkerTimes ==
    ASSUME TypeOK
    PROVE  /\ \A h \in Hubs : marker[h].start \in Nat /\ marker[h].made \in Nat
           /\ latest.time \in Nat /\ now \in Nat
<1>1. Time \subseteq Nat
  BY DEF Time
<1>2. \A h \in Hubs : marker[h].start \in Time /\ marker[h].made \in Time
  BY DEF TypeOK, Markers
<1>3. latest.time \in Time /\ now \in Time
  BY DEF TypeOK, Backups
<1> QED
  BY <1>1, <1>2, <1>3

(* Where nothing of the other hub is newer, the marker of this hub sorts   *)
(* first, and the check takes it for the reason not to report a collision. *)
LEMMA CollidesIsContested ==
    ASSUME CauseInv, NEW born, NEW h \in Hubs, mostRecent # {} => h \in mostRecent,
           Collides(born, h)
    PROVE  contested
<1> SUFFICES ASSUME ~contested PROVE FALSE
  BY DEF CauseInv, TypeInv, TypeOK
<1>1. FailbackHolds /\ MarkersStarted /\ TypeOK
  BY DEF CauseInv, TypeInv
<1>2. ASSUME "other" \in mostRecent PROVE FALSE
  <2>1. marker["other"].there /\ marker["other"].started
    BY <1>1, <1>2 DEF mostRecent, MarkersStarted
  <2>2. marker["this"].there /\ marker["other"].start < marker["this"].made
    BY <1>1, <2>1 DEF FailbackHolds, RestoredHereAfter
  <2>3. marker["this"].started /\ marker["other"].start < marker["this"].start
    BY <1>1, <2>2 DEF MarkersStarted
  <2>4. marker["this"].start <= marker["other"].start
    BY <1>2, <2>1, <2>2, <2>3 DEF mostRecent, Hubs
  <2> QED
    BY <1>1, <2>3, <2>4, MarkerTimes DEF Hubs
<1>3. CASE latest.hub = "other"
  <2>1. marker["this"].there /\ latest.time < marker["this"].made
    BY <1>1, <1>3 DEF FailbackHolds, RestoredHereAfter
  <2>2. "this" \in mostRecent
    <3>1. marker["other"].there => marker["other"].start <= marker["this"].start
      <4>1. marker["other"].there => marker["other"].start < marker["this"].made
        BY <1>1 DEF FailbackHolds, RestoredHereAfter
      <4>2. marker["this"].start = marker["this"].made
        BY <1>1, <2>1 DEF MarkersStarted
      <4> QED
        BY <1>1, <4>1, <4>2, MarkerTimes DEF Hubs
    <3>2. marker["this"].start <= marker["this"].start
      BY <1>1, MarkerTimes DEF Hubs
    <3> QED
      BY <2>1, <3>1, <3>2 DEF mostRecent, Hubs
  <2>3. h = "this"
    BY <1>2, <2>2 DEF Hubs
  <2> QED
    BY <1>3, <2>1, <2>2, <2>3 DEF Collides, scheduleOwnsLatestStorageBackups,
                                  thisHubRestoredAfterBackup
<1>4. CASE latest.hub # "other"
  BY <1>2, <1>4 DEF Collides, scheduleOwnsLatestStorageBackups, isRestoreHubAfterSchedule
<1> QED
  BY <1>3, <1>4

(* A step that leaves the storage location alone.                          *)
LEMMA CauseKept ==
    ASSUME CauseInv, TypeInv', UNCHANGED <<latest, marker, contested>>,
           job'.target = "BackupCollision" => contested \/ job.target = "BackupCollision"
    PROVE  CauseInv'
BY DEF CauseInv, MarkersStarted, FailbackHolds, RestoredHereAfter

LEMMA NoJobTarget == Return => job'.target = ""
<1>1. NoJob.target = ""
  BY DEF NoJob
<1> QED
  BY <1>1 DEF Return

LEMMA GoOnTarget ==
    ASSUME NEW point, NEW target, NEW todo, NEW after, GoOn(point, target, todo, after)
    PROVE  job'.target = target
<1>1. NewJob(target, todo, after).target = target
  BY DEF NewJob
<1> QED
  BY <1>1 DEF GoOn

LEMMA SettleTarget ==
    ASSUME CauseInv, cached.phase # "BackupCollision", Settle
    PROVE  job'.target # "BackupCollision"
<1>1. \A p \in setSchedulePhase(seen) : p # "BackupCollision"
  BY DEF setSchedulePhase, Present, CauseInv, TypeInv, TypeOK, VeleroSchedules, VeleroPhases
<1> QED
  BY <1>1 DEF Settle, GoOn, NewJob

LEMMA CauseReconcile ==
    ASSUME CauseInv, Reconcile
    PROVE  CauseInv'
<1>t. TypeInv'
  BY NextType DEF CauseInv, Next
<1>1. CASE Begin
  <2>1. UNCHANGED <<latest, marker, contested>>
    BY <1>1 DEF Begin, storageVars
  <2>2. job'.target = "BackupCollision" => contested
    <3>1. CASE ~CheckCollision
      BY <1>1, <3>1, NoJobTarget, GoOnTarget DEF Begin
    <3>2. CASE CheckCollision /\ cached.phase # "BackupCollision"
      <4>1. CASE Settle
        BY <3>2, <4>1, SettleTarget
      <4>2. CASE Return
        BY <4>2, NoJobTarget
      <4>3. CASE \E first \in Present(seen), h \in Hubs :
                    (mostRecent # {} => h \in mostRecent) /\ Collides(seen[first].born, h)
        BY <4>3, CollidesIsContested
      <4> QED
        BY <3>2, <4>1, <4>2, <4>3 DEF CheckCollision
    <3>3. CASE cached.phase = "BackupCollision"
      BY <1>1, <3>3, NoJobTarget DEF Begin, IsInCollision
    <3> QED
      BY <3>1, <3>2, <3>3
  <2> QED
    BY <1>t, <2>1, <2>2, CauseKept
<1>2. CASE Pause \/ Create \/ Delete \/ Update \/ WriteStatus
  <2>1. UNCHANGED <<latest, marker, contested>>
    BY <1>2 DEF Pause, Create, Delete, Update, WriteStatus, storageVars
  <2>2. job'.target \in {job.target, "Failed", ""}
    <3>1. job \in Jobs
      BY DEF CauseInv, TypeInv, TypeOK
    <3>2. CASE Pause
      BY <3>1, <3>2 DEF Pause, Jobs
    <3>3. CASE Create
      BY <3>1, <3>3 DEF Create, Jobs
    <3>4. CASE Delete
      BY <3>1, <3>4, NoJobTarget DEF Delete, Retry, Jobs
    <3>5. CASE Update
      BY <3>1, <3>5, NoJobTarget DEF Update, Retry, Jobs
    <3>6. CASE WriteStatus
      BY <3>6, NoJobTarget DEF WriteStatus, Finish, Retry
    <3> QED
      BY <1>2, <3>2, <3>3, <3>4, <3>5, <3>6
  <2> QED
    BY <1>t, <2>1, <2>2, CauseKept
<1> QED
  BY <1>1, <1>2 DEF Reconcile

LEMMA TouchedTarget == CauseInv => Touched.target = job.target
BY DEF CauseInv, TypeInv, TypeOK, Jobs, Touched

LEMMA CauseEnvironment ==
    ASSUME "markerQueued" \notin Faults, CauseInv, Environment
    PROVE  CauseInv'
<1>t. TypeInv' /\ TypeOK
  BY NextType DEF CauseInv, Next, TypeInv
<1>m. marker \in [Hubs -> Markers] /\ "this" \in Hubs /\ "other" \in Hubs
  BY <1>t DEF TypeOK, Hubs
<1>1. CASE OwnBackupStarts
  <2>1. latest'.hub = "this" /\ UNCHANGED <<marker, contested, job>>
    BY <1>1 DEF OwnBackupStarts
  <2> QED
    BY <1>t, <2>1 DEF CauseInv, MarkersStarted, FailbackHolds, RestoredHereAfter
<1>2. ASSUME NEW started \in Time, ForeignBackup(started) PROVE CauseInv'
  <2>1. /\ latest'.time = started /\ contested' = (contested \/ ~RestoredHereAfter(started))
        /\ UNCHANGED <<marker, job>>
    BY <1>2 DEF ForeignBackup
  <2> QED
    BY <1>t, <2>1 DEF CauseInv, MarkersStarted, FailbackHolds, RestoredHereAfter
<1>3. ASSUME NEW started \in Time, ForeignRestore(started) PROVE CauseInv'
  <2>1. /\ contested' = (contested \/ ~RestoredHereAfter(started))
        /\ UNCHANGED <<latest, job>>
    BY <1>3 DEF ForeignRestore
  <2>2. /\ marker'["this"] = marker["this"]
        /\ marker'["other"].started /\ marker'["other"].start = started
    BY <1>3, <1>m DEF ForeignRestore
  <2> QED
    BY <1>t, <2>1, <2>2 DEF CauseInv, MarkersStarted, FailbackHolds, RestoredHereAfter
<1>4. CASE OwnRestore
  <2>1. /\ latest.time < now /\ marker["other"].start < now
        /\ contested' = (job.target = "BackupCollision")
        /\ UNCHANGED <<latest, job>>
    BY <1>4 DEF OwnRestore
  <2>2. PICK started \in BOOLEAN :
           /\ ~started => "markerQueued" \in Faults
           /\ marker' = [marker EXCEPT !["this"] =
                 [there |-> TRUE, started |-> started, start |-> now, made |-> now]]
    BY <1>4 DEF OwnRestore
  <2>3. /\ marker'["other"] = marker["other"]
        /\ marker'["this"].there /\ marker'["this"].started
        /\ marker'["this"].start = now /\ marker'["this"].made = now
    BY <1>m, <2>2
  <2> QED
    BY <1>t, <2>1, <2>3 DEF CauseInv, MarkersStarted, FailbackHolds, RestoredHereAfter
<1>5. CASE MarkerStarts
  BY <1>5 DEF MarkerStarts, CauseInv, MarkersStarted
<1>6. ASSUME NEW h \in Hubs, MarkerDeleted(h) PROVE CauseInv'
  <2>1. UNCHANGED <<latest, contested, job>> /\ marker' = [marker EXCEPT ![h] = NoMarker]
    BY <1>6 DEF MarkerDeleted
  <2>2. CASE h = "this"
    <3>1. marker["other"].there /\ marker["this"].made < marker["other"].start
      BY <1>6, <2>2 DEF MarkerDeleted, Hubs
    <3>2. ~RestoredHereAfter(marker["other"].start)
      BY <1>t, <3>1, MarkerTimes DEF RestoredHereAfter, Hubs
    <3>3. contested
      BY <3>1, <3>2 DEF CauseInv, FailbackHolds
    <3>4. ~marker'["this"].there /\ marker'["other"] = marker["other"]
      BY <1>m, <2>1, <2>2 DEF NoMarker
    <3> QED
      BY <1>t, <2>1, <3>3, <3>4 DEF CauseInv, MarkersStarted
  <2>3. CASE h = "other"
    <3>1. ~marker'["other"].there /\ marker'["this"] = marker["this"]
      BY <1>m, <2>1, <2>3 DEF NoMarker
    <3> QED
      BY <1>t, <2>1, <3>1 DEF CauseInv, MarkersStarted, FailbackHolds, RestoredHereAfter
  <2> QED
    BY <2>2, <2>3 DEF Hubs
<1>7. CASE \/ RequeueAfter \/ BackupScheduleInformer \/ ScheduleInformer
           \/ (\E s \in Specs : UserEdit(s))
           \/ UserRecreate
           \/ (\E t \in Schedules : GarbageCollected(t) \/ ScheduleDeleted(t) \/ VeleroValidates(t))
           \/ RestoreStarts \/ RestoreEnds \/ StorageLost \/ StorageBack
           \/ OperatorRestart \/ Tick
  <2>1. UNCHANGED <<latest, marker, contested>>
    BY <1>7 DEF RequeueAfter, BackupScheduleInformer, ScheduleInformer, UserEdit, UserRecreate,
         GarbageCollected, ScheduleDeleted, Removed, VeleroValidates, RestoreStarts, RestoreEnds,
         StorageLost, StorageBack, OperatorRestart, Tick, storageVars
  <2>2. job' = job \/ job' = Touched \/ Return
    BY <1>7 DEF RequeueAfter, BackupScheduleInformer, ScheduleInformer, UserEdit, UserRecreate,
         GarbageCollected, ScheduleDeleted, Removed, VeleroValidates, RestoreStarts, RestoreEnds,
         StorageLost, StorageBack, OperatorRestart, Tick
  <2>3. job'.target \in {job.target, ""}
    BY <2>2, TouchedTarget, NoJobTarget
  <2> QED
    BY <1>t, <2>1, <2>3, CauseKept
<1> QED
  BY <1>1, <1>2, <1>3, <1>4, <1>5, <1>6, <1>7 DEF Environment

(* Where Velero starts the marker of a restore as soon as it is recorded,  *)
(* a collision is reported only if the other hub wrote a backup or         *)
(* restored the managed clusters since the last restore on this hub,       *)
(* however stale the caches are, whatever fails and wherever the operator  *)
(* restarts: a failback is never taken for a collision.                    *)
THEOREM CollisionIsCaused ==
    ASSUME "markerQueued" \notin Faults
    PROVE  Spec => CollisionHasCause
<1>1. Init => CauseInv
  <2> SUFFICES ASSUME Init PROVE CauseInv
    OBVIOUS
  <2>1. ~marker["this"].there /\ ~marker["other"].there /\ latest.hub = "none"
    BY DEF Init, Hubs, NoMarker
  <2>2. job.target = ""
    BY DEF Init, NoJob
  <2> QED
    BY <2>1, <2>2, InitType DEF CauseInv, MarkersStarted, FailbackHolds
<1>2. CauseInv /\ [Next]_vars => CauseInv'
  <2> SUFFICES ASSUME CauseInv, [Next]_vars PROVE CauseInv'
    OBVIOUS
  <2>1. CASE UNCHANGED vars
    <3>1. UNCHANGED <<latest, marker, contested, job>>
      BY <2>1 DEF vars, storageVars
    <3>2. TypeInv'
      BY NextType DEF CauseInv
    <3> QED
      BY <3>1, <3>2, CauseKept
  <2> QED
    BY <2>1, CauseReconcile, CauseEnvironment DEF Next
<1>3. CauseInv /\ [Next]_vars
        => [phase' = "BackupCollision" /\ phase # "BackupCollision" => contested]_vars
  <2> SUFFICES ASSUME CauseInv, Next, phase' = "BackupCollision", phase # "BackupCollision"
               PROVE  contested
    BY DEF vars
  <2>1. CASE WriteStatus
    <3>1. job.target = "BackupCollision"
      BY <2>1 DEF WriteStatus, OwnChanged, ownVars
    <3> QED
      BY <3>1 DEF CauseInv
  <2>2. CASE Begin \/ Pause \/ Create \/ Delete \/ Update
    BY <2>2 DEF Begin, Pause, Create, Delete, Update, ownVars
  <2>3. CASE Environment
    <3>1. phase' \in {phase, ""}
      BY <2>3 DEF Environment, RequeueAfter, BackupScheduleInformer, ScheduleInformer, UserEdit,
           UserRecreate, GarbageCollected, ScheduleDeleted, Removed, VeleroValidates,
           OwnBackupStarts, ForeignBackup, ForeignRestore, OwnRestore, MarkerStarts,
           MarkerDeleted, RestoreStarts, RestoreEnds, StorageLost, StorageBack,
           OperatorRestart, Tick, OwnChanged, ownVars
    <3> QED
      BY <3>1
  <2> QED
    BY <2>1, <2>2, <2>3 DEF Next, Reconcile
<1> QED
  BY <1>1, <1>2, <1>3, PTL DEF Spec, CollisionHasCause

=============================================================================
