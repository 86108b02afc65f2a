-------------------------- MODULE RestoreSyncProofs --------------------------
(***************************************************************************)
(* When a sync restore of RestoreReconciler reports Enabled, and what a    *)
(* Restore that reports Finished has restored.                             *)
(***************************************************************************)
EXTENDS RestoreReconcilerProofs

(* The copy of the Restore that counts: the one of the pass under way, or  *)
(* the resource itself.                                                    *)
Obj == IF pc = "idle" THEN restore ELSE job.obj

Keeps == "backupGone" \notin Faults

(* What is said of names tr in the status and of Velero restores v.        *)
Tracks(tr, id) == tr[id[1]] = id[2]

(* A Velero restore that the status does not name no longer matters: it is *)
(* done, or a newer one of its type is named.  A named one exists.         *)
Covered(tr, v) ==
    /\ \A id \in Existing(v) :
          Tracks(tr, id) \/ ~Decides(v[id]) \/ (Keeps /\ id[2] < tr[id[1]])
    /\ \A t \in BackupTypes : tr[t] # NoCycle => v[<<t, tr[t], FALSE>>] # "absent"

(* None of the restores that the status names waits, runs or has failed.   *)
Rests(tr, v) == \A id \in Existing(v) : Tracks(tr, id) => ~Decides(v[id])

(* Phases that a sync restore leaves for a new one without looking at the  *)
(* restores it has: Enabled, and the error that a missing backup leads to. *)
Calm(obj) ==
    \/ obj.phase = "Enabled"
    \/ ~Keeps /\ obj.phase = "EnabledError" /\ ~obj.bslMsg

(* The creation loop comes once to a type, has not touched its name in the *)
(* status, and brings a newer backup; or what is there of the type is done.*)
LoopSound ==
    \A e \in job.todo :
        /\ e[1] \in BackupTypes
        /\ job.obj.tracked[e[1]] = restore.tracked[e[1]]
        /\ Keeps => job.obj.tracked[e[1]] <= e[2]
        /\ ~Keeps => \A id \in Existing(vr) : id[1] = e[1] => ~Decides(vr[id])
        /\ \A f \in job.todo : f[1] = e[1] => f = e

Synced ==
    /\ Covered(Obj.tracked, vr)
    /\ (Calm(Obj) /\ ~(pc = "create" /\ job.created)) => Rests(Obj.tracked, vr)
    /\ restore.phase = "Enabled" => Rests(restore.tracked, vr)
    /\ pc \in {"mark", "plan"} =>
          /\ job.obj.tracked = restore.tracked
          /\ job.empty => Existing(vr) = {}
          /\ ~job.created /\ TRUE \notin job.pvcStep
          /\ job.obj.phase = "EnabledError" => ~job.obj.bslMsg
    /\ pc = "create" => LoopSound

(* The rest: every copy is current, no Velero restore fails where backups  *)
(* may disappear, and only a sync restore of the passive data is Enabled.  *)
CalmBase ==
    /\ vrSeen = vr /\ fresh = TRUE
    /\ pc # "idle" => ~job.stale
    /\ Keeps => gone = {}
    /\ ~Keeps => \A id \in Ids : vr[id] # "Failed"
    /\ restore.spec.sync => restore.spec.mc = skip
    /\ ~restore.spec.sync =>
          restore.phase # "Enabled" /\ (pc # "idle" => job.obj.phase # "Enabled")

SyncInv == CalmBase /\ (restore.spec.sync => Synced)

(* What the theorem assumes of the constants.                              *)
Quiet ==
    /\ Lagging = {}
    /\ Faults \cap {"crash", "updateError", "restoreGone", "edit"} = {}
    /\ ~Keeps => "Failed" \notin Outcomes

(* Only a valid sync spec comes to Enabled.                                *)
LEMMA OnlySyncEnabled ==
    ASSUME NEW obj \in Restores, NEW v, NEW r \in setRestorePhase(obj, v),
           ~obj.spec.sync, obj.phase # "Enabled"
    PROVE  r.obj.phase # "Enabled"
<1>1. ~isValidSyncOptions(obj.spec)
  BY DEF isValidSyncOptions
<1>2. ASSUME NEW p \in Phases \ {"Enabled"}, NEW b, r = PhaseResult(With(obj, p), b)
      PROVE  r.obj.phase # "Enabled"
  BY <1>2, WithType DEF PhaseResult
<1>3. {"Started", "Running", "Error", "EnabledError", "Finished", "FinishedWithErrors"}
        \subseteq Phases \ {"Enabled"}
  BY DEF Phases
<1>4. ASSUME NEW phase, r = FromVeleroPhase(obj, phase)
      PROVE  r.obj.phase # "Enabled"
  <2>1. \E p \in Phases \ {"Enabled"}, b \in BOOLEAN :
           FromVeleroPhase(obj, phase) = PhaseResult(With(obj, p), b)
    BY <1>3 DEF FromVeleroPhase
  <2> QED
    BY <1>2, <1>4, <2>1
<1>5. \/ r = PhaseResult(obj, FALSE)
      \/ r = PhaseResult(With(obj, "Started"), FALSE)
      \/ r = PhaseResult(With(obj, "Finished"), FALSE)
      \/ r = PhaseResult(With(obj, "FinishedWithErrors"), FALSE)
      \/ \E id : r = FromVeleroPhase(obj, v[id])
  BY <1>1 DEF setRestorePhase
<1>6. CASE r = PhaseResult(obj, FALSE)
  BY <1>6 DEF PhaseResult
<1> QED
  BY <1>2, <1>3, <1>4, <1>5, <1>6

(* What a pass makes of its copy: the phase, or a name in the status.      *)
LEMMA BaseReconcile ==
    ASSUME Quiet, RollInv, CalmBase, Reconcile
    PROVE  CalmBase'
<1>t. TypeOK /\ TypeOK'
  BY TypeReconcile DEF RollInv
<1>j. /\ job \in Jobs /\ job.obj \in Restores /\ restore \in Restores /\ cached = restore
      /\ vr \in [Ids -> VeleroPhases]
  BY <1>t DEF TypeOK, Jobs, RollInv, CalmBase
<1>s. pc # "idle" => job.obj.spec = restore.spec
  BY DEF RollInv, Current, CalmBase
<1>g. gone' = gone
  BY DEF Reconcile, Begin, MarkStarted, Plan, Create, Cleanup, WriteStatus, Refused,
       UpdateRefused, apiVars
<1>p. {"", "Started", "Running", "Error", "EnabledError", "Enabled", "Finished",
       "FinishedWithErrors"} \subseteq Phases /\ {TRUE, FALSE} \subseteq BOOLEAN
  BY DEF Phases
<1>u. ASSUME NEW obj \in Restores, NEW p \in {"Error", "Finished", "FinishedWithErrors"}, NEW about \in BOOLEAN
      PROVE  updateRestoreStatus(obj, p, about).phase # "Enabled"
  BY DEF updateRestoreStatus, Restores, ErrorPhase
<1>1. CASE Begin
  <2>1. UNCHANGED <<vr, vrSeen, restore, cached, fresh>>
    BY <1>1 DEF Begin, apiVars
  <2>2. /\ NewJob(cached, ~fresh) \in Jobs /\ NewJob(cached, ~fresh).obj = restore
        /\ ~NewJob(cached, ~fresh).stale
    BY <1>j, NewJobType DEF NewJob, CalmBase
  <2>3. pc' # "idle" => ~job'.stale
    BY <1>1, <2>2 DEF Begin, Return, Jobs
  <2>4. ASSUME pc' # "idle", ~restore.spec.sync PROVE job'.obj.phase # "Enabled"
    <3>1. \/ \E p \in {"Error", "FinishedWithErrors"}, about \in BOOLEAN :
               job'.obj = updateRestoreStatus(restore, p, about)
          \/ \E r \in setRestorePhase(restore, vrSeen) : job'.obj = r.obj
          \/ job'.obj = restore
      BY <1>1, <1>j, <2>2, <2>4 DEF Begin, Return, Jobs
    <3>2. restore.phase # "Enabled"
      BY <2>4 DEF CalmBase
    <3> QED
      BY <1>j, <1>u, <2>4, <3>1, <3>2, OnlySyncEnabled
  <2> QED
    BY <1>g, <2>1, <2>3, <2>4 DEF CalmBase
<1>2. CASE MarkStarted
  <2>1. /\ pc = "mark" /\ pc' = "plan" /\ UNCHANGED <<vr, vrSeen>>
        /\ restore' = With(job.obj, "Started") /\ job' = [job EXCEPT !.obj = restore']
    BY <1>2 DEF MarkStarted, RestoreChanged
  <2>2. fresh' = TRUE
    BY <1>2 DEF MarkStarted, RestoreChanged, Quiet, CalmBase
  <2>3. job'.stale = job.stale /\ job'.obj = restore'
    BY <1>j, <2>1 DEF Jobs
  <2>4. restore'.spec = restore.spec /\ restore'.phase = "Started"
    BY <1>j, <1>s, <1>p, <2>1, WithType
  <2> QED
    BY <1>g, <2>1, <2>2, <2>3, <2>4 DEF CalmBase
<1>3. CASE Plan
  <2>1. pc = "plan" /\ pc' # "idle" /\ UNCHANGED <<vr, vrSeen, restore, cached, fresh>>
    BY <1>3 DEF Plan, apiVars
  <2>2. /\ job'.stale = job.stale
        /\ \/ job'.obj = job.obj
           \/ job'.obj = updateRestoreStatus(job.obj, "Error", FALSE)
           \/ job'.obj = updateRestoreStatus(job.obj, "Finished", FALSE)
    BY <1>3, <1>j DEF Plan, Jobs
  <2>3. job.obj.phase # "Enabled" => job'.obj.phase # "Enabled"
    BY <1>j, <1>u, <1>p, <2>2
  <2> QED
    BY <1>g, <2>1, <2>2, <2>3 DEF CalmBase
<1>4. CASE Create
  <2>1. /\ pc = "create" /\ UNCHANGED <<restore, fresh>> /\ vrSeen' = vr'
        /\ vr' = vr \/ \E id \in Ids : vr' = [vr EXCEPT ![id] = "New"]
    <3>1. \A e \in job.todo : RestoreId(job.obj.spec, e) \in Ids
      BY <1>j, RestoreIdType DEF Jobs
    <3> QED
      BY <1>4, <3>1 DEF Create, RestoreUnchanged, VRUnchanged, VRChanged, CalmBase, Quiet
  <2>2. \A id \in Ids : vr'[id] = "Failed" => vr[id] = "Failed"
    BY <1>j, <2>1
  <2>3. PICK e \in job.todo :
          \E j \in {[job EXCEPT !.failed = TRUE], [job EXCEPT !.obj = Track(@, e)],
                    job, [job EXCEPT !.obj = Track(@, e), !.created = TRUE]} : AfterCreate(e, j)
    BY <1>4 DEF Create
  <2>4. e \in Keys \X Cycles
    BY <1>j DEF Jobs
  <2>5. Track(job.obj, e) \in Restores /\ Track(job.obj, e).phase = job.obj.phase
    BY <1>j, <2>4, TrackType
  <2>6. PICK j \in Jobs :
          AfterCreate(e, j) /\ j.stale = job.stale /\ j.obj.phase = job.obj.phase
    <3>1. LET j == [job EXCEPT !.failed = TRUE]
          IN  j \in Jobs /\ j.stale = job.stale /\ j.obj.phase = job.obj.phase
      BY <1>j DEF Jobs
    <3>2. LET j == [job EXCEPT !.obj = Track(@, e)]
          IN  j \in Jobs /\ j.stale = job.stale /\ j.obj.phase = job.obj.phase
      BY <1>j, <2>5 DEF Jobs
    <3>3. LET j == [job EXCEPT !.obj = Track(@, e), !.created = TRUE]
          IN  j \in Jobs /\ j.stale = job.stale /\ j.obj.phase = job.obj.phase
      BY <1>j, <2>5 DEF Jobs
    <3> QED
      BY <1>j, <2>3, <3>1, <3>2, <3>3
  <2>7. With(j.obj, "Started").phase = "Started"
    BY <2>6, <1>p, WithType DEF Jobs
  <2>8. job'.stale = j.stale /\ (job'.obj = j.obj \/ job'.obj = With(j.obj, "Started"))
    BY <2>6 DEF AfterCreate, Jobs
  <2> QED
    BY <1>g, <2>1, <2>2, <2>6, <2>7, <2>8 DEF CalmBase
<1>5. CASE Cleanup
  <2>1. PICK obj \in Restores, stamped \in BOOLEAN :
          Conclude(obj, stamped) /\ (obj = job.obj \/ \E r \in setRestorePhase(job.obj, vrSeen) : obj = r.obj)
    BY <1>5, <1>j, SetRestorePhaseType DEF Cleanup
  <2>2. /\ pc = "cleanup" /\ pc' = "write" /\ vrSeen' = vr' /\ UNCHANGED <<restore, fresh>>
        /\ vr' = [id \in Ids |-> IF id \in Orphans(obj) THEN "absent" ELSE vr[id]]
    BY <1>5, <2>1 DEF Cleanup, Conclude, VRChanged, RestoreUnchanged, Quiet
  <2>3. \A id \in Ids : vr'[id] = "Failed" => vr[id] = "Failed"
    BY <2>2
  <2>4. job'.stale = job.stale /\ job'.obj.phase = obj.phase
    BY <1>j, <2>1 DEF Conclude, Jobs, Restores
  <2>5. ~job.obj.spec.sync /\ job.obj.phase # "Enabled" => obj.phase # "Enabled"
    BY <1>j, <2>1, OnlySyncEnabled
  <2> QED
    BY <1>g, <1>s, <2>2, <2>3, <2>4, <2>5 DEF CalmBase
<1>6. CASE WriteStatus
  <2>1. /\ pc = "write" /\ pc' = "idle" /\ UNCHANGED <<vr, vrSeen>>
        /\ restore' = restore \/ restore' = job.obj
    BY <1>6 DEF WriteStatus, Return, RestoreUnchanged, RestoreChanged
  <2>2. fresh' = TRUE
    BY <1>6 DEF WriteStatus, RestoreUnchanged, RestoreChanged, CalmBase, Quiet
  <2> QED
    BY <1>g, <1>s, <2>1, <2>2 DEF CalmBase
<1>7. CASE Refused
  BY <1>7 DEF Refused, UpdateRefused, Fault, CanFail, CalmBase, Quiet
<1> QED
  BY <1>1, <1>2, <1>3, <1>4, <1>5, <1>6, <1>7 DEF Reconcile

(* Where copies are current, Velero only moves restores on.                *)
LEMMA BaseEnvironment ==
    ASSUME Quiet, RollInv, CalmBase, Environment
    PROVE  /\ CalmBase'
           /\ UNCHANGED <<restore, pc, job>>
           /\ \A id \in Ids : /\ vr'[id] = "absent" <=> vr[id] = "absent"
                              /\ Decides(vr'[id]) => Decides(vr[id])
<1>t. vr \in [Ids -> VeleroPhases]
  BY DEF RollInv, TypeOK
<1>1. CASE RequeueAfter \/ StorageLost \/ StorageBack \/ PVCsCreated \/ OtherStarts \/ OtherEnds
  <2>1. UNCHANGED <<restore, pc, job, vr, vrSeen, fresh, gone>>
    BY <1>1 DEF RequeueAfter, StorageLost, StorageBack, PVCsCreated, OtherStarts, OtherEnds, apiVars
  <2> QED
    BY <2>1 DEF CalmBase
<1>2. CASE RestoreInformer \/ VeleroRestoreInformer
  BY <1>2 DEF RestoreInformer, VeleroRestoreInformer, CalmBase
<1>3. CASE (\E spec \in Specs : UserEdit(spec)) \/ OperatorRestart \/ (\E id \in Ids : VeleroRestoreDeleted(id))
  BY <1>3 DEF UserEdit, OperatorRestart, VeleroRestoreDeleted, Fault, CanFail, Quiet
<1>4. ASSUME NEW b \in BackupTypes \X Cycles, BackupSynced(b) \/ BackupDeleted(b)
      PROVE  /\ UNCHANGED <<restore, pc, job, vr, vrSeen, fresh>> /\ (Keeps => gone' = gone)
  BY <1>4 DEF BackupSynced, BackupDeleted, Fault, CanFail, Keeps
<1>5. ASSUME NEW b \in BackupTypes \X Cycles, BackupSynced(b) \/ BackupDeleted(b)
      PROVE  CalmBase'
  BY <1>4, <1>5 DEF CalmBase
<1>6. ASSUME NEW i \in Ids, VeleroStep(i)
      PROVE  /\ CalmBase'
             /\ UNCHANGED <<restore, pc, job>>
             /\ \A id \in Ids : /\ vr'[id] = "absent" <=> vr[id] = "absent"
                                /\ Decides(vr'[id]) => Decides(vr[id])
  <2>1. /\ UNCHANGED <<restore, pc, job, fresh, gone>>
        /\ \E p \in VeleroNext(vr[i]) : vr' = [vr EXCEPT ![i] = p] /\ vrSeen' = vr'
    BY <1>6 DEF VeleroStep, RestoreUnchanged, VRChanged, Quiet
  <2>2. PICK p \in VeleroNext(vr[i]) : vr' = [vr EXCEPT ![i] = p] /\ vrSeen' = vr'
    BY <2>1
  <2>3. /\ p # "absent" /\ vr[i] # "absent" /\ (Decides(p) => Decides(vr[i]))
        /\ p = "Failed" => "Failed" \in Outcomes
    BY ConstantsAssumption DEF VeleroNext, Decides
  <2>4. \A id \in Ids : vr'[id] = vr[id] \/ (id = i /\ vr'[id] = p)
    BY <1>t, <2>2
  <2>5. ~Keeps => \A id \in Ids : vr'[id] # "Failed"
    BY <2>3, <2>4 DEF CalmBase, Quiet
  <2> QED
    BY <2>1, <2>3, <2>4, <2>5 DEF CalmBase
<1> QED
  BY <1>1, <1>2, <1>3, <1>4, <1>5, <1>6 DEF Environment

(* As long as no restore is created and the named ones stay, the names keep*)
(* what they had.                                                          *)
LEMMA CoveredKept ==
    ASSUME NEW tr, NEW v, NEW w, Covered(tr, v),
           \A id \in Ids : w[id] # "absent" => v[id] # "absent" /\ (Decides(w[id]) => Decides(v[id])),
           \A t \in BackupTypes : tr[t] # NoCycle => w[<<t, tr[t], FALSE>>] # "absent"
    PROVE  Covered(tr, w)
BY DEF Covered, Existing

LEMMA RestsKept ==
    ASSUME NEW tr, NEW v, NEW w, Rests(tr, v),
           \A id \in Ids : w[id] # "absent" => v[id] # "absent" /\ (Decides(w[id]) => Decides(v[id]))
    PROVE  Rests(tr, w)
BY DEF Rests, Existing

LEMMA SyncEnvironment ==
    ASSUME Quiet, RollInv, SyncInv, Environment
    PROVE  SyncInv'
<1>1. /\ CalmBase' /\ UNCHANGED <<restore, pc, job>>
      /\ \A id \in Ids : /\ vr'[id] = "absent" <=> vr[id] = "absent"
                         /\ Decides(vr'[id]) => Decides(vr[id])
  BY BaseEnvironment DEF SyncInv
<1>2. ASSUME restore.spec.sync PROVE Synced'
  <2>1. Synced /\ restore \in Restores /\ job.obj \in Restores
    BY <1>2 DEF SyncInv, RollInv, TypeOK, Jobs
  <2>2. Obj' = Obj /\ Obj \in Restores
    BY <1>1, <2>1 DEF Obj
  <2>3. \A t \in BackupTypes : Obj.tracked[t] # NoCycle => vr'[<<t, Obj.tracked[t], FALSE>>] # "absent"
    <3>1. \A t \in BackupTypes : Obj.tracked[t] # NoCycle => <<t, Obj.tracked[t], FALSE>> \in Ids
      BY <2>2 DEF Ids, Restores
    <3> QED
      BY <1>1, <2>1, <3>1 DEF Synced, Covered
  <2>4. Covered(Obj.tracked, vr')
    <3>1. Covered(Obj.tracked, vr)
      BY <2>1 DEF Synced
    <3>2. \A id \in Ids : vr'[id] # "absent" =>
                            vr[id] # "absent" /\ (Decides(vr'[id]) => Decides(vr[id]))
      BY <1>1
    <3> QED
      BY <2>3, <3>1, <3>2, CoveredKept
  <2>5. /\ Rests(Obj.tracked, vr) => Rests(Obj.tracked, vr')
        /\ Rests(restore.tracked, vr) => Rests(restore.tracked, vr')
    BY <1>1, RestsKept
  <2>6. Existing(vr') = Existing(vr)
    BY <1>1 DEF Existing
  <2>7. pc = "create" => LoopSound'
    BY <1>1, <2>1, <2>6 DEF Synced, LoopSound, Existing
  <2>8. Calm(Obj') = Calm(Obj)
    BY <2>2
  <2> HIDE DEF Obj
  <2> QED
    BY <1>1, <2>1, <2>2, <2>4, <2>5, <2>6, <2>7, <2>8 DEF Synced
<1> QED
  BY <1>1, <1>2 DEF SyncInv

(* What holds of a sync restore and of the pass that works on it.          *)
LEMMA SyncFacts ==
    ASSUME RollInv, SyncInv, restore.spec.sync
    PROVE  /\ Synced
           /\ restore \in Restores /\ job \in Jobs /\ job.obj \in Restores /\ Obj \in Restores
           /\ cached = restore /\ vrSeen = vr /\ vr \in [Ids -> VeleroPhases]
           /\ isValidSyncOptions(restore.spec) /\ restore.spec.mc = skip
           /\ pc # "idle" => job.obj.spec = restore.spec
           /\ ~Keeps => \A id \in Ids : vr[id] # "Failed"
           /\ Keeps => gone = {}
           /\ fresh = TRUE
<1>1. TypeOK /\ CalmBase /\ Synced
  BY DEF RollInv, SyncInv
<1>2. restore \in Restores /\ job \in Jobs /\ job.obj \in Restores /\ vr \in [Ids -> VeleroPhases]
  BY <1>1 DEF TypeOK, Jobs
<1>3. pc # "idle" => job.obj.spec = restore.spec
  BY <1>1 DEF RollInv, Current, CalmBase
<1>4. cached = restore /\ vrSeen = vr /\ fresh = TRUE
  BY <1>1 DEF RollInv, CalmBase
<1> QED
  BY <1>1, <1>2, <1>3, <1>4 DEF CalmBase, RollInv, Obj

(* setRestorePhase is calm only about restores that rest.                  *)
LEMMA PhaseIsCalm ==
    ASSUME NEW obj \in Restores, NEW v, NEW r \in setRestorePhase(obj, v),
           isValidSyncOptions(obj.spec), obj.spec.mc = skip,
           Calm(obj) => Rests(obj.tracked, v),
           ~Keeps => \A id \in Ids : v[id] # "Failed",
           Calm(r.obj)
    PROVE  Rests(obj.tracked, v)
<1> DEFINE decisive == {id \in getLatestVeleroRestores(obj, v) : Decides(v[id])}
<1>p. {"Started", "Running", "EnabledError", "Enabled"} \subseteq Phases
  BY DEF Phases
<1>s. obj.spec.sync
  BY DEF isValidSyncOptions
<1>1. CASE obj.phase = "Enabled"
  BY <1>1 DEF Calm
<1>2. CASE Existing(v) = {}
  BY <1>2 DEF Rests
<1>3. CASE obj.phase # "Enabled" /\ Existing(v) # {} /\ decisive # {}
  <2>1. PICK id \in decisive : r = FromVeleroPhase(obj, v[id])
    BY <1>3 DEF setRestorePhase
  <2>2. id \in Ids /\ Decides(v[id])
    BY <2>1 DEF getLatestVeleroRestores, Existing
  <2>3. \/ r.obj = With(obj, "Started")
        \/ r.obj = With(obj, "Running")
        \/ r.obj = With(obj, "EnabledError") /\ v[id] = "Failed"
    BY <2>1, <2>2 DEF FromVeleroPhase, Decides, PhaseResult
  <2>4. \/ r.obj.phase \in {"Started", "Running"}
        \/ r.obj.phase = "EnabledError" /\ v[id] = "Failed"
    <3>1. ASSUME NEW p \in {"Started", "Running", "EnabledError"} PROVE With(obj, p).phase = p
      BY <1>p, WithType
    <3> QED
      BY <2>3, <3>1
  <2> QED
    BY <2>2, <2>4 DEF Calm
<1>4. CASE obj.phase # "Enabled" /\ decisive = {}
  BY <1>4 DEF Rests, Tracks, getLatestVeleroRestores
<1> QED
  BY <1>1, <1>2, <1>3, <1>4

(* A step after which the pass names what it named before.                 *)
LEMMA SyncedSame ==
    ASSUME Synced, UNCHANGED <<vr, restore>>, pc' \in {"idle", "cleanup", "write"},
           Obj'.tracked = Obj.tracked, Calm(Obj') => Rests(Obj.tracked, vr)
    PROVE  Synced'
<1>1. Covered(Obj'.tracked, vr')
  BY DEF Synced
<1>2. Calm(Obj') => Rests(Obj'.tracked, vr')
  OBVIOUS
<1>3. restore'.phase = "Enabled" => Rests(restore'.tracked, vr')
  BY DEF Synced
<1> QED
  BY <1>1, <1>2, <1>3 DEF Synced

LEMMA SyncBegin ==
    ASSUME RollInv, SyncInv, restore.spec.sync, Begin
    PROVE  Synced'
<1>f. /\ Synced /\ restore \in Restores /\ cached = restore /\ vrSeen = vr /\ fresh = TRUE
      /\ isValidSyncOptions(restore.spec) /\ restore.spec.mc = skip
      /\ ~Keeps => \A id \in Ids : vr[id] # "Failed"
  BY SyncFacts
<1>0. pc = "idle" /\ UNCHANGED <<vr, vrSeen, restore>>
  BY DEF Begin, apiVars
<1>1. Obj = restore
  BY <1>0 DEF Obj
<1>2. Calm(restore) => Rests(restore.tracked, vr)
  BY <1>0, <1>1, <1>f DEF Synced
<1> DEFINE j == NewJob(cached, ~fresh)
<1>3. /\ j \in Jobs /\ j.obj = restore /\ ~j.created
      /\ j.empty => Existing(vr) = {}
  BY <1>f, NewJobType DEF NewJob
<1> HIDE DEF j
<1>4. \/ pc' = "idle"
      \/ /\ pc' = "write"
         /\ \/ job'.obj = updateRestoreStatus(restore, "FinishedWithErrors", FALSE)
            \/ job'.obj = updateRestoreStatus(restore, "Error", TRUE)
            \/ \E r \in setRestorePhase(restore, vr) : job'.obj = r.obj
      \/ /\ pc' \in {"mark", "plan"} /\ job' = j
         /\ restore.phase = "EnabledError" => ~restore.bslMsg
  BY <1>f, <1>3 DEF Begin, Return, Jobs, j
<1>5. CASE pc' = "idle"
  <2>1. Obj' = restore
    BY <1>0, <1>5 DEF Obj
  <2> QED
    BY <1>f, <1>0, <1>1, <1>2, <1>5, <2>1, SyncedSame
<1>6. CASE /\ pc' = "write"
           /\ \/ job'.obj = updateRestoreStatus(restore, "FinishedWithErrors", FALSE)
              \/ job'.obj = updateRestoreStatus(restore, "Error", TRUE)
  <2>1. Obj' = job'.obj
    BY <1>6 DEF Obj
  <2>2. "FinishedWithErrors" \in Phases /\ "Error" \in Phases /\ TRUE \in BOOLEAN /\ FALSE \in BOOLEAN
    BY DEF Phases
  <2>3. job'.obj.tracked = restore.tracked
    <3>1. /\ updateRestoreStatus(restore, "FinishedWithErrors", FALSE).tracked = restore.tracked
          /\ updateRestoreStatus(restore, "Error", TRUE).tracked = restore.tracked
      BY <1>f, <2>2, UpdateStatusType
    <3> QED
      BY <1>6, <3>1
  <2>4. ~Calm(updateRestoreStatus(restore, "FinishedWithErrors", FALSE))
    BY <1>f DEF updateRestoreStatus, Calm, Restores
  <2>5. ~Calm(updateRestoreStatus(restore, "Error", TRUE))
    BY <1>f DEF updateRestoreStatus, Calm, Restores, ErrorPhase
  <2> QED
    BY <1>f, <1>0, <1>1, <1>6, <2>1, <2>3, <2>4, <2>5, SyncedSame
<1>7. CASE pc' = "write" /\ \E r \in setRestorePhase(restore, vr) : job'.obj = r.obj
  <2>1. PICK r \in setRestorePhase(restore, vr) : job'.obj = r.obj
    BY <1>7
  <2>2. Obj' = r.obj
    BY <1>7, <2>1 DEF Obj
  <2>3. r.obj.tracked = restore.tracked
    BY <1>f, SetRestorePhaseType
  <2>4. Calm(r.obj) => Rests(restore.tracked, vr)
    BY <1>f, <1>2, PhaseIsCalm
  <2> QED
    BY <1>f, <1>0, <1>1, <1>7, <2>2, <2>3, <2>4, SyncedSame
<1>8. CASE /\ pc' \in {"mark", "plan"} /\ job' = j
           /\ restore.phase = "EnabledError" => ~restore.bslMsg
  <2>1. Obj' = restore /\ job'.obj = restore
    BY <1>3, <1>8 DEF Obj
  <2>2. Covered(Obj'.tracked, vr')
    BY <1>f, <1>0, <1>1, <2>1 DEF Synced
  <2>3. Calm(Obj') => Rests(Obj'.tracked, vr')
    BY <1>0, <1>2, <2>1
  <2>4. restore'.phase = "Enabled" => Rests(restore'.tracked, vr')
    BY <1>f, <1>0 DEF Synced
  <2>5. TRUE \notin j.pvcStep
    BY <1>f DEF j, NewJob, isPVCInitializationStep
  <2> QED
    BY <1>0, <1>3, <1>8, <2>1, <2>2, <2>3, <2>4, <2>5 DEF Synced
<1> QED
  BY <1>4, <1>5, <1>6, <1>7, <1>8

LEMMA SyncMark ==
    ASSUME Quiet, RollInv, SyncInv, restore.spec.sync, MarkStarted
    PROVE  Synced'
<1>f. Synced /\ job \in Jobs /\ job.obj \in Restores
  BY SyncFacts
<1>1. /\ pc = "mark" /\ pc' = "plan" /\ UNCHANGED vr
      /\ restore' = With(job.obj, "Started") /\ job' = [job EXCEPT !.obj = restore']
  BY DEF MarkStarted, RestoreChanged
<1>2. /\ job'.obj = restore' /\ job'.empty = job.empty /\ job'.created = job.created
      /\ job'.pvcStep = job.pvcStep
  BY <1>f, <1>1 DEF Jobs
<1>3. restore'.phase = "Started" /\ restore'.tracked = job.obj.tracked
  <2>1. "Started" \in Phases
    BY DEF Phases
  <2> QED
    BY <1>f, <1>1, <2>1, WithType
<1>4. Obj' = restore' /\ Obj = job.obj
  BY <1>1, <1>2 DEF Obj
<1>5. Covered(Obj'.tracked, vr')
  BY <1>f, <1>1, <1>3, <1>4 DEF Synced
<1>6. ~Calm(Obj')
  BY <1>3, <1>4 DEF Calm
<1> QED
  BY <1>f, <1>1, <1>2, <1>3, <1>5, <1>6 DEF Synced

(* What a sync restore plans: one backup of a type, the most recent one.   *)
LEMMA SyncPlanEntries ==
    ASSUME NEW spec, isValidSyncOptions(spec), spec.mc = skip, NEW only,
           NEW e \in retrieveRestoreDetails(spec, only)
    PROVE  /\ e \in Keys \X Cycles /\ e[1] \in BackupTypes /\ e[2] \in Nat
           /\ <<e[1], e[2]>> \in backups
           /\ \A c \in Cycles : <<e[1], c>> \in backups => c <= e[2]
           /\ \A f \in retrieveRestoreDetails(spec, only) : f[1] = e[1] => f = e
<1>1. e \in Keys \X Cycles /\ e[1] \in RestoreKeys(spec, only)
  BY RetrieveType DEF retrieveRestoreDetails
<1>2. e[1] \in BackupTypes
  BY <1>1 DEF RestoreKeys, Keys
<1>3. BackupTypeOf(e[1]) = e[1]
  BY <1>2 DEF BackupTypeOf, BackupTypes
<1>4. <<e[1], e[2]>> \in backups /\ \A c \in Cycles : <<e[1], c>> \in backups => c <= e[2]
  BY <1>3, PlanFromBackups
<1>c. Cycles \subseteq Nat
  BY ConstantsAssumption
<1>5. ASSUME NEW f \in retrieveRestoreDetails(spec, only), f[1] = e[1]
      PROVE  f = e
  <2>1. f \in Keys \X Cycles
    BY RetrieveType
  <2>2. <<e[1], f[2]>> \in backups /\ \A c \in Cycles : <<e[1], c>> \in backups => c <= f[2]
    BY <1>3, <1>5, PlanFromBackups
  <2>3. f[2] <= e[2] /\ e[2] <= f[2]
    BY <1>1, <1>4, <2>1, <2>2
  <2>4. e[2] \in Nat /\ f[2] \in Nat
    BY <1>1, <1>c, <2>1
  <2>5. f[2] = e[2]
    BY <2>3, <2>4
  <2> QED
    BY <1>1, <1>5, <2>1, <2>5
<1>6. e[2] \in Nat
  BY <1>1, <1>c
<1> QED
  BY <1>1, <1>2, <1>4, <1>5, <1>6

LEMMA SyncPlan ==
    ASSUME RollInv, SyncInv, restore.spec.sync, Plan
    PROVE  Synced'
<1>0. pc = "plan" /\ UNCHANGED <<vr, vrSeen, restore>>
  BY DEF Plan, apiVars
<1>f. /\ Synced /\ job \in Jobs /\ job.obj \in Restores
      /\ isValidSyncOptions(job.obj.spec) /\ job.obj.spec.mc = skip
      /\ Keeps => gone = {}
  BY <1>0, SyncFacts
<1>1. Obj = job.obj
  BY <1>0 DEF Obj
<1>2. /\ Covered(job.obj.tracked, vr)
      /\ Calm(job.obj) => Rests(job.obj.tracked, vr)
      /\ job.obj.tracked = restore.tracked
      /\ job.empty => Existing(vr) = {}
      /\ ~job.created
      /\ job.obj.phase = "EnabledError" => ~job.obj.bslMsg
  BY <1>0, <1>1, <1>f DEF Synced
<1>3. \/ pc' = "cleanup" /\ job'.obj = job.obj
      \/ pc' = "cleanup" /\ job'.obj = updateRestoreStatus(job.obj, "Finished", FALSE)
      \/ /\ job.empty \/ IsPhaseEnabled(job.obj)
         /\ \/ pc' = "write" /\ job'.obj = updateRestoreStatus(job.obj, "Error", FALSE)
            \/ /\ pc' = "create" /\ job'.obj = job.obj /\ job'.created = job.created
               /\ \E only \in BOOLEAN : job'.todo = retrieveRestoreDetails(job.obj.spec, only)
  <2>1. TRUE \notin job.pvcStep
    BY <1>0, <1>f DEF Synced
  <2>2. \A pvcStep \in job.pvcStep : ~pvcStep
    BY <1>f, <2>1 DEF Jobs
  <2> QED
    BY <1>f, <2>2 DEF Plan, Jobs
<1>4. CASE pc' = "cleanup" /\ job'.obj = job.obj
  <2>1. Obj' = job.obj
    BY <1>4 DEF Obj
  <2> QED
    BY <1>f, <1>0, <1>1, <1>2, <1>4, <2>1, SyncedSame
<1>5. CASE pc' = "cleanup" /\ job'.obj = updateRestoreStatus(job.obj, "Finished", FALSE)
  <2>1. Obj' = updateRestoreStatus(job.obj, "Finished", FALSE)
    BY <1>5 DEF Obj
  <2>2. "Finished" \in Phases /\ FALSE \in BOOLEAN
    BY DEF Phases
  <2>3. Obj'.tracked = job.obj.tracked
    BY <1>f, <2>1, <2>2, UpdateStatusType
  <2>4. ~Calm(Obj')
    BY <1>f, <2>1 DEF Calm, updateRestoreStatus, Restores
  <2> QED
    BY <1>f, <1>0, <1>1, <1>5, <2>3, <2>4, SyncedSame
<1>6. ASSUME job.empty \/ IsPhaseEnabled(job.obj), ~Keeps
      PROVE  Rests(job.obj.tracked, vr)
  <2>1. CASE job.empty
    BY <1>2, <2>1 DEF Rests
  <2>2. CASE IsPhaseEnabled(job.obj)
    BY <1>2, <1>6, <2>2 DEF IsPhaseEnabled, Calm
  <2> QED
    BY <1>6, <2>1, <2>2
<1>7. CASE /\ job.empty \/ IsPhaseEnabled(job.obj)
           /\ pc' = "write" /\ job'.obj = updateRestoreStatus(job.obj, "Error", FALSE)
  <2>1. Obj' = updateRestoreStatus(job.obj, "Error", FALSE)
    BY <1>7 DEF Obj
  <2>2. "Error" \in Phases /\ FALSE \in BOOLEAN
    BY DEF Phases
  <2>3. Obj'.tracked = job.obj.tracked
    BY <1>f, <2>1, <2>2, UpdateStatusType
  <2>4. Calm(Obj') => ~Keeps
    BY <1>f, <2>1 DEF Calm, updateRestoreStatus, Restores, ErrorPhase
  <2> QED
    BY <1>f, <1>0, <1>1, <1>6, <1>7, <2>3, <2>4, SyncedSame
<1>8. ASSUME job.empty \/ IsPhaseEnabled(job.obj),
             pc' = "create", job'.obj = job.obj, job'.created = job.created,
             NEW only \in BOOLEAN, job'.todo = retrieveRestoreDetails(job.obj.spec, only)
      PROVE  Synced'
  <2>1. Obj' = job.obj
    BY <1>8 DEF Obj
  <2>2. ASSUME NEW e \in job'.todo
        PROVE  /\ e[1] \in BackupTypes
               /\ job.obj.tracked[e[1]] = restore.tracked[e[1]]
               /\ Keeps => job.obj.tracked[e[1]] <= e[2]
               /\ ~Keeps => \A id \in Existing(vr) : id[1] = e[1] => ~Decides(vr[id])
               /\ \A f \in job'.todo : f[1] = e[1] => f = e
    <3>1. /\ e[1] \in BackupTypes /\ e[2] \in Nat
          /\ \A c \in Cycles : <<e[1], c>> \in backups => c <= e[2]
          /\ \A f \in job'.todo : f[1] = e[1] => f = e
      <4> DEFINE spec == job.obj.spec
      <4>1. isValidSyncOptions(spec) /\ spec.mc = skip /\ e \in retrieveRestoreDetails(spec, only)
        BY <1>f, <1>8
      <4> HIDE DEF spec
      <4>2. /\ e[1] \in BackupTypes /\ e[2] \in Nat
            /\ \A c \in Cycles : <<e[1], c>> \in backups => c <= e[2]
            /\ \A f \in retrieveRestoreDetails(spec, only) : f[1] = e[1] => f = e
        BY <4>1, SyncPlanEntries
      <4> QED
        BY <1>8, <4>2 DEF spec
    <3>2. ASSUME Keeps PROVE job.obj.tracked[e[1]] <= e[2]
      <4>1. job.obj.tracked[e[1]] \in Cycles \cup {NoCycle}
        BY <1>f, <3>1 DEF Restores
      <4>2. CASE job.obj.tracked[e[1]] = NoCycle
        BY <3>1, <4>2 DEF NoCycle
      <4>3. CASE job.obj.tracked[e[1]] # NoCycle
        <5>1. <<e[1], job.obj.tracked[e[1]]>> \in backups
          BY <1>0, <1>f, <3>1, <3>2, <4>3 DEF RollInv, Known
        <5> QED
          BY <3>1, <4>1, <4>3, <5>1
      <4> QED
        BY <4>2, <4>3
    <3>3. ASSUME ~Keeps, NEW id \in Existing(vr), id[1] = e[1] PROVE ~Decides(vr[id])
      <4>1. Rests(job.obj.tracked, vr)
        BY <1>6, <1>8, <3>3
      <4>2. Tracks(job.obj.tracked, id) \/ ~Decides(vr[id])
        BY <1>2, <3>3 DEF Covered
      <4> QED
        BY <4>1, <4>2 DEF Rests
    <3> QED
      BY <1>2, <3>1, <3>2, <3>3
  <2>3. LoopSound'
    BY <1>0, <1>8, <2>2 DEF LoopSound
  <2>4. Covered(Obj'.tracked, vr')
    BY <1>0, <1>2, <2>1
  <2>5. Calm(Obj') => Rests(Obj'.tracked, vr')
    BY <1>0, <1>2, <2>1
  <2>6. restore'.phase = "Enabled" => Rests(restore'.tracked, vr')
    BY <1>f, <1>0 DEF Synced
  <2> QED
    BY <1>8, <2>3, <2>4, <2>5, <2>6 DEF Synced
<1> QED
  BY <1>3, <1>4, <1>5, <1>7, <1>8

(* One iteration of the loop for an entry e, up to the end of the          *)
(* iteration: the restore id exists, and is named or was not to be.        *)
LEMMA SyncCreate ==
    ASSUME Quiet, RollInv, SyncInv, restore.spec.sync, Create
    PROVE  Synced'
<1>0. pc = "create" /\ UNCHANGED restore
  BY DEF Create, RestoreUnchanged
<1>f. /\ Synced /\ job \in Jobs /\ job.obj \in Restores /\ restore \in Restores
      /\ vr \in [Ids -> VeleroPhases]
  BY SyncFacts
<1>1. Obj = job.obj
  BY <1>0 DEF Obj
<1>2. /\ Covered(job.obj.tracked, vr)
      /\ (Calm(job.obj) /\ ~job.created) => Rests(job.obj.tracked, vr)
      /\ restore.phase = "Enabled" => Rests(restore.tracked, vr)
      /\ LoopSound
  BY <1>0, <1>1, <1>f DEF Synced
<1>3. PICK e \in job.todo :
        \/ vr' = vr /\ AfterCreate(e, [job EXCEPT !.failed = TRUE])
        \/ /\ vr[RestoreId(job.obj.spec, e)] # "absent" /\ vr' = vr
           /\ \/ AfterCreate(e, [job EXCEPT !.obj = Track(@, e)])
              \/ AfterCreate(e, job)
        \/ /\ vr[RestoreId(job.obj.spec, e)] = "absent"
           /\ vr' = [vr EXCEPT ![RestoreId(job.obj.spec, e)] = "New"]
           /\ AfterCreate(e, [job EXCEPT !.obj = Track(@, e), !.created = TRUE])
  BY DEF Create, VRUnchanged, VRChanged
<1>4. e \in Keys \X Cycles /\ e[1] \in BackupTypes /\ e[2] \in Cycles
  BY <1>f, <1>2 DEF Jobs, LoopSound
<1> DEFINE id == RestoreId(job.obj.spec, e)
           tr == [job.obj.tracked EXCEPT ![e[1]] = e[2]]
<1>5. id = <<e[1], e[2], FALSE>> /\ id \in Ids
  BY <1>4, RestoreIdType DEF RestoreId, BackupTypeOf, BackupTypes, Active
<1>6. /\ Track(job.obj, e) \in Restores /\ Track(job.obj, e).tracked = tr
      /\ Track(job.obj, e).phase = job.obj.phase /\ Track(job.obj, e).bslMsg = job.obj.bslMsg
  <2>1. e[1] \notin Active
    BY <1>4 DEF Active, BackupTypes
  <2> QED
    BY <1>f, <1>4, <2>1, TrackType, TrackMessage DEF Track, Restores
<1> HIDE DEF id, tr
(* The pass at the end of the iteration: tracking, and creating.           *)
<1>7. PICK j \in Jobs :
        /\ AfterCreate(e, j) /\ j.todo = job.todo
        /\ j.obj \in Restores /\ Calm(j.obj) = Calm(job.obj)
        /\ \/ vr' = vr /\ j.obj.tracked = job.obj.tracked /\ j.created = job.created
           \/ vr' = vr /\ vr[id] # "absent" /\ j.obj.tracked = tr /\ j.created = job.created
           \/ /\ vr[id] = "absent" /\ vr' = [vr EXCEPT ![id] = "New"]
              /\ j.obj.tracked = tr /\ j.created
  <2>0. Calm(Track(job.obj, e)) = Calm(job.obj)
    BY <1>6 DEF Calm
  <2>1. LET j == [job EXCEPT !.failed = TRUE]
        IN  j \in Jobs /\ j.todo = job.todo /\ j.obj = job.obj /\ j.created = job.created
    BY <1>f DEF Jobs
  <2>2. LET j == [job EXCEPT !.obj = Track(@, e)]
        IN  j \in Jobs /\ j.todo = job.todo /\ j.obj = Track(job.obj, e) /\ j.created = job.created
    BY <1>f, <1>6 DEF Jobs
  <2>3. LET j == [job EXCEPT !.obj = Track(@, e), !.created = TRUE]
        IN  j \in Jobs /\ j.todo = job.todo /\ j.obj = Track(job.obj, e) /\ j.created
    BY <1>f, <1>6 DEF Jobs
  <2>4. CASE vr' = vr /\ AfterCreate(e, [job EXCEPT !.failed = TRUE])
    BY <1>f, <2>1, <2>4
  <2>5. CASE vr' = vr /\ AfterCreate(e, job)
    BY <1>f, <2>5
  <2>6. CASE vr' = vr /\ vr[id] # "absent" /\ AfterCreate(e, [job EXCEPT !.obj = Track(@, e)])
    BY <1>6, <2>0, <2>2, <2>6
  <2>7. CASE /\ vr[id] = "absent" /\ vr' = [vr EXCEPT ![id] = "New"]
             /\ AfterCreate(e, [job EXCEPT !.obj = Track(@, e), !.created = TRUE])
    BY <1>6, <2>0, <2>3, <2>7
  <2> QED
    BY <1>3, <2>4, <2>5, <2>6, <2>7 DEF id
<1>t. /\ tr[e[1]] = e[2] /\ \A t \in BackupTypes : t # e[1] => tr[t] = job.obj.tracked[t]
  BY <1>f, <1>4 DEF tr, Restores
<1>n. \A t \in BackupTypes : job.obj.tracked[t] \in Nat
  <2>1. Cycles \subseteq Nat /\ NoCycle \in Nat
    BY ConstantsAssumption DEF NoCycle
  <2> QED
    BY <1>f, <2>1 DEF Restores
<1>i. \A i \in Ids : i[1] \in BackupTypes /\ i[2] \in Nat
  BY ConstantsAssumption DEF Ids
<1>e. e[2] \in Nat /\ (Keeps => job.obj.tracked[e[1]] <= e[2])
  BY <1>2, <1>4, ConstantsAssumption DEF LoopSound
(* A restore of the type that the status did not name is no obstacle.      *)
<1>8. ASSUME NEW i \in Existing(vr), i[1] = e[1]
      PROVE  \/ ~Decides(vr[i])
             \/ Keeps /\ i[2] < e[2]
             \/ i[2] = e[2] /\ job.obj.tracked[e[1]] = e[2]
  <2>1. i \in Ids /\ i[2] \in Nat
    BY <1>i DEF Existing
  <2>2. CASE ~Keeps
    BY <1>2, <1>8, <2>2 DEF LoopSound
  <2>3. CASE Keeps
    <3>1. job.obj.tracked[i[1]] = i[2] \/ ~Decides(vr[i]) \/ i[2] < job.obj.tracked[i[1]]
      BY <1>2, <1>8 DEF Covered, Tracks
    <3> QED
      BY <1>4, <1>8, <1>n, <1>e, <2>1, <2>3, <3>1
  <2> QED
    BY <2>2, <2>3
<1>v. /\ \A i \in Ids : i # id => vr'[i] = vr[i]
      /\ vr' # vr => vr[id] = "absent" /\ vr'[id] = "New" /\ j.obj.tracked = tr /\ j.created
  BY <1>f, <1>5, <1>7
<1>9. Covered(j.obj.tracked, vr')
  <2>1. CASE vr' = vr /\ j.obj.tracked = job.obj.tracked
    BY <1>2, <2>1
  <2>2. CASE j.obj.tracked = tr /\ vr'[id] # "absent"
    <3>1. ASSUME NEW i \in Existing(vr')
          PROVE  Tracks(tr, i) \/ ~Decides(vr'[i]) \/ (Keeps /\ i[2] < tr[i[1]])
      <4>0. i \in Ids /\ i[1] \in BackupTypes
        BY <1>i DEF Existing
      <4>1. CASE i = id
        BY <1>5, <1>t, <4>1 DEF Tracks
      <4>2. CASE i # id /\ i[1] = e[1]
        <5>1. vr'[i] = vr[i] /\ i \in Existing(vr)
          BY <1>v, <4>0, <4>2 DEF Existing
        <5> QED
          BY <1>8, <1>t, <4>2, <5>1 DEF Tracks
      <4>3. CASE i # id /\ i[1] # e[1]
        <5>1. vr'[i] = vr[i] /\ i \in Existing(vr) /\ tr[i[1]] = job.obj.tracked[i[1]]
          BY <1>v, <1>t, <4>0, <4>3 DEF Existing
        <5> QED
          BY <1>2, <5>1 DEF Covered, Tracks
      <4> QED
        BY <4>1, <4>2, <4>3
    <3>2. ASSUME NEW t \in BackupTypes, tr[t] # NoCycle
          PROVE  vr'[<<t, tr[t], FALSE>>] # "absent"
      <4>1. CASE t = e[1]
        BY <1>5, <1>t, <2>2, <4>1
      <4>2. CASE t # e[1]
        <5>1. /\ vr[<<t, tr[t], FALSE>>] # "absent" /\ <<t, tr[t], FALSE>> # id
              /\ job.obj.tracked[t] = tr[t]
          BY <1>2, <1>t, <1>5, <3>2, <4>2 DEF Covered
        <5>2. <<t, tr[t], FALSE>> \in Ids
          BY <1>f, <3>2, <5>1 DEF Ids, Restores
        <5> QED
          BY <1>v, <5>1, <5>2
      <4> QED
        BY <4>1, <4>2
    <3> QED
      BY <2>2, <3>1, <3>2 DEF Covered
  <2> QED
    BY <1>f, <1>5, <1>7, <2>1, <2>2
<1>10. (Calm(j.obj) /\ ~j.created) => Rests(j.obj.tracked, vr')
  <2> SUFFICES ASSUME Calm(j.obj), ~j.created
               PROVE  Rests(j.obj.tracked, vr')
    OBVIOUS
  <2>1. vr' = vr /\ Rests(job.obj.tracked, vr)
    BY <1>2, <1>7, <1>v
  <2>2. CASE j.obj.tracked = job.obj.tracked
    BY <2>1, <2>2
  <2>3. CASE j.obj.tracked = tr
    <3>1. ASSUME NEW i \in Existing(vr), Tracks(tr, i) PROVE ~Decides(vr[i])
      <4>0. i \in Ids /\ i[1] \in BackupTypes /\ i[2] \in Nat
        BY <1>i DEF Existing
      <4>1. CASE i[1] = e[1]
        <5>1. i[2] = e[2] /\ ~(i[2] < e[2])
          BY <1>t, <1>e, <3>1, <4>0, <4>1 DEF Tracks
        <5>2. ~Decides(vr[i]) \/ job.obj.tracked[e[1]] = e[2]
          BY <1>8, <4>1, <5>1
        <5> QED
          BY <2>1, <4>1, <5>1, <5>2 DEF Rests, Tracks
      <4>2. CASE i[1] # e[1]
        <5>1. job.obj.tracked[i[1]] = i[2]
          BY <1>t, <3>1, <4>0, <4>2 DEF Tracks
        <5> QED
          BY <2>1, <5>1 DEF Rests, Tracks
      <4> QED
        BY <4>1, <4>2
    <3> QED
      BY <2>1, <2>3, <3>1 DEF Rests
  <2> QED
    BY <1>7, <2>2, <2>3
<1>11. restore.phase = "Enabled" => Rests(restore.tracked, vr')
  <2> SUFFICES ASSUME restore.phase = "Enabled", NEW i \in Existing(vr'), Tracks(restore.tracked, i)
               PROVE  ~Decides(vr'[i])
    BY DEF Rests
  <2>1. i \in Ids
    BY DEF Existing
  <2>2. CASE i = id /\ vr' # vr
    <3>1. restore.tracked[e[1]] = e[2] /\ job.obj.tracked[e[1]] = restore.tracked[e[1]]
      BY <1>2, <1>5, <2>2 DEF Tracks, LoopSound
    <3>2. e[2] # NoCycle
      BY <1>4, ConstantsAssumption
    <3>3. vr[id] # "absent"
      BY <1>2, <1>4, <1>5, <3>1, <3>2 DEF Covered
    <3> QED
      BY <1>v, <2>2, <3>3
  <2>3. CASE ~(i = id /\ vr' # vr)
    <3>1. vr'[i] = vr[i] /\ i \in Existing(vr)
      BY <1>v, <2>1, <2>3 DEF Existing
    <3> QED
      BY <1>2, <3>1 DEF Rests
  <2> QED
    BY <2>2, <2>3
(* The other entries are of other types.                                   *)
<1>12. ASSUME NEW f \in job.todo \ {e}
       PROVE  /\ f[1] \in BackupTypes
              /\ j.obj.tracked[f[1]] = restore.tracked[f[1]]
              /\ Keeps => j.obj.tracked[f[1]] <= f[2]
              /\ ~Keeps => \A i \in Existing(vr') : i[1] = f[1] => ~Decides(vr'[i])
              /\ \A g \in job.todo : g[1] = f[1] => g = f
  <2>1. /\ f[1] \in BackupTypes /\ f[1] # e[1]
        /\ job.obj.tracked[f[1]] = restore.tracked[f[1]]
        /\ Keeps => job.obj.tracked[f[1]] <= f[2]
        /\ ~Keeps => \A i \in Existing(vr) : i[1] = f[1] => ~Decides(vr[i])
        /\ \A g \in job.todo : g[1] = f[1] => g = f
    BY <1>2 DEF LoopSound
  <2>2. j.obj.tracked[f[1]] = job.obj.tracked[f[1]]
    BY <1>7, <1>t, <2>1
  <2>3. ASSUME ~Keeps, NEW i \in Existing(vr'), i[1] = f[1] PROVE ~Decides(vr'[i])
    <3>0. i \in Ids /\ id[1] = e[1]
      BY <1>5 DEF Existing
    <3>1. i \in Ids /\ i # id
      BY <2>1, <2>3, <3>0
    <3>2. vr'[i] = vr[i] /\ i \in Existing(vr)
      BY <1>v, <2>3, <3>1 DEF Existing
    <3> QED
      BY <2>1, <2>3, <3>2
  <2> QED
    BY <2>1, <2>2, <2>3
<1>13. CASE pc' = "create" /\ job' = [j EXCEPT !.todo = job.todo \ {e}]
  <2>1. job'.obj = j.obj /\ job'.created = j.created /\ job'.todo = job.todo \ {e}
    BY <1>13 DEF Jobs
  <2>2. LoopSound'
    BY <1>0, <1>12, <2>1 DEF LoopSound
  <2>3. Obj' = j.obj
    BY <1>13, <2>1 DEF Obj
  <2>4. Covered(Obj'.tracked, vr') /\ (Calm(Obj') /\ ~job'.created => Rests(Obj'.tracked, vr'))
    BY <1>9, <1>10, <2>1, <2>3
  <2> QED
    BY <1>0, <1>11, <1>13, <2>2, <2>4 DEF Synced
<1>14. CASE /\ pc' = "cleanup"
            /\ job'.obj = IF j.created THEN With(j.obj, "Started") ELSE j.obj
  <2>1. Obj' = IF j.created THEN With(j.obj, "Started") ELSE j.obj
    BY <1>14 DEF Obj
  <2>2. With(j.obj, "Started").tracked = j.obj.tracked /\ ~Calm(With(j.obj, "Started"))
    <3>1. "Started" \in Phases
      BY DEF Phases
    <3>2. /\ With(j.obj, "Started").tracked = j.obj.tracked
          /\ With(j.obj, "Started").phase = "Started"
      BY <1>7, <3>1, WithType
    <3> QED
      BY <3>2 DEF Calm
  <2>3. Covered(Obj'.tracked, vr') /\ (Calm(Obj') => Rests(Obj'.tracked, vr'))
    BY <1>9, <1>10, <2>1, <2>2
  <2> QED
    BY <1>0, <1>11, <1>14, <2>3 DEF Synced
<1> QED
  <2>1. e[1] # "CredentialsActive"
    BY <1>4 DEF BackupTypes
  <2>2. \/ pc' = "create" /\ job' = [j EXCEPT !.todo = job.todo \ {e}]
        \/ /\ pc' = "cleanup"
           /\ job'.obj = IF j.created THEN With(j.obj, "Started") ELSE j.obj
    BY <1>7, <2>1 DEF AfterCreate, Jobs
  <2> QED
    BY <1>13, <1>14, <2>2

LEMMA SyncCleanup ==
    ASSUME Quiet, RollInv, SyncInv, restore.spec.sync, Cleanup
    PROVE  Synced'
<1>0. pc = "cleanup" /\ UNCHANGED restore
  BY DEF Cleanup, RestoreUnchanged
<1>f. /\ Synced /\ job \in Jobs /\ job.obj \in Restores /\ vrSeen = vr
      /\ isValidSyncOptions(job.obj.spec) /\ job.obj.spec.mc = skip
      /\ ~Keeps => \A id \in Ids : vr[id] # "Failed"
  BY <1>0, SyncFacts
<1>1. Obj = job.obj
  BY <1>0 DEF Obj
<1>2. /\ Covered(job.obj.tracked, vr)
      /\ Calm(job.obj) => Rests(job.obj.tracked, vr)
      /\ restore.phase = "Enabled" => Rests(restore.tracked, vr)
  BY <1>0, <1>1, <1>f DEF Synced
<1>3. PICK obj \in Restores, stamped \in BOOLEAN :
        /\ Conclude(obj, stamped) /\ obj.tracked = job.obj.tracked
        /\ Calm(obj) => Rests(job.obj.tracked, vr)
  <2>1. CASE job.eligible
    <3>1. PICK r \in setRestorePhase(job.obj, vr) :
            Conclude(r.obj, r.cleanup \/ r.obj.phase \in Terminal)
      BY <1>f, <2>1 DEF Cleanup
    <3>2. /\ r.obj \in Restores /\ r.obj.tracked = job.obj.tracked
          /\ (r.cleanup \/ r.obj.phase \in Terminal) \in BOOLEAN
      BY <1>f, SetRestorePhaseType
    <3>3. Calm(r.obj) => Rests(job.obj.tracked, vr)
      BY <1>f, <1>2, PhaseIsCalm
    <3> QED
      BY <3>1, <3>2, <3>3
  <2>2. CASE ~job.eligible
    <3>1. Conclude(job.obj, FALSE)
      BY <2>2 DEF Cleanup
    <3> QED
      BY <1>f, <1>2, <3>1
  <2> QED
    BY <2>1, <2>2
<1>4. /\ pc' = "write" /\ job'.obj = [obj EXCEPT !.completed = @ \/ stamped]
      /\ vr' = [id \in Ids |-> IF id \in Orphans(obj) THEN "absent" ELSE vr[id]]
  BY <1>f, <1>3 DEF Conclude, VRChanged, Jobs
<1>5. job'.obj.tracked = obj.tracked /\ job'.obj.phase = obj.phase /\ job'.obj.bslMsg = obj.bslMsg
  BY <1>4 DEF Restores
<1>6. Obj' = job'.obj /\ Calm(Obj') = Calm(obj) /\ Obj'.tracked = job.obj.tracked
  BY <1>3, <1>4, <1>5 DEF Obj, Calm
<1>7. \A id \in Ids : vr'[id] # "absent" => vr[id] # "absent" /\ (Decides(vr'[id]) => Decides(vr[id]))
  BY <1>4
<1>8. ASSUME NEW t \in BackupTypes, job.obj.tracked[t] # NoCycle
      PROVE  vr'[<<t, job.obj.tracked[t], FALSE>>] # "absent"
  <2> DEFINE id == <<t, job.obj.tracked[t], FALSE>>
  <2>1. id \in Ids
    BY <1>f, <1>8 DEF Ids, Restores
  <2>2. vr[id] # "absent"
    BY <1>2, <1>8 DEF Covered
  <2>3. id[1] = t /\ id[2] = obj.tracked[t]
    BY <1>3
  <2> HIDE DEF id
  <2>4. id \in getLatestVeleroRestores(obj, vrSeen)
    BY <1>f, <2>1, <2>2, <2>3 DEF getLatestVeleroRestores, Existing
  <2>5. id \notin Orphans(obj)
    BY <2>4 DEF Orphans
  <2> QED
    BY <1>4, <2>1, <2>2, <2>5 DEF id
<1>9. Covered(job.obj.tracked, vr')
  BY <1>2, <1>7, <1>8, CoveredKept
<1>10. /\ Rests(job.obj.tracked, vr) => Rests(job.obj.tracked, vr')
       /\ Rests(restore.tracked, vr) => Rests(restore.tracked, vr')
  BY <1>7, RestsKept
<1>11. Covered(Obj'.tracked, vr') /\ (Calm(Obj') => Rests(Obj'.tracked, vr'))
  BY <1>3, <1>6, <1>9, <1>10
<1> QED
  BY <1>0, <1>2, <1>4, <1>10, <1>11 DEF Synced

LEMMA SyncWrite ==
    ASSUME RollInv, SyncInv, restore.spec.sync, WriteStatus
    PROVE  Synced'
<1>1. /\ pc = "write" /\ pc' = "idle" /\ UNCHANGED vr
      /\ restore' = job.obj \/ (restore' = restore /\ job.obj = restore)
  BY DEF WriteStatus, Return, RestoreUnchanged, RestoreChanged
<1>2. Synced
  BY SyncFacts
<1>3. Obj' = job.obj /\ Obj = job.obj /\ restore' = job.obj
  BY <1>1 DEF Obj
<1>4. Covered(Obj'.tracked, vr') /\ (Calm(Obj') => Rests(Obj'.tracked, vr'))
  BY <1>1, <1>2, <1>3 DEF Synced
<1>5. restore'.phase = "Enabled" => Rests(restore'.tracked, vr')
  BY <1>3, <1>4 DEF Calm
<1> QED
  BY <1>1, <1>4, <1>5 DEF Synced

LEMMA SyncReconcile ==
    ASSUME Quiet, RollInv, SyncInv, Reconcile
    PROVE  SyncInv'
<1>1. CalmBase'
  BY BaseReconcile DEF SyncInv
<1>2. ~Refused
  <2>1. pc # "idle" => ~job.stale
    BY DEF SyncInv, CalmBase
  <2> QED
    BY <2>1 DEF Refused, UpdateRefused, Fault, CanFail, Quiet
<1>3. restore'.spec = restore.spec
  <2>1. TypeOK /\ CalmBase
    BY DEF RollInv, SyncInv
  <2>2. job.obj \in Restores /\ (pc # "idle" => job.obj.spec = restore.spec)
    BY <2>1 DEF TypeOK, Jobs, RollInv, Current, CalmBase
  <2>3. With(job.obj, "Started").spec = job.obj.spec
    BY <2>2, WithType DEF Phases
  <2>4. \/ restore' = restore
        \/ pc # "idle" /\ restore' \in {job.obj, With(job.obj, "Started")}
    BY <1>2 DEF Reconcile, Begin, MarkStarted, Plan, Create, Cleanup, WriteStatus,
         RestoreUnchanged, RestoreChanged, apiVars
  <2> QED
    BY <2>2, <2>3, <2>4
<1>4. ASSUME restore.spec.sync PROVE Synced'
  BY <1>2, <1>4, SyncBegin, SyncMark, SyncPlan, SyncCreate, SyncCleanup, SyncWrite DEF Reconcile
<1> QED
  BY <1>1, <1>3, <1>4 DEF SyncInv

LEMMA SyncInit == Quiet /\ Init => SyncInv
<1> SUFFICES ASSUME Quiet, Init PROVE SyncInv
  OBVIOUS
<1>1. PICK spec \in Specs : restore = NewRestore(spec) /\ validateRestore(NewRestore(spec))
  BY DEF Init
<1>2. /\ restore.spec = spec /\ restore.phase = ""
      /\ \A t \in BackupTypes : restore.tracked[t] = NoCycle
  BY <1>1 DEF NewRestore, NoTracked
<1>3. restore.spec.sync => restore.spec.mc = skip
  BY <1>1, <1>2 DEF validateRestore, IsPhaseEnabled, BackupTypes
<1>4. pc = "idle" /\ gone = {} /\ vrSeen = vr /\ fresh = TRUE /\ vr = [id \in Ids |-> "absent"]
  BY DEF Init
<1>5. CalmBase
  BY <1>2, <1>3, <1>4 DEF CalmBase
<1>6. Existing(vr) = {}
  BY <1>4 DEF Existing
<1>7. Covered(restore.tracked, vr) /\ Obj = restore
  BY <1>2, <1>4, <1>6 DEF Covered, Obj
<1>8. ~Calm(restore)
  BY <1>2 DEF Calm
<1> QED
  BY <1>2, <1>4, <1>5, <1>7, <1>8 DEF SyncInv, Synced

(* While copies are current and no status update is lost (the operator is  *)
(* not restarted, no update is refused, nobody edits the spec or deletes   *)
(* Velero restores), Enabled is reported only when no tracked restore      *)
(* waits, runs or has failed; creations and lists may fail, the storage    *)
(* may come and go, and where no restore fails, backups may disappear.     *)
THEOREM EnabledIsSound ==
    ASSUME Lagging = {},
           Faults \cap {"crash", "updateError", "restoreGone", "edit"} = {},
           "backupGone" \in Faults => "Failed" \notin Outcomes
    PROVE  Spec => []EnabledSound
<1>0. Quiet
  BY DEF Quiet, Keeps
<1>1. Init => RollInv /\ SyncInv
  BY <1>0, RollInit, SyncInit
<1>2. RollInv /\ SyncInv /\ [Next]_vars => (RollInv /\ SyncInv)'
  <2> SUFFICES ASSUME RollInv, SyncInv, [Next]_vars PROVE RollInv' /\ SyncInv'
    OBVIOUS
  <2>1. RollInv'
    BY RollStep
  <2>2. CASE UNCHANGED vars
    <3>1. UNCHANGED <<vr, vrSeen, gone, fresh, restore, pc, job>>
      BY <2>2 DEF vars
    <3>2. UNCHANGED Obj
      BY <3>1 DEF Obj
    <3>3. CalmBase'
      BY <3>1 DEF SyncInv, CalmBase
    <3>4. LoopSound => LoopSound'
      BY <3>1 DEF LoopSound
    <3>5. restore.spec.sync => Synced'
      BY <3>1, <3>2, <3>4 DEF SyncInv, Synced
    <3> QED
      BY <2>1, <3>1, <3>3, <3>5 DEF SyncInv
  <2>3. CASE Next
    BY <1>0, <2>1, <2>3, SyncReconcile, SyncEnvironment DEF Next
  <2> QED
    BY <2>2, <2>3
<1>3. RollInv /\ SyncInv => EnabledSound
  <2> SUFFICES ASSUME RollInv, SyncInv, restore.phase = "Enabled",
                      NEW t \in BackupTypes, restore.tracked[t] # NoCycle
               PROVE  ~Decides(vr[<<t, restore.tracked[t], FALSE>>])
    BY DEF EnabledSound, Decides
  <2>1. restore.spec.sync
    BY DEF SyncInv, CalmBase
  <2>2. Rests(restore.tracked, vr) /\ restore \in Restores
    BY <2>1, SyncFacts DEF Synced
  <2> DEFINE id == <<t, restore.tracked[t], FALSE>>
  <2>3. id \in Ids /\ id[1] = t /\ id[2] = restore.tracked[t]
    BY <2>2 DEF Ids, Restores
  <2> HIDE DEF id
  <2>4. CASE vr[id] = "absent"
    BY <2>4 DEF Decides, id
  <2>5. CASE vr[id] # "absent"
    <3>1. ~Decides(vr[id])
      BY <2>2, <2>3, <2>5 DEF Rests, Existing, Tracks
    <3> QED
      BY <3>1 DEF id
  <2> QED
    BY <2>4, <2>5
<1> QED
  BY <1>1, <1>2, <1>3, PTL DEF Spec

-----------------------------------------------------------------------------
(* What a Restore that is Finished has restored.                           *)

(* The kinds of backup that a Restore asks for one by one.                 *)
Asked == BackupTypes \ {"ResourcesGeneric"}

(* Of this type the status names a Velero restore that is there.           *)
Anchored(tr, v, t) == tr[t] # NoCycle /\ v[<<t, tr[t], FALSE>>] # "absent"

(* Of every type that has a Velero restore, the status names one.          *)
Anchors(tr, v) ==
    \A t \in Asked : (\E c \in Cycles : v[<<t, c, FALSE>>] # "absent") => Anchored(tr, v, t)

(* ... and of every type that the spec asks for.                           *)
Covers(obj, v) == \A t \in Asked : SpecName(obj.spec, t) # skip => Anchored(obj.tracked, v, t)

(* There is a Velero restore of the managed clusters.                      *)
Activated(v) == \E c \in Cycles : v[<<"ManagedClusters", c, FALSE>>] # "absent"

(* What the creation loop is to bring is there or still on its list.       *)
LoopCovers ==
    /\ \A t \in Asked :
         SpecName(job.obj.spec, t) # skip => Anchored(job.obj.tracked, vr, t) \/ Has(job.todo, t)
    /\ \A e \in job.todo :
         SpecName(job.obj.spec, e[1]) # skip /\ (job.obj.spec.mc = skip => e[1] \notin Active)

(* Every copy is current, and where managed clusters are asked for there   *)
(* is no recovery from a lost storage location.                            *)
CoverBase ==
    /\ pc # "idle" => ~job.stale /\ job.obj.spec = restore.spec
    /\ restore.spec.sync => restore.spec.mc = skip
    /\ restore.spec.mc # skip => bsl /\ ~restore.bslMsg /\ ~Obj.bslMsg

(* Without managed clusters only the first pass that creates anything      *)
(* looks for backups, so it must bring all that is asked for; with them    *)
(* every pass looks until the restore of the managed clusters is there,    *)
(* which the loop creates last, when it has brought all else.              *)
Covering ==
    /\ Anchors(Obj.tracked, vr)
    /\ (restore.spec.mc = skip /\ Existing(vr) # {} /\ pc # "create") => Covers(Obj, vr)
    /\ Activated(vr) => Covers(Obj, vr)
    /\ (pc \in {"mark", "plan"} /\ FALSE \in job.pvcStep) => restore.spec.mc = skip \/ Activated(vr)
    /\ pc = "create" => LoopCovers
    /\ (pc = "cleanup" /\ job.eligible) => Existing(vr) = {} \/ Covers(job.obj, vr)
    /\ Obj.phase = "Finished" => Covers(Obj, vr)

CoverInv == SoundInv /\ CoverBase /\ Covering

(* What the theorem assumes of the constants.                              *)
Undivided ==
    /\ Lagging = {}
    /\ Faults \subseteq {"backupGone", "blocked", "bsl", "taskError"}
    /\ "bsl" \in Faults => \A spec \in Specs : spec.mc = skip

LEMMA AskedNames ==
    /\ Asked = {"Credentials", "Resources", "ManagedClusters"}
    /\ \A spec : /\ SpecName(spec, "Credentials") = spec.creds
                 /\ SpecName(spec, "Resources") = spec.res
                 /\ SpecName(spec, "ManagedClusters") = spec.mc
BY DEF Asked, BackupTypes, SpecName

(* Where Velero restores only move on, or those the status does not name   *)
(* are deleted, what is there stays there.                                 *)
LEMMA AnchoredKept ==
    ASSUME NEW tr \in [BackupTypes -> Cycles \cup {NoCycle}], NEW v, NEW w, NEW t \in Asked,
           \A id \in Ids : w[id] = "absent" => v[id] = "absent" \/ tr[id[1]] # id[2],
           Anchored(tr, v, t)
    PROVE  Anchored(tr, w, t)
<1>1. t \in BackupTypes /\ tr[t] \in Cycles
  BY DEF Asked, Anchored
<1>2. <<t, tr[t], FALSE>> \in Ids
  BY <1>1 DEF Ids
<1> QED
  BY <1>2 DEF Anchored

LEMMA AnchorsKept ==
    ASSUME NEW tr \in [BackupTypes -> Cycles \cup {NoCycle}], NEW v, NEW w,
           \A id \in Ids : w[id] = "absent" => v[id] = "absent" \/ tr[id[1]] # id[2],
           \A id \in Ids : v[id] = "absent" => w[id] = "absent",
           Anchors(tr, v)
    PROVE  Anchors(tr, w)
<1> SUFFICES ASSUME NEW t \in Asked, NEW c \in Cycles, w[<<t, c, FALSE>>] # "absent"
             PROVE  Anchored(tr, w, t)
  BY DEF Anchors
<1>1. <<t, c, FALSE>> \in Ids
  BY DEF Ids, Asked
<1>2. Anchored(tr, v, t)
  BY <1>1 DEF Anchors
<1> QED
  BY <1>2, AnchoredKept

LEMMA CoversKept ==
    ASSUME NEW obj \in Restores, NEW v, NEW w,
           \A id \in Ids : w[id] = "absent" => v[id] = "absent" \/ obj.tracked[id[1]] # id[2],
           Covers(obj, v)
    PROVE  Covers(obj, w)
<1>1. obj.tracked \in [BackupTypes -> Cycles \cup {NoCycle}]
  BY DEF Restores
<1> QED
  BY <1>1, AnchoredKept DEF Covers

(* setRestorePhase finishes a Restore that has all it asks for, or one     *)
(* that asks for nothing.                                                  *)
LEMMA PhaseCovers ==
    ASSUME NEW obj \in Restores, NEW v, NEW r \in setRestorePhase(obj, v),
           Existing(v) = {} \/ Covers(obj, v),
           obj.phase = "Finished" => Covers(obj, v), r.obj.phase = "Finished"
    PROVE  Covers(r.obj, v)
<1>1. r.obj.spec = obj.spec /\ r.obj.tracked = obj.tracked
  BY SetRestorePhaseType
<1>2. CASE Covers(obj, v)
  BY <1>1, <1>2 DEF Covers
<1>3. CASE Existing(v) = {} /\ obj.phase # "Finished"
  <2>1. CASE obj.phase = "Enabled" /\ obj.spec.sync
    BY <1>3, <2>1 DEF setRestorePhase, PhaseResult
  <2>2. CASE ~(obj.phase = "Enabled" /\ obj.spec.sync)
    <3>1. r.obj = With(obj, IF isSkipAllRestores(obj.spec) THEN "Finished" ELSE "Started")
      BY <1>3, <2>2 DEF setRestorePhase, PhaseResult
    <3>2. "Started" \in Phases /\ With(obj, "Started").phase = "Started"
      BY WithType DEF Phases
    <3>3. isSkipAllRestores(obj.spec)
      BY <3>1, <3>2
    <3> QED
      BY <1>1, <3>3, AskedNames DEF Covers, isSkipAllRestores
  <2> QED
    BY <2>1, <2>2
<1> QED
  BY <1>2, <1>3

(* What the spec asks for is in the plan of a pass or reported missing.    *)
LEMMA PlanCovers ==
    ASSUME NEW spec, ~BackupMissing(spec, FALSE), NEW t \in Asked, SpecName(spec, t) # skip
    PROVE  Has(retrieveRestoreDetails(spec, FALSE), t)
<1>1. t \in RestoreKeys(spec, FALSE) \ (Active \cup {"ResourcesGeneric"})
  BY DEF RestoreKeys, Keys, BackupTypes, Active, Asked
<1>2. PICK c \in getVeleroBackupName(t, SpecName(spec, t)) : TRUE
  BY <1>1 DEF BackupMissing
<1>3. c \in Cycles
  BY <1>2 DEF getVeleroBackupName
<1>4. <<t, c>> \in retrieveRestoreDetails(spec, FALSE)
  BY <1>1, <1>2, <1>3 DEF retrieveRestoreDetails
<1> QED
  BY <1>4 DEF Has

LEMMA CoverTypes ==
    ASSUME SoundInv
    PROVE  /\ TypeOK /\ job \in Jobs /\ job.obj \in Restores /\ restore \in Restores /\ Obj \in Restores
           /\ vr \in [Ids -> VeleroPhases] /\ vrSeen = vr /\ fresh = TRUE /\ cached = restore
           /\ Obj.tracked \in [BackupTypes -> Cycles \cup {NoCycle}]
<1>1. TypeOK /\ vrSeen = vr /\ fresh = TRUE /\ cached = restore
  BY DEF SoundInv
<1>2. job \in Jobs /\ job.obj \in Restores /\ restore \in Restores /\ vr \in [Ids -> VeleroPhases]
  BY <1>1 DEF TypeOK, Jobs
<1>3. Obj \in Restores
  BY <1>2 DEF Obj
<1> QED
  BY <1>1, <1>2, <1>3 DEF Restores

LEMMA CoverInit == Undivided /\ Init => CoverInv
<1> SUFFICES ASSUME Undivided, Init PROVE CoverInv
  OBVIOUS
<1>1. PICK spec \in Specs : restore = NewRestore(spec) /\ validateRestore(NewRestore(spec))
  BY DEF Init
<1>2. /\ restore.spec = spec /\ restore.phase = ""
      /\ \A t \in BackupTypes : restore.tracked[t] = NoCycle
  BY <1>1 DEF NewRestore, NoTracked
<1>m. restore.bslMsg = FALSE
  BY <1>1 DEF NewRestore
<1>3. restore.spec.sync => restore.spec.mc = skip
  BY <1>1, <1>2 DEF validateRestore, IsPhaseEnabled, BackupTypes
<1>4. pc = "idle" /\ vr = [id \in Ids |-> "absent"] /\ bsl = TRUE /\ Obj = restore
  BY DEF Init, Obj
<1>5. CoverBase
  BY <1>m, <1>3, <1>4 DEF CoverBase
<1>6. Existing(vr) = {}
  BY <1>4 DEF Existing
<1>7. Anchors(restore.tracked, vr)
  <2>1. \A t \in Asked : \A c \in Cycles : <<t, c, FALSE>> \in Ids
    BY DEF Ids, Asked
  <2> QED
    BY <1>4, <2>1 DEF Anchors
<1>8. ~Activated(vr)
  BY <1>4 DEF Activated, Ids, BackupTypes
<1>9. Covering
  BY <1>2, <1>4, <1>6, <1>7, <1>8 DEF Covering
<1> QED
  BY <1>5, <1>9, SoundInit DEF CoverInv

LEMMA CoverEnvironment ==
    ASSUME Undivided, CoverInv, Environment
    PROVE  CoverBase' /\ Covering'
<1>t. /\ TypeOK /\ job \in Jobs /\ job.obj \in Restores /\ restore \in Restores /\ Obj \in Restores
      /\ vr \in [Ids -> VeleroPhases] /\ vrSeen = vr /\ fresh = TRUE /\ cached = restore
      /\ Obj.tracked \in [BackupTypes -> Cycles \cup {NoCycle}]
  BY CoverTypes DEF CoverInv
<1>b. CoverBase /\ Covering
  BY DEF CoverInv
<1>1. ASSUME UNCHANGED <<restore, pc, job>>, restore.spec.mc # skip => (bsl => bsl'),
             \A id \in Ids : vr'[id] = "absent" <=> vr[id] = "absent"
      PROVE  CoverBase' /\ Covering'
  <2>1. UNCHANGED Obj
    BY <1>1 DEF Obj
  <2>2. CoverBase'
    BY <1>1, <1>b, <2>1 DEF CoverBase
  <2>3. Existing(vr') = Existing(vr)
    BY <1>1 DEF Existing
  <2>4. Anchors(Obj.tracked, vr')
    BY <1>1, <1>t, <1>b, AnchorsKept DEF Covering
  <2>5. \A obj \in Restores : Covers(obj, vr) => Covers(obj, vr')
    BY <1>1, CoversKept
  <2>6. pc = "create" => LoopCovers'
    <3>1. ASSUME NEW t \in Asked, Anchored(job.obj.tracked, vr, t)
          PROVE  Anchored(job.obj.tracked, vr', t)
      <4>1. job.obj.tracked \in [BackupTypes -> Cycles \cup {NoCycle}]
        BY <1>t DEF Restores
      <4> QED
        BY <1>1, <3>1, <4>1, AnchoredKept
    <3> QED
      BY <1>1, <1>b, <3>1 DEF Covering, LoopCovers
  <2>7. Activated(vr') <=> Activated(vr)
    <3>1. \A c \in Cycles : <<"ManagedClusters", c, FALSE>> \in Ids
      BY DEF Ids, BackupTypes
    <3> QED
      BY <1>1, <3>1 DEF Activated
  <2> QED
    BY <1>1, <1>t, <1>b, <2>1, <2>2, <2>3, <2>4, <2>5, <2>6, <2>7 DEF Covering
<1>2. ASSUME NEW id \in Ids, VeleroStep(id) PROVE CoverBase' /\ Covering'
  <2>1. PICK p \in VeleroNext(vr[id]) : VRChanged([vr EXCEPT ![id] = p])
    BY <1>2 DEF VeleroStep
  <2>2. vr[id] # "absent" /\ p # "absent"
    BY <2>1, ConstantsAssumption DEF VeleroNext
  <2>3. vr' = [vr EXCEPT ![id] = p]
    BY <2>1 DEF VRChanged
  <2>4. UNCHANGED <<restore, pc, job, bsl>>
    BY <1>2 DEF VeleroStep, RestoreUnchanged, envVars
  <2>5. \A i \in Ids : vr'[i] = "absent" <=> vr[i] = "absent"
    BY <1>t, <2>2, <2>3
  <2> QED
    BY <1>1, <2>4, <2>5
<1>3. ASSUME StorageLost PROVE CoverBase' /\ Covering'
  <2>1. restore.spec.mc = skip
    <3>1. "bsl" \in Faults /\ restore.spec \in Specs
      BY <1>3, <1>t DEF StorageLost, Fault, CanFail, Restores
    <3> QED
      BY <3>1 DEF Undivided
  <2>2. UNCHANGED <<restore, pc, job, vr>>
    BY <1>3 DEF StorageLost, apiVars
  <2> QED
    BY <1>1, <2>1, <2>2
<1>4. CASE RequeueAfter \/ StorageBack \/ PVCsCreated \/ OtherStarts \/ OtherEnds
             \/ (\E b \in BackupTypes \X Cycles : BackupSynced(b) \/ BackupDeleted(b))
  <2>1. UNCHANGED <<restore, pc, job, vr>> /\ (bsl => bsl')
    BY <1>4 DEF RequeueAfter, StorageBack, PVCsCreated, OtherStarts, OtherEnds,
         BackupSynced, BackupDeleted, apiVars, envVars
  <2> QED
    BY <1>1, <2>1
<1>5. ~RestoreInformer /\ ~VeleroRestoreInformer /\ ~OperatorRestart
      /\ (\A spec \in Specs : ~UserEdit(spec)) /\ (\A id \in Ids : ~VeleroRestoreDeleted(id))
  BY <1>t DEF RestoreInformer, VeleroRestoreInformer, OperatorRestart, UserEdit,
       VeleroRestoreDeleted, Fault, CanFail, Undivided
<1> QED
  BY <1>2, <1>3, <1>4, <1>5 DEF Environment

LEMMA StatusOf ==
    ASSUME NEW obj \in Restores, NEW phase \in {"Error", "Finished", "FinishedWithErrors"},
           NEW about \in BOOLEAN
    PROVE  LET new == updateRestoreStatus(obj, phase, about)
           IN  /\ new \in Restores /\ new.spec = obj.spec /\ new.tracked = obj.tracked
               /\ new.bslMsg = about /\ (phase # "Finished" => new.phase # "Finished")
<1>1. phase \in Phases
  BY DEF Phases
<1>2. ErrorPhase(obj.spec) # "Finished"
  BY ErrorPhaseType DEF Terminal
<1>3. /\ updateRestoreStatus(obj, phase, about).bslMsg = about
      /\ phase # "Finished" => updateRestoreStatus(obj, phase, about).phase # "Finished"
  BY <1>2 DEF updateRestoreStatus, Restores
<1> QED
  BY <1>1, <1>3, UpdateStatusType

(* The three ways a pass begins with work to do.                           *)
LEMMA CoverBegin ==
    ASSUME Undivided, CoverInv, Begin
    PROVE  CoverBase' /\ Covering'
<1>t. /\ TypeOK /\ restore \in Restores /\ vrSeen = vr /\ fresh = TRUE /\ cached = restore
  BY CoverTypes DEF CoverInv
<1>b. CoverBase /\ Covering
  BY DEF CoverInv
<1>1. pc = "idle" /\ Obj = restore /\ UNCHANGED <<vr, restore, bsl>>
  BY DEF Begin, Obj, apiVars, envVars
<1>2. /\ NewJob(cached, ~fresh) \in Jobs /\ NewJob(cached, ~fresh).obj = restore
      /\ ~NewJob(cached, ~fresh).stale /\ ~NewJob(cached, ~fresh).eligible
  BY <1>t, NewJobType DEF NewJob
<1>3. CASE pc' = "idle"
  <2>1. Obj' = restore
    BY <1>1, <1>3 DEF Obj
  <2> QED
    BY <1>1, <1>b, <1>3, <2>1 DEF CoverBase, Covering
<1>4. ASSUME pc' \in {"mark", "plan", "write"}, ~job'.stale, job'.obj \in Restores,
             job'.obj.spec = restore.spec, job'.obj.tracked = restore.tracked,
             restore.spec.mc # skip => ~job'.obj.bslMsg,
             pc' # "write" /\ FALSE \in job'.pvcStep => restore.spec.mc = skip \/ Activated(vr),
             job'.obj.phase = "Finished" => Covers(job'.obj, vr)
      PROVE  CoverBase' /\ Covering'
  <2>1. Obj' = job'.obj /\ pc' \notin {"idle", "create", "cleanup"}
    BY <1>4 DEF Obj
  <2>2. Covers(restore, vr) => Covers(job'.obj, vr)
    BY <1>4 DEF Covers
  <2>3. CoverBase'
    BY <1>1, <1>b, <1>4, <2>1 DEF CoverBase
  <2> QED
    BY <1>1, <1>b, <1>4, <2>1, <2>2, <2>3 DEF Covering
<1>5. CASE pc' # "idle"
  <2>1. restore.phase \notin Terminal
    BY <1>5, <1>t DEF Begin, Return, IsCompleted
  <2>2. \/ /\ pc' = "write"
           /\ job' = [NewJob(cached, ~fresh) EXCEPT
                        !.obj = updateRestoreStatus(restore, "FinishedWithErrors", FALSE), !.after = FALSE,
                        !.touched = updateRestoreStatus(restore, "FinishedWithErrors", FALSE).phase \in Terminal]
        \/ /\ pc' = "write" /\ ~bsl
           /\ job' = [NewJob(cached, ~fresh) EXCEPT
                        !.obj = updateRestoreStatus(restore, "Error", TRUE), !.after = TRUE,
                        !.touched = updateRestoreStatus(restore, "Error", TRUE).phase \in Terminal]
        \/ /\ pc' = "write" /\ restore.bslMsg
           /\ \E r \in setRestorePhase(restore, vr) : job' = [NewJob(cached, ~fresh) EXCEPT !.obj = r.obj]
        \/ pc' \in {"mark", "plan"} /\ job' = NewJob(cached, ~fresh)
    BY <1>t, <1>5 DEF Begin, Return, validateStorageSettings
  <2>3. CASE pc' = "write" /\ ~bsl /\
             job' = [NewJob(cached, ~fresh) EXCEPT
                        !.obj = updateRestoreStatus(restore, "Error", TRUE), !.after = TRUE,
                        !.touched = updateRestoreStatus(restore, "Error", TRUE).phase \in Terminal]
    <3>1. restore.spec.mc = skip
      BY <1>b, <2>3 DEF CoverBase
    <3>2. /\ updateRestoreStatus(restore, "Error", TRUE) \in Restores
          /\ updateRestoreStatus(restore, "Error", TRUE).spec = restore.spec
          /\ updateRestoreStatus(restore, "Error", TRUE).tracked = restore.tracked
          /\ updateRestoreStatus(restore, "Error", TRUE).phase # "Finished"
      BY <1>t, StatusOf
    <3>3. job'.obj = updateRestoreStatus(restore, "Error", TRUE) /\ ~job'.stale
      BY <1>2, <2>3 DEF Jobs
    <3> QED
      BY <1>4, <2>3, <3>1, <3>2, <3>3
  <2>4. CASE pc' = "write" /\
             job' = [NewJob(cached, ~fresh) EXCEPT
                        !.obj = updateRestoreStatus(restore, "FinishedWithErrors", FALSE), !.after = FALSE,
                        !.touched = updateRestoreStatus(restore, "FinishedWithErrors", FALSE).phase \in Terminal]
    <3>2. /\ updateRestoreStatus(restore, "FinishedWithErrors", FALSE) \in Restores
          /\ updateRestoreStatus(restore, "FinishedWithErrors", FALSE).spec = restore.spec
          /\ updateRestoreStatus(restore, "FinishedWithErrors", FALSE).tracked = restore.tracked
          /\ updateRestoreStatus(restore, "FinishedWithErrors", FALSE).phase # "Finished"
          /\ updateRestoreStatus(restore, "FinishedWithErrors", FALSE).bslMsg = FALSE
      BY <1>t, StatusOf
    <3>3. job'.obj = updateRestoreStatus(restore, "FinishedWithErrors", FALSE) /\ ~job'.stale
      BY <1>2, <2>4 DEF Jobs
    <3> QED
      BY <1>4, <2>4, <3>2, <3>3
  <2>5. CASE /\ pc' = "write" /\ restore.bslMsg
             /\ \E r \in setRestorePhase(restore, vr) : job' = [NewJob(cached, ~fresh) EXCEPT !.obj = r.obj]
    <3>1. restore.spec.mc = skip
      BY <1>b, <2>5 DEF CoverBase
    <3>2. PICK r \in setRestorePhase(restore, vr) : job' = [NewJob(cached, ~fresh) EXCEPT !.obj = r.obj]
      BY <2>5
    <3>3. r.obj \in Restores /\ r.obj.spec = restore.spec /\ r.obj.tracked = restore.tracked
      BY <1>t, SetRestorePhaseType
    <3>4. job'.obj = r.obj /\ ~job'.stale
      BY <1>2, <3>2 DEF Jobs
    <3>5. Existing(vr) = {} \/ Covers(restore, vr)
      BY <1>1, <1>b, <3>1 DEF Covering
    <3>6. r.obj.phase = "Finished" => Covers(r.obj, vr)
      BY <1>t, <2>1, <3>5, PhaseCovers DEF Terminal
    <3> QED
      BY <1>4, <2>5, <3>1, <3>3, <3>4, <3>6
  <2>6. CASE pc' \in {"mark", "plan"} /\ job' = NewJob(cached, ~fresh)
    <3>1. restore.spec.mc # skip => ~restore.bslMsg
      BY <1>b DEF CoverBase
    <3>2. FALSE \in job'.pvcStep => restore.spec.mc = skip \/ Activated(vr)
      BY <1>t, <2>6 DEF NewJob, isPVCInitializationStep, ScheduleNames, Activated
    <3> QED
      BY <1>t, <1>2, <1>4, <2>1, <2>6, <3>1, <3>2 DEF Terminal
  <2> QED
    BY <2>2, <2>3, <2>4, <2>5, <2>6
<1> QED
  BY <1>3, <1>5

LEMMA CoverMark ==
    ASSUME CoverInv, MarkStarted
    PROVE  CoverBase' /\ Covering'
<1>t. job \in Jobs /\ job.obj \in Restores
  BY CoverTypes DEF CoverInv
<1>b. CoverBase /\ Covering
  BY DEF CoverInv
<1>1. /\ pc = "mark" /\ pc' = "plan" /\ UNCHANGED <<vr, bsl>>
      /\ restore' = With(job.obj, "Started") /\ job' = [job EXCEPT !.obj = With(job.obj, "Started")]
  BY DEF MarkStarted, RestoreChanged, envVars
<1>2. /\ With(job.obj, "Started").spec = job.obj.spec
      /\ With(job.obj, "Started").tracked = job.obj.tracked
      /\ With(job.obj, "Started").phase = "Started"
      /\ With(job.obj, "Started").bslMsg = FALSE
  BY <1>t, WithType DEF Phases, With, Restores
<1>3. /\ job'.obj = restore' /\ Obj' = restore' /\ Obj = job.obj /\ job'.stale = job.stale
      /\ job'.pvcStep = job.pvcStep
  BY <1>1, <1>t DEF Obj, Jobs
<1>4. job.obj.spec = restore.spec /\ ~job.stale
  BY <1>1, <1>b DEF CoverBase
<1>5. CoverBase'
  BY <1>1, <1>2, <1>3, <1>4, <1>b DEF CoverBase
<1>6. Covers(job.obj, vr) => Covers(restore', vr)
  BY <1>1, <1>2 DEF Covers
<1> QED
  BY <1>1, <1>2, <1>3, <1>4, <1>5, <1>6, <1>b DEF Covering

LEMMA CoverWrite ==
    ASSUME CoverInv, WriteStatus
    PROVE  CoverBase' /\ Covering'
<1>b. CoverBase /\ Covering
  BY DEF CoverInv
<1>1. /\ pc = "write" /\ pc' = "idle" /\ UNCHANGED <<vr, bsl>>
      /\ restore' = job.obj \/ (restore' = restore /\ job.obj = restore)
  BY DEF WriteStatus, Return, RestoreUnchanged, RestoreChanged, envVars
<1>2. Obj' = job.obj /\ Obj = job.obj /\ restore' = job.obj /\ job.obj.spec = restore.spec
  BY <1>1, <1>b DEF Obj, CoverBase
<1>3. CoverBase'
  BY <1>1, <1>2, <1>b DEF CoverBase
<1> QED
  BY <1>1, <1>2, <1>3, <1>b DEF Covering

LEMMA CoverPlan ==
    ASSUME Undivided, CoverInv, Plan
    PROVE  CoverBase' /\ Covering'
<1>t. job \in Jobs /\ job.obj \in Restores /\ restore \in Restores
  BY CoverTypes DEF CoverInv
<1>b. CoverBase /\ Covering
  BY DEF CoverInv
<1>1. pc = "plan" /\ Obj = job.obj /\ UNCHANGED <<vr, restore, bsl>>
  BY DEF Plan, Obj, apiVars, envVars
<1>2. ~job.stale /\ job.obj.spec = restore.spec /\ (restore.spec.sync => restore.spec.mc = skip)
  BY <1>1, <1>b DEF CoverBase
<1>3. job.obj.phase # "Finished"
  BY <1>1 DEF CoverInv, SoundInv
<1> DEFINE spec == job.obj.spec
           plan == retrieveRestoreDetails(spec, FALSE)
<1>4. \/ /\ spec.mc = skip \/ Activated(vr)
         /\ pc' = "cleanup" /\ job' = [job EXCEPT !.eligible = TRUE]
      \/ /\ pc' = "write"
         /\ job' = [job EXCEPT !.obj = updateRestoreStatus(job.obj, "Error", FALSE), !.after = TRUE]
      \/ /\ ~BackupMissing(spec, FALSE) /\ plan = {} /\ pc' = "cleanup"
         /\ job' = [job EXCEPT !.obj = updateRestoreStatus(job.obj, "Finished", FALSE), !.touched = TRUE]
      \/ /\ ~BackupMissing(spec, FALSE) /\ pc' = "create"
         /\ job' = [job EXCEPT !.todo = plan, !.gated = \E e \in plan : e[1] = "ManagedClusters"]
  <2>1. ~Fault("listError")
    BY DEF Fault, CanFail, Undivided
  <2>2. isValidSyncOptions(spec) => spec.mc = skip
    BY <1>2 DEF isValidSyncOptions
  <2>3. skip # latest
    BY ConstantsAssumption
  <2>4. \A pvcStep \in job.pvcStep : ~pvcStep => spec.mc = skip \/ Activated(vr)
    <3>1. FALSE \in job.pvcStep => spec.mc = skip \/ Activated(vr)
      BY <1>1, <1>2, <1>b DEF Covering
    <3>2. job.pvcStep \subseteq BOOLEAN
      BY <1>t DEF Jobs
    <3> QED
      BY <3>1, <3>2
  <2> QED
    BY <2>1, <2>2, <2>3, <2>4 DEF Plan
<1>5. ASSUME pc' \in {"write", "cleanup"}, job'.stale = job.stale, job'.obj \in Restores,
             job'.obj.spec = job.obj.spec, job'.obj.tracked = job.obj.tracked,
             job'.obj.bslMsg = job.obj.bslMsg \/ ~job'.obj.bslMsg,
             pc' = "cleanup" /\ job'.eligible => Existing(vr) = {} \/ Covers(job'.obj, vr),
             job'.obj.phase = "Finished" => Covers(job'.obj, vr)
      PROVE  CoverBase' /\ Covering'
  <2>1. Obj' = job'.obj /\ pc' \notin {"idle", "create"}
    BY <1>5 DEF Obj
  <2>2. Covers(job.obj, vr) => Covers(job'.obj, vr)
    BY <1>5 DEF Covers
  <2>3. CoverBase'
    BY <1>1, <1>2, <1>b, <1>5, <2>1 DEF CoverBase
  <2> QED
    BY <1>1, <1>b, <1>5, <2>1, <2>2, <2>3 DEF Covering
<1>6. CASE /\ spec.mc = skip \/ Activated(vr)
           /\ pc' = "cleanup" /\ job' = [job EXCEPT !.eligible = TRUE]
  <2>1. job'.obj = job.obj /\ job'.stale = job.stale
    BY <1>t, <1>6 DEF Jobs
  <2>2. Existing(vr) = {} \/ Covers(job.obj, vr)
    BY <1>1, <1>2, <1>6, <1>b DEF Covering
  <2> QED
    BY <1>t, <1>3, <1>5, <1>6, <2>1, <2>2
<1>7. CASE /\ pc' = "write"
           /\ job' = [job EXCEPT !.obj = updateRestoreStatus(job.obj, "Error", FALSE), !.after = TRUE]
  <2>1. job'.obj = updateRestoreStatus(job.obj, "Error", FALSE) /\ job'.stale = job.stale
    BY <1>t, <1>7 DEF Jobs
  <2>2. /\ job'.obj \in Restores /\ job'.obj.spec = spec /\ job'.obj.tracked = job.obj.tracked
        /\ job'.obj.bslMsg = FALSE /\ job'.obj.phase # "Finished"
    <3>1. LET new == updateRestoreStatus(job.obj, "Error", FALSE)
          IN  /\ new \in Restores /\ new.spec = job.obj.spec /\ new.tracked = job.obj.tracked
              /\ new.bslMsg = FALSE /\ new.phase # "Finished"
      BY <1>t, StatusOf
    <3> QED
      BY <2>1, <3>1
  <2> QED
    BY <1>5, <1>7, <2>1, <2>2
<1>8. CASE /\ ~BackupMissing(spec, FALSE) /\ plan = {} /\ pc' = "cleanup"
           /\ job' = [job EXCEPT !.obj = updateRestoreStatus(job.obj, "Finished", FALSE), !.touched = TRUE]
  <2>1. job'.obj = updateRestoreStatus(job.obj, "Finished", FALSE) /\ job'.stale = job.stale
    BY <1>t, <1>8 DEF Jobs
  <2>2. \A t \in Asked : SpecName(spec, t) = skip
    BY <1>8, PlanCovers DEF Has
  <2>3. /\ job'.obj \in Restores /\ job'.obj.spec = spec /\ job'.obj.tracked = job.obj.tracked
        /\ job'.obj.bslMsg = FALSE
    <3>1. LET new == updateRestoreStatus(job.obj, "Finished", FALSE)
          IN  /\ new \in Restores /\ new.spec = job.obj.spec /\ new.tracked = job.obj.tracked
              /\ new.bslMsg = FALSE
      BY <1>t, StatusOf
    <3> QED
      BY <2>1, <3>1
  <2>4. Covers(job'.obj, vr)
    BY <2>2, <2>3 DEF Covers
  <2> QED
    BY <1>5, <1>8, <2>1, <2>3, <2>4
<1>9. CASE /\ ~BackupMissing(spec, FALSE) /\ pc' = "create"
           /\ job' = [job EXCEPT !.todo = plan, !.gated = \E e \in plan : e[1] = "ManagedClusters"]
  <2>1. job'.obj = job.obj /\ job'.todo = plan /\ job'.stale = job.stale
    BY <1>t, <1>9 DEF Jobs
  <2>2. Obj' = job.obj
    BY <1>9, <2>1 DEF Obj
  <2>3. \A t \in Asked : SpecName(spec, t) # skip => Has(plan, t)
    BY <1>9, PlanCovers
  <2>4. \A e \in plan : SpecName(spec, e[1]) # skip /\ (spec.mc = skip => e[1] \notin Active)
    BY DEF retrieveRestoreDetails, RestoreKeys
  <2>5. LoopCovers'
    BY <2>1, <2>3, <2>4 DEF LoopCovers
  <2>6. CoverBase'
    BY <1>1, <1>2, <1>b, <1>9, <2>1, <2>2 DEF CoverBase
  <2> QED
    BY <1>1, <1>3, <1>9, <1>b, <2>2, <2>5, <2>6 DEF Covering
<1> QED
  BY <1>4, <1>6, <1>7, <1>8, <1>9

LEMMA CoverCleanup ==
    ASSUME Undivided, CoverInv, Cleanup
    PROVE  CoverBase' /\ Covering'
<1>t. job \in Jobs /\ job.obj \in Restores /\ restore \in Restores /\ vrSeen = vr
  BY CoverTypes DEF CoverInv
<1>b. CoverBase /\ Covering
  BY DEF CoverInv
<1>1. pc = "cleanup" /\ Obj = job.obj /\ UNCHANGED <<restore, bsl>>
  BY DEF Cleanup, Obj, RestoreUnchanged, envVars
<1>2. ~job.stale /\ job.obj.spec = restore.spec
  BY <1>1, <1>b DEF CoverBase
<1>3. PICK obj \in Restores, stamped \in BOOLEAN :
        /\ Conclude(obj, stamped)
        /\ obj.spec = job.obj.spec /\ obj.tracked = job.obj.tracked
        /\ restore.spec.mc # skip => ~obj.bslMsg
        /\ obj.phase = "Finished" => Covers(obj, vr)
  <2>1. restore.spec.mc # skip => ~job.obj.bslMsg
    BY <1>1, <1>b DEF CoverBase
  <2>2. job.obj.phase = "Finished" => Covers(job.obj, vr)
    BY <1>1, <1>b DEF Covering
  <2>3. CASE job.eligible
    <3>1. PICK r \in setRestorePhase(job.obj, vr) :
            Conclude(r.obj, r.cleanup \/ r.obj.phase \in Terminal)
      BY <1>t, <2>3 DEF Cleanup
    <3>2. /\ r.obj \in Restores /\ (r.cleanup \/ r.obj.phase \in Terminal) \in BOOLEAN
          /\ r.obj.spec = job.obj.spec /\ r.obj.tracked = job.obj.tracked
      BY <1>t, SetRestorePhaseType
    <3>3. Existing(vr) = {} \/ Covers(job.obj, vr)
      BY <1>1, <1>b, <2>3 DEF Covering
    <3>4. r.obj.phase = "Finished" => Covers(r.obj, vr)
      BY <1>t, <2>2, <3>3, PhaseCovers
    <3>5. r.obj = job.obj \/ r.obj.bslMsg = FALSE
      <4>1. r.obj = job.obj \/ \E p \in Phases : r.obj = With(job.obj, p)
        <5>1. "Finished" \in Phases
          BY DEF Phases
        <5> QED
          BY <5>1, SetRestorePhaseCases DEF PhaseResult
      <4> QED
        BY <1>t, <4>1 DEF With, Restores
    <3> QED
      BY <2>1, <3>1, <3>2, <3>4, <3>5
  <2>4. CASE ~job.eligible
    BY <1>t, <2>1, <2>2, <2>4 DEF Cleanup
  <2> QED
    BY <2>3, <2>4
<1>4. /\ pc' = "write" /\ job'.obj = [obj EXCEPT !.completed = @ \/ stamped] /\ job'.stale = job.stale
      /\ vr' = [id \in Ids |-> IF id \in Orphans(obj) THEN "absent" ELSE vr[id]]
  BY <1>t, <1>3 DEF Conclude, VRChanged, Jobs
<1>5. /\ job'.obj.spec = job.obj.spec /\ job'.obj.tracked = job.obj.tracked
      /\ job'.obj.phase = obj.phase /\ job'.obj.bslMsg = obj.bslMsg
      /\ Obj' = job'.obj
  BY <1>3, <1>4 DEF Restores, Obj
<1>6. /\ \A id \in Ids : vr'[id] = "absent" => vr[id] = "absent" \/ job.obj.tracked[id[1]] # id[2]
      /\ \A id \in Ids : vr[id] = "absent" => vr'[id] = "absent"
      /\ Existing(vr') \subseteq Existing(vr)
  BY <1>t, <1>3, <1>4 DEF Orphans, getLatestVeleroRestores, Existing
<1>7. Anchors(job.obj.tracked, vr')
  <2>1. job.obj.tracked \in [BackupTypes -> Cycles \cup {NoCycle}] /\ Anchors(job.obj.tracked, vr)
    BY <1>1, <1>t, <1>b DEF Restores, Covering
  <2> QED
    BY <1>6, <2>1, AnchorsKept
<1>8. Covers(job.obj, vr) => Covers(job'.obj, vr')
  <2>1. Covers(job.obj, vr) => Covers(job.obj, vr')
    BY <1>t, <1>6, CoversKept
  <2> QED
    BY <1>5, <2>1 DEF Covers
<1>9. Covers(obj, vr) => Covers(job.obj, vr)
  BY <1>3 DEF Covers
<1>10. CoverBase'
  BY <1>1, <1>2, <1>3, <1>4, <1>5, <1>b DEF CoverBase
<1>11. Activated(vr') => Activated(vr)
  <2>1. \A c \in Cycles : <<"ManagedClusters", c, FALSE>> \in Ids
    BY DEF Ids, BackupTypes
  <2> QED
    BY <1>6, <2>1 DEF Activated
<1> QED
  BY <1>1, <1>3, <1>4, <1>5, <1>6, <1>7, <1>8, <1>9, <1>10, <1>11, <1>b DEF Covering

(* The loop has come to the managed clusters, and nothing else is left.    *)
Last(e) == e[1] = "ManagedClusters" /\ \A f \in job.todo : f[1] = "ManagedClusters"

(* One iteration of the creation loop: the Velero restore is there         *)
(* afterwards, and named unless another of its type is; the managed        *)
(* clusters come when nothing else is left.                                *)
LEMMA CoverCreated ==
    ASSUME Undivided, CoverInv, Create
    PROVE  \E e \in job.todo, j \in Jobs :
              /\ AfterCreate(e, j)
              /\ j.obj.spec = job.obj.spec /\ j.obj.phase = job.obj.phase /\ j.obj.bslMsg = job.obj.bslMsg
              /\ j.todo = job.todo /\ j.stale = job.stale
              /\ Anchors(j.obj.tracked, vr')
              /\ \A t \in Asked :
                    Anchored(job.obj.tracked, vr, t) \/ t = e[1] => Anchored(j.obj.tracked, vr', t)
              /\ Activated(vr') => Activated(vr) \/ Last(e)
<1>t. /\ job \in Jobs /\ job.obj \in Restores /\ restore \in Restores /\ vr \in [Ids -> VeleroPhases]
      /\ job.obj.tracked \in [BackupTypes -> Cycles \cup {NoCycle}] /\ NoCycle \notin Cycles
  BY CoverTypes, ConstantsAssumption DEF CoverInv, Restores
<1>b. Anchors(job.obj.tracked, vr) /\ LoopCovers
  BY DEF CoverInv, Covering, Create, Obj
<1>1. PICK e \in job.todo :
        /\ \A f \in job.todo : ResourceTypePriority[e[1]] <= ResourceTypePriority[f[1]]
        /\ LET id == RestoreId(job.obj.spec, e)
           IN  \/ /\ vr[id] # "absent" /\ vr' = vr
                  /\ AfterCreate(e, IF e[1] \in {"Credentials", "ResourcesGeneric"}
                                    THEN [job EXCEPT !.obj = Track(@, e)] ELSE job)
               \/ /\ vr[id] = "absent" /\ vr' = [vr EXCEPT ![id] = "New"]
                  /\ AfterCreate(e, [job EXCEPT !.obj = Track(@, e), !.created = TRUE])
  BY DEF Create, Fault, CanFail, Undivided, VRUnchanged, VRChanged
<1> DEFINE id == RestoreId(job.obj.spec, e)
           tr == job.obj.tracked
<1>2. e \in Keys \X Cycles /\ e[1] \in Keys /\ e[2] \in Cycles
  BY <1>t DEF Jobs
<1>3. id \in Ids
  BY <1>2, RestoreIdType
<1>4. e[1] \in BackupTypes => id = <<e[1], e[2], FALSE>> /\ id[1] = e[1]
  BY DEF RestoreId, BackupTypeOf, BackupTypes, Active
<1>5. e[1] \notin BackupTypes => e[1] \in Active /\ id[3] = TRUE
  <2>1. SpecName(job.obj.spec, e[1]) # skip
    BY <1>b DEF LoopCovers
  <2>2. e[1] \notin BackupTypes => e[1] \in Active
    BY <1>2 DEF Keys
  <2> QED
    BY <2>1, <2>2 DEF RestoreId
<1>6. /\ Track(job.obj, e) \in Restores /\ Track(job.obj, e).spec = job.obj.spec
      /\ Track(job.obj, e).phase = job.obj.phase
  BY <1>t, <1>2, TrackType
<1>7. /\ Track(job.obj, e).bslMsg = job.obj.bslMsg
      /\ e[1] \in Active => Track(job.obj, e).tracked = tr
      /\ e[1] \in BackupTypes => Track(job.obj, e).tracked = [tr EXCEPT ![e[1]] = e[2]]
  <2>1. e[1] \in BackupTypes => e[1] \notin Active
    BY DEF BackupTypes, Active
  <2> QED
    BY <1>t, <2>1 DEF Track, Restores
<1> HIDE DEF id, tr
<1>8. \A i \in Ids : (vr'[i] # "absent") <=> (vr[i] # "absent" \/ i = id)
  BY <1>t, <1>1, <1>3 DEF id
<1>9. \A t \in Asked : t \in BackupTypes /\ \A c \in Cycles : <<t, c, FALSE>> \in Ids
  BY DEF Asked, Ids
<1>10. ASSUME NEW t \in Asked, Anchored(tr, vr, t) PROVE Anchored(tr, vr', t) /\ tr[t] \in Cycles
  <2>1. tr[t] \in Cycles
    BY <1>t, <1>9, <1>10 DEF Anchored, tr
  <2> QED
    BY <1>8, <1>9, <1>10, <2>1 DEF Anchored
(* The names once the loop has come to a type, whether or not it was new.  *)
<1>11. ASSUME e[1] \in BackupTypes
       PROVE  LET new == [tr EXCEPT ![e[1]] = e[2]]
              IN  /\ Anchors(new, vr')
                  /\ \A t \in Asked : Anchored(tr, vr, t) \/ t = e[1] => Anchored(new, vr', t)
  <2> DEFINE new == [tr EXCEPT ![e[1]] = e[2]]
  <2>1. new[e[1]] = e[2] /\ \A t \in BackupTypes : t # e[1] => new[t] = tr[t]
    BY <1>t, <1>11 DEF tr
  <2>2. vr'[<<e[1], e[2], FALSE>>] # "absent"
    BY <1>3, <1>4, <1>8, <1>11
  <2>3. e[2] # NoCycle
    BY <1>t, <1>2
  <2>4. Anchored(new, vr', e[1])
    BY <2>1, <2>2, <2>3 DEF Anchored
  <2> HIDE DEF new
  <2>5. ASSUME NEW t \in Asked, t # e[1], Anchored(tr, vr, t) PROVE Anchored(new, vr', t)
    BY <1>9, <1>10, <2>1, <2>5 DEF Anchored
  <2>6. ASSUME NEW t \in Asked, NEW c \in Cycles, vr'[<<t, c, FALSE>>] # "absent", t # e[1]
        PROVE  Anchored(tr, vr, t)
    <3>1. vr[<<t, c, FALSE>>] # "absent"
      <4>1. <<t, c, FALSE>> # id
        <5>1. id[1] = e[1] /\ <<t, c, FALSE>>[1] = t
          BY <1>4, <1>11
        <5> QED
          BY <2>6, <5>1
      <4> QED
        BY <1>8, <1>9, <2>6, <4>1
    <3> QED
      BY <1>b, <3>1 DEF Anchors, tr
  <2>7. Anchors(new, vr')
    BY <2>4, <2>5, <2>6 DEF Anchors
  <2> QED
    BY <2>4, <2>5, <2>7 DEF new
(* The names where the loop leaves them alone.                             *)
<1>12. ASSUME vr[id] # "absent" \/ e[1] \notin BackupTypes
       PROVE  /\ Anchors(tr, vr')
              /\ \A t \in Asked : Anchored(tr, vr, t) \/ t = e[1] => Anchored(tr, vr', t)
  <2>1. ASSUME NEW t \in Asked, NEW c \in Cycles
        PROVE  vr'[<<t, c, FALSE>>] # "absent" <=> vr[<<t, c, FALSE>>] # "absent"
    <3>1. CASE e[1] \in BackupTypes
      BY <1>8, <1>9, <1>12, <3>1
    <3>2. CASE e[1] \notin BackupTypes
      <4>1. <<t, c, FALSE>> # id
        <5>1. id[3] = TRUE /\ <<t, c, FALSE>>[3] = FALSE
          BY <1>5, <3>2
        <5> QED
          BY <5>1
      <4> QED
        BY <1>8, <1>9, <4>1
    <3> QED
      BY <3>1, <3>2
  <2>2. ASSUME NEW t \in Asked, NEW c \in Cycles, vr[<<t, c, FALSE>>] # "absent"
        PROVE  Anchored(tr, vr', t)
    BY <1>b, <1>10, <2>2 DEF Anchors, tr
  <2>3. ASSUME e[1] \in Asked PROVE Anchored(tr, vr', e[1])
    BY <1>2, <1>4, <1>9, <1>12, <2>2, <2>3
  <2>4. Anchors(tr, vr')
    BY <2>1, <2>2 DEF Anchors
  <2> QED
    BY <1>10, <2>3, <2>4
<1>l. Activated(vr') => Activated(vr) \/ Last(e)
  <2>1. ASSUME NEW c \in Cycles, vr'[<<"ManagedClusters", c, FALSE>>] # "absent",
               vr[<<"ManagedClusters", c, FALSE>>] = "absent"
        PROVE  Last(e)
    <3>1. <<"ManagedClusters", c, FALSE>> \in Ids
      BY DEF Ids, BackupTypes
    <3>2. id = <<"ManagedClusters", c, FALSE>>
      BY <1>8, <2>1, <3>1
    <3>3. e[1] = "ManagedClusters"
      <4>1. id[1] = "ManagedClusters" /\ id[3] = FALSE
        BY <3>2
      <4> QED
        BY <1>4, <1>5, <4>1
    <3>4. ASSUME NEW f \in job.todo PROVE f[1] = "ManagedClusters"
      <4>1. f[1] \in Keys
        BY <1>t DEF Jobs
      <4>2. ResourceTypePriority["ManagedClusters"] <= ResourceTypePriority[f[1]]
        BY <1>1, <3>3
      <4> QED
        BY <4>1, <4>2 DEF ResourceTypePriority, Keys, BackupTypes, Active
    <3> QED
      BY <3>3, <3>4 DEF Last
  <2> QED
    BY <2>1 DEF Activated
<1>13. \A obj \in Restores :
         /\ [job EXCEPT !.obj = obj] \in Jobs /\ [job EXCEPT !.obj = obj].obj = obj
         /\ [job EXCEPT !.obj = obj].todo = job.todo /\ [job EXCEPT !.obj = obj].stale = job.stale
         /\ [job EXCEPT !.obj = obj, !.created = TRUE] \in Jobs
         /\ [job EXCEPT !.obj = obj, !.created = TRUE].obj = obj
         /\ [job EXCEPT !.obj = obj, !.created = TRUE].todo = job.todo
         /\ [job EXCEPT !.obj = obj, !.created = TRUE].stale = job.stale
  BY <1>t DEF Jobs
<1> DEFINE Goal(j) ==
              /\ j \in Jobs /\ AfterCreate(e, j)
              /\ j.obj.spec = job.obj.spec /\ j.obj.phase = job.obj.phase /\ j.obj.bslMsg = job.obj.bslMsg
              /\ j.todo = job.todo /\ j.stale = job.stale
              /\ Anchors(j.obj.tracked, vr')
              /\ \A t \in Asked :
                    Anchored(job.obj.tracked, vr, t) \/ t = e[1] => Anchored(j.obj.tracked, vr', t)
              /\ Activated(vr') => Activated(vr) \/ Last(e)
<1>14. /\ Anchors(Track(job.obj, e).tracked, vr')
       /\ \A t \in Asked : Anchored(tr, vr, t) \/ t = e[1] => Anchored(Track(job.obj, e).tracked, vr', t)
  <2>1. CASE e[1] \in BackupTypes
    BY <1>7, <1>11, <2>1
  <2>2. CASE e[1] \notin BackupTypes
    BY <1>5, <1>7, <1>12, <2>2
  <2> QED
    BY <2>1, <2>2
<1>15. CASE vr[id] = "absent" /\ AfterCreate(e, [job EXCEPT !.obj = Track(@, e), !.created = TRUE])
  <2>1. Goal([job EXCEPT !.obj = Track(job.obj, e), !.created = TRUE])
    BY <1>6, <1>7, <1>l, <1>13, <1>14, <1>15 DEF tr
  <2> QED
    BY <2>1
<1>16. CASE vr[id] # "absent" /\ AfterCreate(e, [job EXCEPT !.obj = Track(@, e)])
  <2>1. Goal([job EXCEPT !.obj = Track(job.obj, e)])
    BY <1>6, <1>7, <1>l, <1>13, <1>14, <1>16 DEF tr
  <2> QED
    BY <2>1
<1>17. CASE vr[id] # "absent" /\ AfterCreate(e, job)
  <2>1. Goal(job)
    BY <1>t, <1>l, <1>12, <1>17 DEF tr
  <2> QED
    BY <2>1
<1> QED
  BY <1>1, <1>15, <1>16, <1>17 DEF id

LEMMA CoverCreate ==
    ASSUME Undivided, CoverInv, Create
    PROVE  CoverBase' /\ Covering'
<1>t. job \in Jobs /\ job.obj \in Restores /\ restore \in Restores
  BY CoverTypes DEF CoverInv
<1>b. CoverBase /\ LoopCovers
  BY DEF CoverInv, Covering, Create
<1>1. pc = "create" /\ Obj = job.obj /\ UNCHANGED <<restore, bsl>> /\ job.obj.phase # "Finished"
  BY DEF Create, Obj, RestoreUnchanged, envVars, CoverInv, SoundInv
<1>2. ~job.stale /\ job.obj.spec = restore.spec /\ (restore.spec.mc # skip => ~job.obj.bslMsg)
  BY <1>1, <1>b DEF CoverBase
<1>3. PICK e \in job.todo, j \in Jobs :
              /\ AfterCreate(e, j)
              /\ j.obj.spec = job.obj.spec /\ j.obj.phase = job.obj.phase /\ j.obj.bslMsg = job.obj.bslMsg
              /\ j.todo = job.todo /\ j.stale = job.stale
              /\ Anchors(j.obj.tracked, vr')
              /\ \A t \in Asked :
                    Anchored(job.obj.tracked, vr, t) \/ t = e[1] => Anchored(j.obj.tracked, vr', t)
              /\ Activated(vr') => Activated(vr) \/ Last(e)
  BY CoverCreated
<1> DEFINE spec == restore.spec
           started == With(j.obj, "Started")
           rest == job.todo \ {e}
<1>4. /\ started \in Restores /\ started.spec = spec /\ started.tracked = j.obj.tracked
      /\ started.phase = "Started" /\ started.bslMsg = FALSE /\ j.obj \in Restores
  <2>1. j.obj \in Restores /\ "Started" \in Phases
    BY DEF Jobs, Phases
  <2>2. started.bslMsg = FALSE
    BY <2>1 DEF With, Restores
  <2> QED
    BY <1>2, <1>3, <2>1, <2>2, WithType
<1>5. \A t \in Asked : SpecName(spec, t) # skip => Anchored(j.obj.tracked, vr', t) \/ Has(rest, t)
  <2> SUFFICES ASSUME NEW t \in Asked, SpecName(spec, t) # skip, ~Anchored(j.obj.tracked, vr', t)
               PROVE  Has(rest, t)
    OBVIOUS
  <2>1. ~Anchored(job.obj.tracked, vr, t) /\ t # e[1]
    BY <1>3
  <2>2. Has(job.todo, t)
    BY <1>2, <1>b, <2>1 DEF LoopCovers
  <2> QED
    BY <2>1, <2>2 DEF Has
<1> HIDE DEF started
<1>6. \/ /\ pc' = "write" /\ e[1] = "CredentialsActive"
         /\ job'.obj = started /\ job'.stale = job.stale
      \/ /\ pc' = "create" /\ rest # {}
         /\ job'.obj = j.obj /\ job'.todo = rest /\ job'.stale = job.stale
      \/ /\ pc' = "cleanup" /\ rest = {}
         /\ job'.obj \in {j.obj, started} /\ job'.stale = job.stale
  BY <1>3 DEF AfterCreate, Jobs, started
<1>7. /\ pc' # "idle" /\ Obj' = job'.obj /\ ~job'.stale
      /\ job'.obj.spec = spec /\ job'.obj.tracked = j.obj.tracked /\ job'.obj.phase # "Finished"
      /\ spec.mc # skip => ~job'.obj.bslMsg
  BY <1>1, <1>2, <1>3, <1>4, <1>6 DEF Obj
<1>8. CoverBase'
  BY <1>1, <1>7, <1>b DEF CoverBase
<1>l. Activated(vr') => Covers(job'.obj, vr')
  <2>1. ASSUME Activated(vr), NEW t \in Asked, SpecName(spec, t) # skip
        PROVE  Anchored(j.obj.tracked, vr', t)
    <3>1. Covers(job.obj, vr)
      BY <1>1, <2>1 DEF CoverInv, Covering
    <3> QED
      BY <1>2, <1>3, <2>1, <3>1 DEF Covers
  <2>2. ASSUME Last(e), NEW t \in Asked, SpecName(spec, t) # skip
        PROVE  Anchored(j.obj.tracked, vr', t)
    <3>1. Has(rest, t) => t = "ManagedClusters"
      BY <2>2 DEF Last, Has
    <3>2. t = "ManagedClusters" => t = e[1]
      BY <2>2 DEF Last
    <3> QED
      BY <1>3, <1>5, <2>2, <3>1, <3>2
  <2> QED
    BY <1>3, <1>7, <2>1, <2>2 DEF Covers
<1>9. CASE pc' = "write" /\ e[1] = "CredentialsActive"
  <2>1. spec.mc # skip
    BY <1>2, <1>9, <1>b DEF LoopCovers, Active
  <2> QED
    BY <1>1, <1>3, <1>7, <1>8, <1>l, <1>9, <2>1 DEF Covering
<1>10. CASE pc' = "create" /\ job'.todo = rest
  <2>1. LoopCovers'
    BY <1>2, <1>5, <1>7, <1>10, <1>b DEF LoopCovers
  <2> QED
    BY <1>1, <1>3, <1>7, <1>8, <1>l, <1>10, <2>1 DEF Covering
<1>11. CASE pc' = "cleanup" /\ rest = {}
  <2>1. Covers(job'.obj, vr')
    BY <1>5, <1>7, <1>11 DEF Covers, Has
  <2> QED
    BY <1>1, <1>3, <1>7, <1>8, <1>l, <1>11, <2>1 DEF Covering
<1> QED
  BY <1>6, <1>9, <1>10, <1>11

LEMMA CoverStep ==
    ASSUME Undivided, CoverInv, [Next]_vars
    PROVE  CoverInv'
<1>1. SoundInv'
  BY SoundStep DEF Undivided, CoverInv
<1>2. ~Refused
  <2>1. pc # "idle" => ~job.stale
    BY DEF CoverInv, CoverBase
  <2> QED
    BY <2>1 DEF Refused, UpdateRefused, Fault, CanFail, Undivided
<1>3. CASE UNCHANGED vars
  <2>1. UNCHANGED <<vr, restore, pc, job, bsl>> /\ UNCHANGED Obj
    BY <1>3 DEF vars, Obj
  <2>2. UNCHANGED LoopCovers
    BY <2>1 DEF LoopCovers
  <2> QED
    BY <1>1, <2>1, <2>2 DEF CoverInv, CoverBase, Covering
<1> QED
  BY <1>1, <1>2, <1>3, CoverEnvironment, CoverBegin, CoverMark, CoverPlan, CoverCreate, CoverCleanup,
     CoverWrite DEF Next, Reconcile, CoverInv

(* A Restore that reports Finished has restored each kind of backup that   *)
(* its spec asks for, for any cycles and specs: also where it waited for   *)
(* the activation credentials and their PVCs between two passes, and newer *)
(* backups came or old ones went meanwhile.  Every other disturbance loses *)
(* a part of the work of initVeleroRestores that no later pass makes up    *)
(* for; a lost storage location only where managed clusters are asked for. *)
THEOREM FinishedHasAll ==
    ASSUME Lagging = {},
           Faults \subseteq {"backupGone", "blocked", "bsl", "taskError"},
           "bsl" \in Faults => \A spec \in Specs : spec.mc = skip
    PROVE  Spec => []FinishedCoversSpec
<1>0. Undivided
  BY DEF Undivided
<1>1. CoverInv /\ [Next]_vars => CoverInv'
  BY <1>0, CoverStep
<1>2. CoverInv => FinishedCoversSpec
  <2> SUFFICES ASSUME CoverInv, restore.phase = "Finished", NEW t \in Asked, SpecName(restore.spec, t) # skip
               PROVE  \E c \in Cycles : vr[<<t, c, FALSE>>] = "Completed"
    BY DEF FinishedCoversSpec, Asked
  <2>1. pc = "idle" /\ AllCompleted(restore)
    BY DEF CoverInv, SoundInv, Terminal
  <2>2. Anchored(restore.tracked, vr, t)
    BY <2>1 DEF CoverInv, Covering, Covers, Obj
  <2>3. t \in BackupTypes /\ restore.tracked[t] \in Cycles
    BY <2>2, CoverTypes DEF CoverInv, Asked, Anchored, Restores
  <2>4. <<t, restore.tracked[t], FALSE>> \in getLatestVeleroRestores(restore, vr)
    BY <2>2, <2>3 DEF getLatestVeleroRestores, Existing, Ids, Anchored
  <2> QED
    BY <2>1, <2>3, <2>4 DEF AllCompleted
<1> QED
  BY <1>0, <1>1, <1>2, CoverInit, PTL DEF Spec

=============================================================================
