----------------------- MODULE RestoreReconcilerProofs -----------------------
(***************************************************************************)
(* Theorems about RestoreReconciler, for every value of its constants.     *)
(***************************************************************************)
EXTENDS RestoreReconciler, FiniteSetTheorems, WellFoundedInduction, TLAPS

-----------------------------------------------------------------------------
(* What the helpers return.                                                *)

(* The error phase is one of the phases and never a final one.             *)
LEMMA ErrorPhaseType ==
    ASSUME NEW spec
    PROVE  ErrorPhase(spec) \in Phases \ Terminal
BY DEF ErrorPhase, Phases, Terminal

(* updateRestoreStatus keeps the spec and the tracked names.               *)
LEMMA UpdateStatusType ==
    ASSUME NEW obj \in Restores, NEW phase \in Phases, NEW about \in BOOLEAN
    PROVE  /\ updateRestoreStatus(obj, phase, about) \in Restores
           /\ updateRestoreStatus(obj, phase, about).spec = obj.spec
           /\ updateRestoreStatus(obj, phase, about).tracked = obj.tracked
<1>1. (obj.completed \/ phase \in Terminal) \in BOOLEAN
  OBVIOUS
<1> QED
  BY <1>1, ErrorPhaseType DEF updateRestoreStatus, Restores

(* So does the assignment of a phase.                                      *)
LEMMA WithType ==
    ASSUME NEW obj \in Restores, NEW phase \in Phases
    PROVE  /\ With(obj, phase) \in Restores
           /\ With(obj, phase).spec = obj.spec
           /\ With(obj, phase).tracked = obj.tracked
           /\ With(obj, phase).phase = phase
BY DEF With, Restores

(* The results of setRestorePhase: the phase and the message may change,   *)
(* nothing else; Finished comes from Velero restores that all completed,   *)
(* or from there being none.                                               *)
LEMMA SetRestorePhaseCases ==
    ASSUME NEW obj, NEW v, NEW r \in setRestorePhase(obj, v)
    PROVE  \/ r = PhaseResult(obj, FALSE)
           \/ \E p \in Phases \ {"Finished"}, b \in BOOLEAN : r = PhaseResult(With(obj, p), b)
           \/ /\ r = PhaseResult(With(obj, "Finished"), FALSE)
              /\ \/ Existing(v) = {}
                 \/ \A id \in getLatestVeleroRestores(obj, v) : v[id] = "Completed"
<1> DEFINE current  == getLatestVeleroRestores(obj, v)
           decisive == {id \in current : Decides(v[id])}
           partial  == \E id \in current :
                          v[id] \in {"FinalizingPartiallyFailed", "PartiallyFailed"}
           Changed  == \E p \in Phases \ {"Finished"}, b \in BOOLEAN :
                          r = PhaseResult(With(obj, p), b)
<1>p. {"Started", "Running", "Error", "EnabledError", "Enabled", "FinishedWithErrors"}
        \subseteq Phases \ {"Finished"}
  BY DEF Phases
<1>1. CASE obj.phase = "Enabled" /\ obj.spec.sync
  BY <1>1 DEF setRestorePhase
<1>2. CASE ~(obj.phase = "Enabled" /\ obj.spec.sync) /\ Existing(v) = {}
  <2>1. r = PhaseResult(With(obj, IF isSkipAllRestores(obj.spec) THEN "Finished" ELSE "Started"), FALSE)
    BY <1>2 DEF setRestorePhase
  <2> QED
    BY <2>1, <1>2, <1>p
<1>3. CASE /\ ~(obj.phase = "Enabled" /\ obj.spec.sync) /\ Existing(v) # {}
           /\ decisive # {}
  <2>1. PICK id \in decisive : r = FromVeleroPhase(obj, v[id])
    BY <1>3 DEF setRestorePhase
  <2>2. Changed
    BY <2>1, <1>p DEF FromVeleroPhase
  <2> QED
    BY <2>2
<1>4. CASE /\ ~(obj.phase = "Enabled" /\ obj.spec.sync) /\ Existing(v) # {}
           /\ decisive = {}
  <2>1. CASE isValidSyncOptions(obj.spec) /\ obj.spec.mc = skip
    <3>1. r = PhaseResult(With(obj, "Enabled"), TRUE)
      BY <1>4, <2>1 DEF setRestorePhase
    <3> QED
      BY <3>1, <1>p
  <2>2. CASE /\ ~(isValidSyncOptions(obj.spec) /\ obj.spec.mc = skip)
             /\ \A id \in current : isVeleroRestoreFinished(v[id])
    <3>1. r = PhaseResult(With(obj, IF partial THEN "FinishedWithErrors" ELSE "Finished"), FALSE)
      BY <1>4, <2>2 DEF setRestorePhase
    <3>2. ASSUME ~partial PROVE \A id \in current : v[id] = "Completed"
      BY <1>4, <2>2, <3>2 DEF isVeleroRestoreFinished, Decides
    <3> QED
      BY <3>1, <3>2, <1>p
  <2>3. CASE /\ ~(isValidSyncOptions(obj.spec) /\ obj.spec.mc = skip)
             /\ ~ \A id \in current : isVeleroRestoreFinished(v[id])
    BY <1>4, <2>3 DEF setRestorePhase
  <2> QED
    BY <2>1, <2>2, <2>3
<1> QED
  BY <1>1, <1>2, <1>3, <1>4

(* setRestorePhase keeps the spec and the tracked names.                   *)
LEMMA SetRestorePhaseType ==
    ASSUME NEW obj \in Restores, NEW v, NEW r \in setRestorePhase(obj, v)
    PROVE  /\ r.obj \in Restores
           /\ r.obj.spec = obj.spec
           /\ r.obj.tracked = obj.tracked
           /\ r.cleanup \in BOOLEAN
<1>1. CASE r = PhaseResult(obj, FALSE)
  BY <1>1 DEF PhaseResult
<1>2. ASSUME NEW p \in Phases, NEW b \in BOOLEAN, r = PhaseResult(With(obj, p), b)
      PROVE  /\ r.obj \in Restores
             /\ r.obj.spec = obj.spec
             /\ r.obj.tracked = obj.tracked
             /\ r.cleanup \in BOOLEAN
  BY <1>2, WithType DEF PhaseResult
<1>3. "Finished" \in Phases
  BY DEF Phases
<1> QED
  BY <1>1, <1>2, <1>3, SetRestorePhaseCases

(* A new pass and the state between passes.                                *)
LEMMA NewRestoreType ==
    ASSUME NEW spec \in Specs
    PROVE  NewRestore(spec) \in Restores
BY DEF NewRestore, Restores, NoTracked, Phases, NoCycle

LEMMA NoJobType == NoJob \in Jobs
<1>1. (CHOOSE spec \in Specs : TRUE) \in Specs
  BY ConstantsAssumption
<1> QED
  BY <1>1, NewRestoreType DEF NoJob, Jobs

LEMMA NewJobType ==
    ASSUME NEW obj \in Restores, NEW stale \in BOOLEAN
    PROVE  NewJob(obj, stale) \in Jobs
<1>1. (Existing(vrSeen) = {}) \in BOOLEAN /\ areTrackedRestoresMissing(obj, vrSeen) \in BOOLEAN
  BY DEF areTrackedRestoresMissing
<1>2. isPVCInitializationStep(obj.spec, vrSeen) \in SUBSET BOOLEAN
  BY DEF isPVCInitializationStep
<1> QED
  BY <1>1, <1>2 DEF NewJob, Jobs

-----------------------------------------------------------------------------
(* Type correctness.                                                       *)

(* A step of initVeleroRestores plans existing keys and known cycles.      *)
LEMMA RetrieveType ==
    ASSUME NEW spec, NEW only
    PROVE  retrieveRestoreDetails(spec, only) \subseteq Keys \X Cycles
BY DEF retrieveRestoreDetails, RestoreKeys

LEMMA BackupTypeOfType ==
    ASSUME NEW k \in Keys
    PROVE  BackupTypeOf(k) \in BackupTypes
BY DEF Keys, Active, BackupTypes, BackupTypeOf

LEMMA RestoreIdType ==
    ASSUME NEW spec, NEW e \in Keys \X Cycles
    PROVE  RestoreId(spec, e) \in Ids
<1>1. e[1] \in Keys /\ e[2] \in Cycles
  OBVIOUS
<1>2. (e[1] \in Active /\ SpecName(spec, e[1]) # skip) \in BOOLEAN
  OBVIOUS
<1> QED
  BY <1>1, <1>2, BackupTypeOfType DEF RestoreId, Ids

(* Track records a key of the loop in the status.                          *)
LEMMA TrackType ==
    ASSUME NEW obj \in Restores, NEW e \in Keys \X Cycles
    PROVE  /\ Track(obj, e) \in Restores
           /\ Track(obj, e).spec = obj.spec
           /\ Track(obj, e).phase = obj.phase
<1>1. e[1] \in Keys /\ e[2] \in Cycles
  OBVIOUS
<1>2. CASE e[1] \in Active
  BY <1>2 DEF Track
<1>3. CASE e[1] \notin Active
  <2>1. e[1] \in BackupTypes
    BY <1>1, <1>3 DEF Keys
  <2>2. [obj.tracked EXCEPT ![e[1]] = e[2]] \in [BackupTypes -> Cycles \cup {NoCycle}]
    BY <1>1, <2>1 DEF Restores
  <2>3. Track(obj, e) = [obj EXCEPT !.tracked = [obj.tracked EXCEPT ![e[1]] = e[2]]]
    BY <1>3 DEF Track, Restores
  <2> QED
    BY <2>2, <2>3 DEF Restores
<1> QED
  BY <1>2, <1>3

(* The writes to the API server keep the types of what they write.         *)
LEMMA VRChangedType ==
    ASSUME vrSeen \in [Ids -> VeleroPhases], NEW v \in [Ids -> VeleroPhases], VRChanged(v)
    PROVE  vr' \in [Ids -> VeleroPhases] /\ vrSeen' \in [Ids -> VeleroPhases]
BY DEF VRChanged

LEMMA RestoreChangedType ==
    ASSUME cached \in Restores, fresh \in BOOLEAN, NEW obj \in Restores, RestoreChanged(obj)
    PROVE  restore' \in Restores /\ cached' \in Restores /\ fresh' \in BOOLEAN
BY DEF RestoreChanged

(* The end of an iteration of the creation loop.                           *)
LEMMA AfterCreateType ==
    ASSUME NEW e \in Keys \X Cycles, NEW j \in Jobs, AfterCreate(e, j)
    PROVE  pc' \in PCs /\ job' \in Jobs
<1>1. With(j.obj, "Started") \in Restores
  BY WithType DEF Jobs, Phases
<1>2. noNewVeleroRestore(j) \in BOOLEAN
  BY DEF noNewVeleroRestore
<1>3. CASE /\ e[1] = "CredentialsActive" /\ j.gated
           /\ processRestoreWait(RestoreId(j.obj.spec, e))
  BY <1>1, <1>3 DEF AfterCreate, Jobs, PCs
<1>4. CASE ~(/\ e[1] = "CredentialsActive" /\ j.gated
             /\ processRestoreWait(RestoreId(j.obj.spec, e)))
  <2>1. CASE j.todo \ {e} # {}
    BY <1>4, <2>1 DEF AfterCreate, Jobs, PCs
  <2>2. CASE j.todo \ {e} = {}
    <3>1. /\ pc' = "cleanup"
          /\ job' = [j EXCEPT !.todo = {},
                        !.obj = IF j.created THEN With(j.obj, "Started") ELSE j.obj,
                        !.eligible = noNewVeleroRestore(j)]
      BY <1>4, <2>2 DEF AfterCreate
    <3>2. (IF j.created THEN With(j.obj, "Started") ELSE j.obj) \in Restores
      BY <1>1 DEF Jobs
    <3> QED
      BY <1>2, <3>1, <3>2 DEF Jobs, PCs
  <2> QED
    BY <2>1, <2>2
<1> QED
  BY <1>3, <1>4

LEMMA TypeInit == Init => TypeOK
<1> SUFFICES ASSUME Init PROVE TypeOK
  OBVIOUS
<1>1. backups \subseteq BackupTypes \X Cycles
  BY ConstantsAssumption DEF Init
<1>2. vr \in [Ids -> VeleroPhases] /\ vrSeen \in [Ids -> VeleroPhases]
  BY DEF Init, VeleroPhases
<1>3. restore \in Restores /\ cached \in Restores
  BY NewRestoreType DEF Init
<1> QED
  <2>1. gone \subseteq BackupTypes \X Cycles /\ posts \in 0..PostCap /\ faults \in Nat
    BY DEF Init, PostCap
  <2>2. pc \in PCs /\ job \in Jobs
    BY NoJobType DEF Init, PCs
  <2>3. /\ fresh \in BOOLEAN /\ bsl \in BOOLEAN /\ pvcReady \in BOOLEAN
        /\ otherActive \in BOOLEAN /\ queued \in BOOLEAN /\ timer \in BOOLEAN
    BY DEF Init
  <2> QED
    BY <1>1, <1>2, <1>3, <2>1, <2>2, <2>3 DEF TypeOK

LEMMA TypeBegin ==
    ASSUME TypeOK, Begin
    PROVE  TypeOK'
<1> DEFINE j == NewJob(cached, ~fresh)
<1>1. cached \in Restores /\ (~fresh) \in BOOLEAN
  BY DEF TypeOK
<1>2. j \in Jobs
  BY <1>1, NewJobType
<1>3. ASSUME NEW p \in {"Error", "FinishedWithErrors"}, NEW about \in BOOLEAN, NEW again \in BOOLEAN,
             NEW result, result = updateRestoreStatus(cached, p, about),
             job' = [j EXCEPT !.obj = result, !.after = again,
                              !.touched = result.phase \in Terminal]
      PROVE  job' \in Jobs
  <2>1. p \in Phases
    BY DEF Phases
  <2>2. result \in Restores
    BY <1>1, <1>3, <2>1, UpdateStatusType
  <2>3. (result.phase \in Terminal) \in BOOLEAN
    OBVIOUS
  <2> HIDE DEF j
  <2> QED
    BY <1>2, <1>3, <2>2, <2>3 DEF Jobs
<1>4. pc' \in PCs /\ job' \in Jobs
  <2>1. CASE Return
    BY <2>1, NoJobType DEF Return, PCs
  <2>2. ASSUME NEW r \in setRestorePhase(cached, vrSeen), job' = [j EXCEPT !.obj = r.obj]
        PROVE  job' \in Jobs
    <3>1. r.obj \in Restores
      BY <1>1, SetRestorePhaseType
    <3> HIDE DEF j
    <3> QED
      BY <2>2, <1>2, <3>1 DEF Jobs
  <2> QED
    BY <1>2, <1>3, <2>1, <2>2 DEF Begin, PCs
<1> QED
  BY <1>4 DEF Begin, TypeOK, apiVars, envVars

LEMMA TypeReconcile ==
    ASSUME TypeOK, Reconcile
    PROVE  TypeOK'
<1>1. CASE Begin
  BY <1>1, TypeBegin
<1>2. CASE MarkStarted
  <2>1. With(job.obj, "Started") \in Restores
    BY WithType DEF TypeOK, Jobs, Phases
  <2>2. restore' \in Restores /\ cached' \in Restores /\ fresh' \in BOOLEAN
    BY <1>2, <2>1, RestoreChangedType DEF MarkStarted, TypeOK
  <2>3. job' \in Jobs
    BY <1>2, <2>1 DEF MarkStarted, TypeOK, Jobs
  <2> QED
    BY <1>2, <2>2, <2>3 DEF MarkStarted, TypeOK, PCs, envVars
<1>3. CASE Plan
  <2>1. updateRestoreStatus(job.obj, "Finished", FALSE) \in Restores
    BY UpdateStatusType DEF TypeOK, Jobs, Phases
  <2>2. updateRestoreStatus(job.obj, "Error", FALSE) \in Restores
    BY UpdateStatusType DEF TypeOK, Jobs, Phases
  <2>3. pc' \in PCs /\ job' \in Jobs
    <3>1. \/ job' = [job EXCEPT !.eligible = TRUE]
          \/ job' = [job EXCEPT !.obj = updateRestoreStatus(job.obj, "Finished", FALSE),
                                !.touched = TRUE]
          \/ job' = [job EXCEPT !.obj = updateRestoreStatus(job.obj, "Error", FALSE),
                                !.after = TRUE]
          \/ \E only \in BOOLEAN :
                LET plan == retrieveRestoreDetails(job.obj.spec, only)
                IN  job' = [job EXCEPT !.todo = plan,
                                !.gated = \E e \in plan : e[1] = "ManagedClusters"]
      BY <1>3 DEF Plan
    <3>2. ASSUME NEW only \in BOOLEAN, NEW g \in BOOLEAN
          PROVE  [job EXCEPT !.todo = retrieveRestoreDetails(job.obj.spec, only),
                             !.gated = g] \in Jobs
      <4>1. job \in Jobs
        BY DEF TypeOK
      <4>2. ASSUME NEW todo \in SUBSET (Keys \X Cycles)
            PROVE  [job EXCEPT !.todo = todo, !.gated = g] \in Jobs
        BY <4>1 DEF Jobs
      <4> QED
        BY <4>2, RetrieveType
    <3>3. job' \in Jobs
      <4>1. /\ [job EXCEPT !.eligible = TRUE] \in Jobs
            /\ [job EXCEPT !.obj = updateRestoreStatus(job.obj, "Finished", FALSE),
                           !.touched = TRUE] \in Jobs
            /\ [job EXCEPT !.obj = updateRestoreStatus(job.obj, "Error", FALSE),
                           !.after = TRUE] \in Jobs
        BY <2>1, <2>2 DEF TypeOK, Jobs
      <4>2. ASSUME NEW only \in BOOLEAN
            PROVE  LET plan == retrieveRestoreDetails(job.obj.spec, only)
                   IN  [job EXCEPT !.todo = plan,
                            !.gated = \E e \in plan : e[1] = "ManagedClusters"] \in Jobs
        BY <3>2
      <4> QED
        BY <3>1, <4>1, <4>2
    <3>4. pc' \in PCs
      BY <1>3 DEF Plan, PCs
    <3> QED
      BY <3>3, <3>4
  <2>4. faults' \in Nat
    <3>1. UNCHANGED faults \/ Fault("listError")
      BY <1>3 DEF Plan
    <3> QED
      BY <3>1 DEF Fault, TypeOK
  <2> QED
    BY <1>3, <2>3, <2>4 DEF Plan, TypeOK, apiVars, envVars
<1>4. CASE Create
  <2>1. PICK e \in job.todo :
          LET id == RestoreId(job.obj.spec, e)
          IN  \/ /\ Fault("createError")
                 /\ VRUnchanged
                 /\ AfterCreate(e, [job EXCEPT !.failed = TRUE])
              \/ /\ VRUnchanged
                 /\ AfterCreate(e, IF e[1] \in {"Credentials", "ResourcesGeneric"}
                                   THEN [job EXCEPT !.obj = Track(@, e)] ELSE job)
                 /\ UNCHANGED faults
              \/ /\ VRChanged([vr EXCEPT ![id] = "New"])
                 /\ AfterCreate(e, [job EXCEPT !.obj = Track(@, e), !.created = TRUE])
                 /\ UNCHANGED faults
    BY <1>4 DEF Create
  <2>2. e \in Keys \X Cycles /\ job \in Jobs /\ job.obj \in Restores
    BY DEF TypeOK, Jobs
  <2>3. Track(job.obj, e) \in Restores
    BY <2>2, TrackType
  <2>4. /\ [job EXCEPT !.failed = TRUE] \in Jobs
        /\ [job EXCEPT !.obj = Track(@, e)] \in Jobs
        /\ [job EXCEPT !.obj = Track(@, e), !.created = TRUE] \in Jobs
    BY <2>2, <2>3 DEF Jobs
  <2>5. pc' \in PCs /\ job' \in Jobs
    BY <2>1, <2>2, <2>4, AfterCreateType
  <2>6. vr' \in [Ids -> VeleroPhases] /\ vrSeen' \in [Ids -> VeleroPhases]
    <3>1. [vr EXCEPT ![RestoreId(job.obj.spec, e)] = "New"] \in [Ids -> VeleroPhases]
      BY DEF TypeOK, VeleroPhases
    <3> QED
      BY <2>1, <3>1, VRChangedType DEF TypeOK, VRUnchanged
  <2>7. faults' \in Nat
    BY <2>1 DEF Fault, TypeOK
  <2>8. queued' \in BOOLEAN
    BY <1>4 DEF Create
  <2> QED
    BY <1>4, <2>5, <2>6, <2>7, <2>8 DEF Create, TypeOK, RestoreUnchanged, envVars
<1>5. CASE Cleanup
  <2>1. ASSUME NEW obj \in Restores, NEW stamped \in BOOLEAN, Conclude(obj, stamped)
        PROVE  /\ vr' \in [Ids -> VeleroPhases] /\ vrSeen' \in [Ids -> VeleroPhases]
               /\ pc' \in PCs /\ job' \in Jobs
    <3>1. [id \in Ids |-> IF id \in Orphans(obj) THEN "absent" ELSE vr[id]]
            \in [Ids -> VeleroPhases]
      BY DEF TypeOK, VeleroPhases
    <3>2. (obj.completed \/ stamped) \in BOOLEAN
      OBVIOUS
    <3>3. [obj EXCEPT !.completed = @ \/ stamped] \in Restores
      BY <3>2 DEF Restores
    <3>4. /\ (job.touched \/ stamped \/ (obj.spec.sync /\ ~isValidSyncOptions(obj.spec))) \in BOOLEAN
          /\ (obj.spec.sync /\ IsPhaseEnabled(obj)) \in BOOLEAN
      OBVIOUS
    <3>5. job' \in Jobs
      <4>1. job \in Jobs
        BY DEF TypeOK
      <4>2. ASSUME NEW o \in Restores, NEW touched \in BOOLEAN, NEW after \in BOOLEAN
            PROVE  [job EXCEPT !.obj = o, !.touched = touched, !.after = after] \in Jobs
        BY <4>1 DEF Jobs
      <4> QED
        BY <2>1, <3>3, <3>4, <4>2 DEF Conclude
    <3> QED
      BY <2>1, <3>1, <3>5, VRChangedType DEF Conclude, TypeOK, PCs
  <2>2. job.obj \in Restores
    BY DEF TypeOK, Jobs
  <2>3. \E obj \in Restores, stamped \in BOOLEAN : Conclude(obj, stamped)
    <3>1. CASE job.eligible
      <4>1. PICK r \in setRestorePhase(job.obj, vrSeen) :
              Conclude(r.obj, r.cleanup \/ r.obj.phase \in Terminal)
        BY <1>5, <3>1 DEF Cleanup
      <4>2. r.obj \in Restores /\ (r.cleanup \/ r.obj.phase \in Terminal) \in BOOLEAN
        BY <2>2, SetRestorePhaseType
      <4> QED
        BY <4>1, <4>2
    <3>2. CASE ~job.eligible
      BY <1>5, <2>2, <3>2 DEF Cleanup
    <3> QED
      BY <3>1, <3>2
  <2>4. posts' \in 0..PostCap
    <3>1. posts' = posts \/ (posts < PostCap /\ posts' = posts + 1)
      BY <1>5 DEF Cleanup, executePostRestoreTasks
    <3> QED
      BY <3>1 DEF TypeOK, PostCap
  <2>5. queued' \in BOOLEAN
    BY <1>5 DEF Cleanup
  <2>6. faults' \in Nat
    <3>1. faults' = faults \/ faults' = faults + 1
      BY <1>5 DEF Cleanup, executePostRestoreTasks, Fault
    <3> QED
      BY <3>1 DEF TypeOK
  <2> QED
    BY <1>5, <2>1, <2>3, <2>4, <2>5, <2>6 DEF Cleanup, TypeOK, RestoreUnchanged, envVars
<1>6. CASE WriteStatus
  <2>1. job.obj \in Restores
    BY DEF TypeOK, Jobs
  <2>2. restore' \in Restores /\ cached' \in Restores /\ fresh' \in BOOLEAN
    BY <1>6, <2>1, RestoreChangedType DEF WriteStatus, RestoreUnchanged, TypeOK
  <2>3. queued' \in BOOLEAN /\ timer' \in BOOLEAN
    BY <1>6 DEF WriteStatus, TypeOK
  <2> QED
    BY <1>6, <2>2, <2>3, NoJobType DEF WriteStatus, TypeOK, Return, PCs, envVars
<1>7. CASE Refused
  BY <1>7, NoJobType DEF Refused, UpdateRefused, TypeOK, Return, PCs, Fault, apiVars, envVars
<1> QED
  BY <1>1, <1>2, <1>3, <1>4, <1>5, <1>6, <1>7 DEF Reconcile

LEMMA TypeEnvironment ==
    ASSUME TypeOK, Environment
    PROVE  TypeOK'
<1> USE DEF TypeOK, apiVars, envVars, Fault, VRUnchanged, RestoreUnchanged
<1>1. CASE RequeueAfter
  BY <1>1 DEF RequeueAfter
<1>2. ASSUME NEW spec \in Specs, UserEdit(spec) PROVE TypeOK'
  <2>1. [restore EXCEPT !.spec = spec] \in Restores
    BY DEF Restores
  <2>2. restore' \in Restores /\ cached' \in Restores /\ fresh' \in BOOLEAN
    BY <1>2, <2>1, RestoreChangedType DEF UserEdit
  <2>3. job' \in Jobs
    BY <1>2 DEF UserEdit, Jobs
  <2>4. queued' \in BOOLEAN /\ faults' \in Nat
    BY <1>2 DEF UserEdit
  <2> QED
    BY <1>2, <2>2, <2>3, <2>4 DEF UserEdit
<1>3. CASE RestoreInformer
  BY <1>3 DEF RestoreInformer
<1>4. CASE VeleroRestoreInformer
  BY <1>4 DEF VeleroRestoreInformer
<1>5. ASSUME NEW id \in Ids, VeleroStep(id) PROVE TypeOK'
  <2>1. PICK p \in VeleroNext(vr[id]) : VRChanged([vr EXCEPT ![id] = p])
    BY <1>5 DEF VeleroStep
  <2>2. p \in VeleroPhases
    BY ConstantsAssumption DEF VeleroNext, VeleroPhases
  <2>3. [vr EXCEPT ![id] = p] \in [Ids -> VeleroPhases]
    BY <2>2
  <2>4. vr' \in [Ids -> VeleroPhases] /\ vrSeen' \in [Ids -> VeleroPhases]
    BY <2>1, <2>3, VRChangedType
  <2>5. queued' \in BOOLEAN
    BY <1>5 DEF VeleroStep
  <2> QED
    BY <1>5, <2>4, <2>5 DEF VeleroStep
<1>6. ASSUME NEW id \in Ids, VeleroRestoreDeleted(id) PROVE TypeOK'
  <2>1. [vr EXCEPT ![id] = "absent"] \in [Ids -> VeleroPhases]
    BY DEF VeleroPhases
  <2>2. vr' \in [Ids -> VeleroPhases] /\ vrSeen' \in [Ids -> VeleroPhases]
    BY <1>6, <2>1, VRChangedType DEF VeleroRestoreDeleted
  <2>3. queued' \in BOOLEAN
    BY <1>6 DEF VeleroRestoreDeleted
  <2> QED
    BY <1>6, <2>2, <2>3 DEF VeleroRestoreDeleted
<1>7. ASSUME NEW b \in BackupTypes \X Cycles, BackupSynced(b) \/ BackupDeleted(b)
      PROVE  TypeOK'
  BY <1>7 DEF BackupSynced, BackupDeleted
<1>8. CASE StorageLost \/ StorageBack
  <2>1. bsl' \in BOOLEAN
    BY <1>8 DEF StorageLost, StorageBack
  <2>2. faults' \in Nat
    BY <1>8 DEF StorageLost, StorageBack
  <2> QED
    BY <1>8, <2>1, <2>2 DEF StorageLost, StorageBack
<1>9. CASE PVCsCreated
  BY <1>9 DEF PVCsCreated
<1>10. CASE OtherStarts \/ OtherEnds
  <2>1. otherActive' \in BOOLEAN
    BY <1>10 DEF OtherStarts, OtherEnds
  <2>2. faults' \in Nat
    BY <1>10 DEF OtherStarts, OtherEnds
  <2> QED
    BY <1>10, <2>1, <2>2 DEF OtherStarts, OtherEnds
<1>11. CASE OperatorRestart
  <2>1. queued' \in BOOLEAN /\ timer' \in BOOLEAN /\ fresh' \in BOOLEAN
    BY <1>11 DEF OperatorRestart
  <2>2. faults' \in Nat
    BY <1>11 DEF OperatorRestart
  <2>3. pc' \in PCs /\ job' \in Jobs
    BY <1>11, NoJobType DEF OperatorRestart, Return, PCs
  <2> QED
    BY <1>11, <2>1, <2>2, <2>3 DEF OperatorRestart
<1> QED
  BY <1>1, <1>2, <1>3, <1>4, <1>5, <1>6, <1>7, <1>8, <1>9, <1>10, <1>11 DEF Environment

(* Every reachable state of the controller and its surroundings has its    *)
(* type: whatever is interleaved, the status only names API phases and     *)
(* backup cycles, and a pass is always at one of its program points.       *)
THEOREM TypeCorrect == Spec => []TypeOK
<1>1. TypeOK /\ [Next]_vars => TypeOK'
  <2> SUFFICES ASSUME TypeOK, [Next]_vars PROVE TypeOK'
    OBVIOUS
  <2>1. CASE UNCHANGED vars
    BY <2>1 DEF vars, TypeOK
  <2> QED
    BY <2>1, TypeReconcile, TypeEnvironment DEF Next
<1> QED
  BY <1>1, TypeInit, PTL DEF Spec

-----------------------------------------------------------------------------
(* A final phase is final.                                                 *)

(* A pass whose copy of the Restore is current only runs while the Restore *)
(* is not done: the early return of Reconcile saw that very copy, and every*)
(* foreign write since would have made the copy stale.                     *)
CopyInv ==
    /\ TypeOK
    /\ fresh => cached = restore
    /\ (pc # "idle" /\ ~job.stale) => restore.phase \notin Terminal

LEMMA CopyInit == Init => CopyInv
BY TypeInit DEF Init, CopyInv

LEMMA CopyStep ==
    ASSUME CopyInv, [Next]_vars
    PROVE  CopyInv'
<1>t. TypeOK'
  <2>1. CASE UNCHANGED vars
    BY <2>1 DEF vars, CopyInv, TypeOK
  <2> QED
    BY <2>1, TypeReconcile, TypeEnvironment DEF Next, CopyInv
<1> SUFFICES /\ fresh' => cached' = restore'
             /\ (pc' # "idle" /\ ~job'.stale) => restore'.phase \notin Terminal
  BY <1>t DEF CopyInv
<1> USE DEF CopyInv
<1>1. CASE Begin
  <2>1. UNCHANGED <<restore, cached, fresh>>
    BY <1>1 DEF Begin, apiVars
  <2>2. pc' # "idle" => cached.phase \notin Terminal
    BY <1>1 DEF Begin, Return, IsCompleted
  <2>3. pc' # "idle" => job'.stale = ~fresh
    <3>1. NewJob(cached, ~fresh) \in Jobs
      BY NewJobType DEF TypeOK
    <3>2. NewJob(cached, ~fresh).stale = ~fresh
      BY DEF NewJob
    <3> QED
      BY <1>1, <3>1, <3>2 DEF Begin, Return, Jobs
  <2> QED
    BY <2>1, <2>2, <2>3
<1>2. CASE MarkStarted
  <2>1. RestoreChanged(With(job.obj, "Started"))
    BY <1>2 DEF MarkStarted
  <2>2. With(job.obj, "Started").phase = "Started"
    BY WithType DEF TypeOK, Jobs, Phases
  <2> QED
    BY <2>1, <2>2 DEF RestoreChanged, Terminal
<1>3. CASE Plan
  <2>1. job'.stale = job.stale
    BY <1>3 DEF Plan, TypeOK, Jobs
  <2> QED
    BY <1>3, <2>1 DEF Plan, apiVars
<1>4. CASE Create
  <2>1. ASSUME NEW e, NEW j \in Jobs, j.stale = job.stale, AfterCreate(e, j)
        PROVE  job'.stale = job.stale
    BY <2>1 DEF AfterCreate, Jobs
  <2>2. PICK e \in job.todo :
          \/ AfterCreate(e, [job EXCEPT !.failed = TRUE])
          \/ AfterCreate(e, IF e[1] \in {"Credentials", "ResourcesGeneric"}
                            THEN [job EXCEPT !.obj = Track(@, e)] ELSE job)
          \/ AfterCreate(e, [job EXCEPT !.obj = Track(@, e), !.created = TRUE])
    BY <1>4 DEF Create
  <2>3. e \in Keys \X Cycles /\ job \in Jobs /\ job.obj \in Restores
    BY DEF TypeOK, Jobs
  <2>4. Track(job.obj, e) \in Restores
    BY <2>3, TrackType
  <2>5. /\ [job EXCEPT !.failed = TRUE] \in Jobs
        /\ [job EXCEPT !.failed = TRUE].stale = job.stale
        /\ [job EXCEPT !.obj = Track(@, e)] \in Jobs
        /\ [job EXCEPT !.obj = Track(@, e)].stale = job.stale
        /\ [job EXCEPT !.obj = Track(@, e), !.created = TRUE] \in Jobs
        /\ [job EXCEPT !.obj = Track(@, e), !.created = TRUE].stale = job.stale
    BY <2>3, <2>4 DEF Jobs
  <2>6. job'.stale = job.stale
    BY <2>1, <2>2, <2>3, <2>5
  <2> QED
    BY <1>4, <2>6 DEF Create, RestoreUnchanged
<1>5. CASE Cleanup
  <2>1. job'.stale = job.stale
    BY <1>5 DEF Cleanup, Conclude, TypeOK, Jobs
  <2> QED
    BY <1>5, <2>1 DEF Cleanup, RestoreUnchanged
<1>6. CASE WriteStatus
  <2>1. pc' = "idle"
    BY <1>6 DEF WriteStatus, Return
  <2>2. CASE RestoreChanged(job.obj)
    BY <2>1, <2>2 DEF RestoreChanged
  <2>3. CASE UNCHANGED <<restore, cached, fresh>>
    BY <2>1, <2>3
  <2> QED
    BY <1>6, <2>2, <2>3 DEF WriteStatus, RestoreUnchanged
<1>7. CASE Refused
  BY <1>7 DEF Refused, UpdateRefused, Return, apiVars
<1>8. ASSUME NEW spec \in Specs, UserEdit(spec)
      PROVE  /\ fresh' => cached' = restore'
             /\ (pc' # "idle" /\ ~job'.stale) => restore'.phase \notin Terminal
  <2>1. fresh' => cached' = restore'
    BY <1>8 DEF UserEdit, RestoreChanged
  <2>2. pc' # "idle" => job'.stale
    BY <1>8 DEF UserEdit, TypeOK, Jobs
  <2> QED
    BY <2>1, <2>2
<1>9. CASE RestoreInformer
  BY <1>9 DEF RestoreInformer
<1>10. CASE OperatorRestart
  BY <1>10 DEF OperatorRestart, Return
<1>11. CASE UNCHANGED vars
  BY <1>11 DEF vars
<1>12. ASSUME UNCHANGED <<restore, cached, fresh, pc, job>>
       PROVE  /\ fresh' => cached' = restore'
              /\ (pc' # "idle" /\ ~job'.stale) => restore'.phase \notin Terminal
  BY <1>12
<1>13. CASE RequeueAfter \/ VeleroRestoreInformer \/ StorageLost \/ StorageBack
              \/ PVCsCreated \/ OtherStarts \/ OtherEnds
              \/ (\E id \in Ids : VeleroStep(id) \/ VeleroRestoreDeleted(id))
              \/ (\E b \in BackupTypes \X Cycles : BackupSynced(b) \/ BackupDeleted(b))
  BY <1>12, <1>13 DEF RequeueAfter, VeleroRestoreInformer, StorageLost, StorageBack,
       PVCsCreated, OtherStarts, OtherEnds, VeleroStep, VeleroRestoreDeleted,
       BackupSynced, BackupDeleted, apiVars, RestoreUnchanged
<1> QED
  BY <1>1, <1>2, <1>3, <1>4, <1>5, <1>6, <1>7, <1>8, <1>9, <1>10, <1>11, <1>13
     DEF Next, Reconcile, Environment

(* The phase and the tracked names of a Restore that is Finished or        *)
(* FinishedWithErrors never change again, however late the informers are   *)
(* and whatever is interrupted: a pass that started from an older copy is  *)
(* refused by the resourceVersion check of its status update.              *)
THEOREM TerminalStaysFinal == Spec => TerminalIsFinal
<1> DEFINE Kept == restore.phase \in Terminal =>
                     restore'.phase = restore.phase /\ restore'.tracked = restore.tracked
<1>1. CopyInv /\ [Next]_vars => CopyInv'
  BY CopyStep
<1>2. CopyInv /\ [Next]_vars => [Kept]_vars
  <2> SUFFICES ASSUME CopyInv, Next PROVE Kept
    OBVIOUS
  <2>1. CASE UNCHANGED restore
    BY <2>1
  <2>2. CASE MarkStarted \/ WriteStatus
    BY <2>2 DEF MarkStarted, WriteStatus, CopyInv
  <2>3. ASSUME NEW spec \in Specs, UserEdit(spec) PROVE Kept
    BY <2>3 DEF UserEdit, RestoreChanged, CopyInv, TypeOK, Restores
  <2>4. CASE Begin \/ Plan \/ Create \/ Cleanup \/ Refused
    BY <2>1, <2>4 DEF Begin, Plan, Create, Cleanup, Refused, UpdateRefused,
         RestoreUnchanged, apiVars
  <2>5. CASE RequeueAfter \/ RestoreInformer \/ VeleroRestoreInformer \/ StorageLost
               \/ StorageBack \/ PVCsCreated \/ OtherStarts \/ OtherEnds \/ OperatorRestart
    BY <2>1, <2>5 DEF RequeueAfter, RestoreInformer, VeleroRestoreInformer, StorageLost,
         StorageBack, PVCsCreated, OtherStarts, OtherEnds, OperatorRestart, apiVars
  <2>6. CASE \/ \E id \in Ids : VeleroStep(id) \/ VeleroRestoreDeleted(id)
             \/ \E b \in BackupTypes \X Cycles : BackupSynced(b) \/ BackupDeleted(b)
    BY <2>1, <2>6 DEF VeleroStep, VeleroRestoreDeleted, BackupSynced, BackupDeleted,
         RestoreUnchanged
  <2> QED
    BY <2>2, <2>3, <2>4, <2>5, <2>6 DEF Next, Reconcile, Environment
<1> QED
  BY <1>1, <1>2, CopyInit, PTL DEF Spec, TerminalIsFinal

-----------------------------------------------------------------------------
(* What Finished says, as long as the informers are up to date.            *)

AllCompleted(obj) == \A id \in getLatestVeleroRestores(obj, vr) : vr[id] = "Completed"

(* The caches mirror the API server; a pass runs only while the Restore is *)
(* not done; a Restore, or the copy of it in a pass, is Finished only with *)
(* its Velero restores completed; and before the creation loop the copy is *)
(* not Finished, an empty list of Velero restores is still empty, and a    *)
(* pass that may take the PVC step has managed clusters to restore.        *)
SoundInv ==
    /\ TypeOK
    /\ vrSeen = vr /\ fresh = TRUE /\ cached = restore
    /\ pc # "idle" => restore.phase \notin Terminal
    /\ restore.phase = "Finished" => AllCompleted(restore)
    /\ (pc # "idle" /\ job.obj.phase = "Finished") => AllCompleted(job.obj)
    /\ pc \in {"mark", "plan", "create"} => job.obj.phase # "Finished"
    /\ (pc \in {"mark", "plan"} /\ job.empty) => Existing(vr) = {}
    /\ (pc \in {"mark", "plan"} /\ TRUE \in job.pvcStep) => job.obj.spec.mc # skip

LEMMA SoundInit == Init => SoundInv
<1> SUFFICES ASSUME Init PROVE SoundInv
  OBVIOUS
<1>1. restore.phase = ""
  <2>1. PICK spec \in Specs : restore = NewRestore(spec)
    BY DEF Init
  <2> QED
    BY <2>1 DEF NewRestore
<1>2. pc = "idle" /\ vrSeen = vr /\ cached = restore
  BY DEF Init
<1>3. fresh = TRUE
  BY DEF Init
<1> QED
  BY <1>1, <1>2, <1>3, TypeInit DEF SoundInv

(* A plan without entries means that the spec asks for nothing: a backup   *)
(* that it does ask for is in the plan or reported missing.                *)
LEMMA EmptyPlan ==
    ASSUME NEW spec, NEW only \in BOOLEAN,
           ~BackupMissing(spec, only), retrieveRestoreDetails(spec, only) = {}
    PROVE  spec.mc = skip /\ (~only => spec.creds = skip)
<1>1. ASSUME NEW k \in RestoreKeys(spec, only) \ (Active \cup {"ResourcesGeneric"}),
             SpecName(spec, k) # skip
      PROVE  FALSE
  <2>1. PICK c \in getVeleroBackupName(k, SpecName(spec, k)) : TRUE
    BY <1>1 DEF BackupMissing
  <2>2. c \in Cycles
    BY <2>1 DEF getVeleroBackupName
  <2>3. <<k, c>> \in retrieveRestoreDetails(spec, only)
    BY <1>1, <2>1, <2>2 DEF retrieveRestoreDetails
  <2> QED
    BY <2>3
<1>2. "ManagedClusters" \in RestoreKeys(spec, only) \ (Active \cup {"ResourcesGeneric"})
  BY DEF RestoreKeys, Keys, BackupTypes, Active
<1>3. ~only => "Credentials" \in RestoreKeys(spec, only) \ (Active \cup {"ResourcesGeneric"})
  BY DEF RestoreKeys, Keys, BackupTypes, Active
<1>4. SpecName(spec, "ManagedClusters") = spec.mc /\ SpecName(spec, "Credentials") = spec.creds
  BY DEF SpecName
<1> QED
  BY <1>1, <1>2, <1>3, <1>4

(* Removing Velero restores, or moving the unfinished ones on, keeps every *)
(* restore that counts completed.                                          *)
LEMMA AllCompletedKept ==
    ASSUME NEW obj, NEW obj2, obj2.tracked = obj.tracked, AllCompleted(obj),
           \A id \in Ids : vr'[id] # vr[id] => vr'[id] = "absent" \/ vr[id] \notin {"absent", "Completed"}
    PROVE  \A id \in getLatestVeleroRestores(obj2, vr') : vr'[id] = "Completed"
BY DEF AllCompleted, getLatestVeleroRestores, Existing

(* setRestorePhase computes Finished from completed restores only.         *)
LEMMA SetRestorePhaseDone ==
    ASSUME NEW obj \in Restores, NEW r \in setRestorePhase(obj, vr),
           obj.phase = "Finished" => AllCompleted(obj), r.obj.phase = "Finished"
    PROVE  AllCompleted(r.obj)
<1>1. CASE r = PhaseResult(obj, FALSE)
  BY <1>1 DEF PhaseResult
<1>2. CASE \E p \in Phases \ {"Finished"}, b \in BOOLEAN : r = PhaseResult(With(obj, p), b)
  BY <1>2, WithType DEF PhaseResult
<1>3. CASE /\ r = PhaseResult(With(obj, "Finished"), FALSE)
           /\ \/ Existing(vr) = {}
              \/ \A id \in getLatestVeleroRestores(obj, vr) : vr[id] = "Completed"
  <2>1. r.obj.tracked = obj.tracked
    BY SetRestorePhaseType
  <2> QED
    BY <1>3, <2>1 DEF AllCompleted, getLatestVeleroRestores
<1> QED
  BY <1>1, <1>2, <1>3, SetRestorePhaseCases

LEMMA SoundReconcile ==
    ASSUME Lagging = {}, "listError" \notin Faults, SoundInv, Reconcile
    PROVE  SoundInv'
<1>t. TypeOK /\ TypeOK'
  BY TypeReconcile DEF SoundInv
<1>j. job \in Jobs /\ job.obj \in Restores /\ vrSeen \in [Ids -> VeleroPhases]
  BY <1>t DEF TypeOK, Jobs
<1>c. vrSeen = vr /\ fresh = TRUE /\ cached = restore
  BY DEF SoundInv
<1>1. CASE Begin
  <2>1. UNCHANGED <<vr, vrSeen, restore, cached, fresh>>
    BY <1>1 DEF Begin, apiVars
  <2>2. restore \in Restores /\ NewJob(cached, ~fresh) \in Jobs
    BY <1>t, NewJobType DEF TypeOK
  <2>3. /\ NewJob(cached, ~fresh).obj = restore /\ (NewJob(cached, ~fresh).empty <=> Existing(vr) = {})
        /\ TRUE \in NewJob(cached, ~fresh).pvcStep => restore.spec.mc # skip
    BY <1>c DEF NewJob, isPVCInitializationStep
  <2>4. CASE pc' = "idle"
    BY <1>t, <1>c, <2>1, <2>4 DEF SoundInv, AllCompleted
  <2>5. CASE pc' # "idle"
    <3>1. restore.phase \notin Terminal
      BY <1>1, <1>c, <2>5 DEF Begin, Return, IsCompleted
    <3>2. \/ \E p \in {"Error", "FinishedWithErrors"}, about \in BOOLEAN :
               /\ pc' = "write"
               /\ job'.obj = updateRestoreStatus(restore, p, about)
          \/ /\ pc' = "write"
             /\ \E r \in setRestorePhase(restore, vr) : job'.obj = r.obj
          \/ pc' \in {"mark", "plan"} /\ job' = NewJob(cached, ~fresh)
      BY <1>1, <1>c, <2>2, <2>5 DEF Begin, Return, Jobs
    <3>3. CASE \E p \in {"Error", "FinishedWithErrors"}, about \in BOOLEAN :
                 /\ pc' = "write"
                 /\ job'.obj = updateRestoreStatus(restore, p, about)
      <4>1. job'.obj.phase # "Finished"
        BY <2>2, <3>3, ErrorPhaseType DEF updateRestoreStatus, Restores, Terminal
      <4> QED
        BY <1>t, <1>c, <2>1, <3>1, <3>3, <4>1 DEF SoundInv, AllCompleted
    <3>4. CASE /\ pc' = "write"
               /\ \E r \in setRestorePhase(restore, vr) : job'.obj = r.obj
      <4>1. PICK r \in setRestorePhase(restore, vr) : job'.obj = r.obj
        BY <3>4
      <4>2. r.obj.phase = "Finished" => AllCompleted(r.obj)
        BY <2>2, <3>1, SetRestorePhaseDone DEF Terminal
      <4> QED
        BY <1>t, <1>c, <2>1, <3>1, <3>4, <4>1, <4>2 DEF SoundInv, AllCompleted
    <3>5. CASE pc' \in {"mark", "plan"} /\ job' = NewJob(cached, ~fresh)
      BY <1>t, <1>c, <2>1, <2>3, <3>1, <3>5 DEF SoundInv, AllCompleted, Terminal
    <3> QED
      BY <3>2, <3>3, <3>4, <3>5
  <2> QED
    BY <2>4, <2>5
<1>2. CASE MarkStarted
  <2>1. With(job.obj, "Started") \in Restores /\ With(job.obj, "Started").phase = "Started"
    BY <1>j, WithType DEF Phases
  <2>2. /\ restore' = With(job.obj, "Started") /\ cached' = restore' /\ pc' = "plan"
        /\ job' = [job EXCEPT !.obj = With(job.obj, "Started")]
        /\ UNCHANGED <<vr, vrSeen>>
    BY <1>2 DEF MarkStarted, RestoreChanged
  <2>3. fresh' = TRUE
    BY <1>2, <1>c DEF MarkStarted, RestoreChanged
  <2>4. /\ job'.obj.phase = "Started" /\ job'.empty = job.empty
        /\ job'.pvcStep = job.pvcStep /\ job'.obj.spec = job.obj.spec
    BY <1>j, <2>1, <2>2, WithType DEF Jobs, Phases
  <2>5. pc = "mark"
    BY <1>2 DEF MarkStarted
  <2> QED
    BY <1>t, <1>c, <2>1, <2>2, <2>3, <2>4, <2>5 DEF SoundInv, Terminal
<1>3. CASE Plan
  <2>1. pc = "plan" /\ UNCHANGED <<vr, vrSeen, restore, cached, fresh>>
    BY <1>3 DEF Plan, apiVars
  <2>2. \/ pc' = "cleanup" /\ job'.obj = job.obj
        \/ pc' = "create" /\ job'.obj = job.obj
        \/ pc' = "write" /\ job'.obj = updateRestoreStatus(job.obj, "Error", FALSE)
        \/ /\ pc' = "cleanup" /\ job'.obj = updateRestoreStatus(job.obj, "Finished", FALSE)
           /\ \/ job.empty
              \/ /\ isValidSyncOptions(job.obj.spec) \/ job.obj.spec.mc # skip
                 /\ \E only \in BOOLEAN :
                      /\ only => job.obj.spec.mc = latest
                      /\ ~BackupMissing(job.obj.spec, only)
                      /\ retrieveRestoreDetails(job.obj.spec, only) = {}
    <3>1. TRUE \in job.pvcStep => job.obj.spec.mc # skip
      BY <2>1 DEF SoundInv
    <3> QED
      BY <1>3, <1>j, <3>1 DEF Plan, Jobs, Fault, CanFail
  <2>3. pc' # "idle" /\ pc' \notin {"mark", "plan"}
    BY <2>2
  <2>4. job.obj.phase # "Finished"
    BY <2>1 DEF SoundInv
  <2>5. (job'.obj.phase = "Finished") => Existing(vr) = {}
    <3>1. updateRestoreStatus(job.obj, "Error", FALSE).phase # "Finished"
      BY <1>j, ErrorPhaseType DEF updateRestoreStatus, Restores, Terminal
    <3>2. ASSUME NEW only \in BOOLEAN, only => job.obj.spec.mc = latest,
                 isValidSyncOptions(job.obj.spec) \/ job.obj.spec.mc # skip,
                 ~BackupMissing(job.obj.spec, only),
                 retrieveRestoreDetails(job.obj.spec, only) = {}
          PROVE  FALSE
      BY <3>2, EmptyPlan, ConstantsAssumption DEF isValidSyncOptions
    <3> QED
      BY <2>1, <2>2, <2>4, <3>1, <3>2 DEF SoundInv
  <2>6. Existing(vr) = {} => AllCompleted(job'.obj)
    BY DEF AllCompleted, getLatestVeleroRestores
  <2>7. pc' = "create" => job'.obj.phase # "Finished"
    BY <2>2, <2>4
  <2> QED
    BY <1>t, <1>c, <2>1, <2>3, <2>5, <2>6, <2>7 DEF SoundInv, AllCompleted
<1>4. CASE Create
  <2>1. ASSUME NEW e, NEW j \in Jobs, j.obj.phase # "Finished", AfterCreate(e, j)
        PROVE  job'.obj.phase # "Finished" /\ pc' \in {"write", "create", "cleanup"}
    <3>1. With(j.obj, "Started").phase = "Started"
      BY WithType DEF Jobs, Phases
    <3> QED
      BY <2>1, <3>1 DEF AfterCreate, Jobs
  <2>2. PICK e \in job.todo :
          \/ AfterCreate(e, [job EXCEPT !.failed = TRUE])
          \/ AfterCreate(e, IF e[1] \in {"Credentials", "ResourcesGeneric"}
                            THEN [job EXCEPT !.obj = Track(@, e)] ELSE job)
          \/ AfterCreate(e, [job EXCEPT !.obj = Track(@, e), !.created = TRUE])
    BY <1>4 DEF Create
  <2>3. e \in Keys \X Cycles
    BY <1>j DEF Jobs
  <2>4. Track(job.obj, e) \in Restores /\ Track(job.obj, e).phase = job.obj.phase
    BY <1>j, <2>3, TrackType
  <2>5. job.obj.phase # "Finished" /\ restore.phase \notin Terminal
    BY <1>4 DEF Create, SoundInv
  <2>6. /\ [job EXCEPT !.failed = TRUE] \in Jobs
        /\ [job EXCEPT !.failed = TRUE].obj = job.obj
        /\ [job EXCEPT !.obj = Track(@, e)] \in Jobs
        /\ [job EXCEPT !.obj = Track(@, e)].obj = Track(job.obj, e)
        /\ [job EXCEPT !.obj = Track(@, e), !.created = TRUE] \in Jobs
        /\ [job EXCEPT !.obj = Track(@, e), !.created = TRUE].obj = Track(job.obj, e)
    BY <1>j, <2>4 DEF Jobs
  <2>7. job'.obj.phase # "Finished" /\ pc' \in {"write", "create", "cleanup"}
    BY <1>j, <2>1, <2>2, <2>4, <2>5, <2>6
  <2>8. UNCHANGED <<restore, cached, fresh>> /\ vrSeen' = vr'
    BY <1>4, <1>c DEF Create, RestoreUnchanged, VRUnchanged, VRChanged
  <2> QED
    BY <1>t, <1>c, <2>5, <2>7, <2>8 DEF SoundInv, Terminal
<1>5. CASE Cleanup
  <2>1. PICK obj \in Restores, stamped \in BOOLEAN :
          /\ Conclude(obj, stamped)
          /\ obj.phase = "Finished" => AllCompleted(obj)
    <3>1. CASE job.eligible
      <4>1. PICK r \in setRestorePhase(job.obj, vrSeen) :
              Conclude(r.obj, r.cleanup \/ r.obj.phase \in Terminal)
        BY <1>5, <3>1 DEF Cleanup
      <4>2. r.obj \in Restores /\ (r.cleanup \/ r.obj.phase \in Terminal) \in BOOLEAN
        BY <1>j, SetRestorePhaseType
      <4>3. job.obj.phase = "Finished" => AllCompleted(job.obj)
        BY <1>5 DEF Cleanup, SoundInv
      <4>4. r.obj.phase = "Finished" => AllCompleted(r.obj)
        BY <1>c, <1>j, <4>3, SetRestorePhaseDone
      <4> QED
        BY <4>1, <4>2, <4>4
    <3>2. CASE ~job.eligible
      BY <1>5, <1>j, <3>2 DEF Cleanup, SoundInv
    <3> QED
      BY <3>1, <3>2
  <2>2. /\ pc' = "write" /\ job'.obj = [obj EXCEPT !.completed = @ \/ stamped]
        /\ vrSeen' = vr' /\ UNCHANGED <<restore, cached, fresh>>
        /\ vr' = [id \in Ids |-> IF id \in Orphans(obj) THEN "absent" ELSE vr[id]]
    BY <1>5, <1>j, <2>1 DEF Cleanup, Conclude, VRChanged, RestoreUnchanged, Jobs
  <2>3. job'.obj.phase = obj.phase /\ job'.obj.tracked = obj.tracked
    BY <2>2 DEF Restores
  <2>4. job'.obj.phase = "Finished" => AllCompleted(job.obj)'
    <3>1. \A id \in Ids : vr'[id] # vr[id] => vr'[id] = "absent"
      BY <2>2
    <3>2. ASSUME AllCompleted(obj)
          PROVE  \A id \in getLatestVeleroRestores(job'.obj, vr') : vr'[id] = "Completed"
      BY <2>3, <3>1, <3>2, AllCompletedKept
    <3> QED
      BY <2>1, <2>3, <3>2 DEF AllCompleted
  <2>5. restore'.phase \notin Terminal
    BY <1>5, <2>2 DEF Cleanup, SoundInv
  <2> QED
    BY <1>t, <1>c, <2>2, <2>4, <2>5 DEF SoundInv, Terminal
<1>6. CASE WriteStatus
  <2>1. /\ pc' = "idle" /\ UNCHANGED <<vr, vrSeen>>
        /\ job.obj.phase = "Finished" => AllCompleted(job.obj)
    BY <1>6 DEF WriteStatus, Return, SoundInv
  <2>2. CASE RestoreUnchanged
    BY <1>t, <1>c, <2>1, <2>2 DEF SoundInv, RestoreUnchanged, AllCompleted
  <2>3. CASE RestoreChanged(job.obj)
    <3>1. restore' = job.obj /\ cached' = job.obj
      BY <2>3 DEF RestoreChanged
    <3>2. fresh' = TRUE
      BY <2>3, <1>c DEF RestoreChanged
    <3> QED
      BY <1>t, <1>c, <2>1, <3>1, <3>2 DEF SoundInv, AllCompleted
  <2> QED
    BY <1>6, <2>2, <2>3 DEF WriteStatus
<1>7. CASE Refused
  BY <1>t, <1>7 DEF Refused, UpdateRefused, Return, apiVars, SoundInv, AllCompleted
<1> QED
  BY <1>1, <1>2, <1>3, <1>4, <1>5, <1>6, <1>7 DEF Reconcile

LEMMA SoundEnvironment ==
    ASSUME Lagging = {}, SoundInv, Environment
    PROVE  SoundInv'
<1>t. TypeOK /\ TypeOK'
  BY TypeEnvironment DEF SoundInv
<1>j. job \in Jobs /\ job.obj \in Restores /\ restore \in Restores /\ vr \in [Ids -> VeleroPhases]
  BY <1>t DEF TypeOK, Jobs
<1>c. vrSeen = vr /\ fresh = TRUE /\ cached = restore
  BY DEF SoundInv
<1>1. ASSUME NEW spec \in Specs, UserEdit(spec) PROVE SoundInv'
  <2>1. restore' = [restore EXCEPT !.spec = spec] /\ cached' = restore' /\ UNCHANGED <<vr, vrSeen, pc>>
    BY <1>1 DEF UserEdit, RestoreChanged
  <2>2. restore'.phase = restore.phase /\ restore'.tracked = restore.tracked
    BY <1>j, <2>1 DEF Restores
  <2>3. pc # "idle" => /\ job'.obj = job.obj /\ job'.empty = job.empty
                       /\ job'.pvcStep = job.pvcStep
    BY <1>j, <1>1 DEF UserEdit, Jobs
  <2>4. fresh' = TRUE
    BY <1>1, <1>c DEF UserEdit, RestoreChanged
  <2>5. AllCompleted(restore) => AllCompleted(restore)'
    BY <2>1, <2>2 DEF AllCompleted, getLatestVeleroRestores
  <2>6. (pc # "idle" /\ AllCompleted(job.obj)) => AllCompleted(job.obj)'
    BY <2>1, <2>3 DEF AllCompleted
  <2> QED
    BY <1>t, <1>c, <2>1, <2>2, <2>3, <2>4, <2>5, <2>6 DEF SoundInv
<1>2. ASSUME UNCHANGED <<restore, cached, fresh, pc, job>>, vrSeen' = vr',
             \A id \in Ids : vr'[id] # vr[id] => vr'[id] = "absent" \/ vr[id] \notin {"absent", "Completed"}
      PROVE  SoundInv'
  <2>1. AllCompleted(restore) => AllCompleted(restore)'
    BY <1>2, AllCompletedKept DEF AllCompleted
  <2>2. AllCompleted(job.obj) => AllCompleted(job.obj)'
    BY <1>2, AllCompletedKept DEF AllCompleted
  <2>3. Existing(vr) = {} => Existing(vr') = {}
    BY <1>2 DEF Existing
  <2> QED
    BY <1>t, <1>c, <1>2, <2>1, <2>2, <2>3 DEF SoundInv
<1>3. ASSUME NEW id \in Ids, VeleroStep(id) PROVE SoundInv'
  <2>1. PICK p \in VeleroNext(vr[id]) : VRChanged([vr EXCEPT ![id] = p])
    BY <1>3 DEF VeleroStep
  <2>2. vr[id] \notin {"absent", "Completed"}
    BY <2>1 DEF VeleroNext
  <2>3. vr' = [vr EXCEPT ![id] = p] /\ vrSeen' = vr'
    BY <2>1 DEF VRChanged
  <2>4. UNCHANGED <<restore, cached, fresh, pc, job>>
    BY <1>3 DEF VeleroStep, RestoreUnchanged
  <2>5. \A i \in Ids : vr'[i] # vr[i] => vr[i] \notin {"absent", "Completed"}
    BY <1>j, <2>2, <2>3
  <2> QED
    BY <1>2, <2>3, <2>4, <2>5
<1>4. ASSUME NEW id \in Ids, VeleroRestoreDeleted(id) PROVE SoundInv'
  <2>1. vr' = [vr EXCEPT ![id] = "absent"] /\ vrSeen' = vr'
    BY <1>4 DEF VeleroRestoreDeleted, VRChanged
  <2>2. UNCHANGED <<restore, cached, fresh, pc, job>>
    BY <1>4 DEF VeleroRestoreDeleted, RestoreUnchanged
  <2>3. \A i \in Ids : vr'[i] # vr[i] => vr'[i] = "absent"
    BY <1>j, <2>1
  <2> QED
    BY <1>2, <2>1, <2>2, <2>3
<1>5. CASE RequeueAfter \/ StorageLost \/ StorageBack \/ PVCsCreated \/ OtherStarts \/ OtherEnds
             \/ (\E b \in BackupTypes \X Cycles : BackupSynced(b) \/ BackupDeleted(b))
  <2>1. UNCHANGED <<restore, cached, fresh, pc, job, vr, vrSeen>>
    BY <1>5 DEF RequeueAfter, StorageLost, StorageBack, PVCsCreated, OtherStarts, OtherEnds,
         BackupSynced, BackupDeleted, apiVars
  <2> QED
    BY <1>2, <1>c, <2>1
<1>6. CASE RestoreInformer \/ VeleroRestoreInformer
  BY <1>c, <1>6 DEF RestoreInformer, VeleroRestoreInformer
<1>7. CASE OperatorRestart
  <2>1. pc' = "idle" /\ vrSeen' = vr' /\ cached' = restore' /\ UNCHANGED <<vr, restore>>
    BY <1>7 DEF OperatorRestart, Return
  <2>2. fresh' = TRUE
    BY <1>7 DEF OperatorRestart
  <2> QED
    BY <1>t, <2>1, <2>2 DEF SoundInv, AllCompleted
<1> QED
  BY <1>1, <1>3, <1>4, <1>5, <1>6, <1>7 DEF Environment

LEMMA SoundStep ==
    ASSUME Lagging = {}, "listError" \notin Faults, SoundInv, [Next]_vars
    PROVE  SoundInv'
<1>1. CASE UNCHANGED vars
  BY <1>1 DEF vars, SoundInv, TypeOK, AllCompleted
<1> QED
  BY <1>1, SoundReconcile, SoundEnvironment DEF Next

(* With informers that are up to date and without a failed list of the     *)
(* backups, a Restore is Finished only when every Velero restore that its  *)
(* status tracks (and its -active variant) has completed without errors.   *)
(* The README lists the instances that show why both are assumed.          *)
THEOREM FinishedIsSound ==
    ASSUME Lagging = {}, "listError" \notin Faults
    PROVE  Spec => []FinishedSound
<1>1. SoundInv /\ [Next]_vars => SoundInv'
  BY SoundStep
<1>2. SoundInv => FinishedSound
  BY DEF SoundInv, FinishedSound, AllCompleted
<1> QED
  BY <1>1, <1>2, SoundInit, PTL DEF Spec

(* ... and no Velero restore is created for a Restore that is done.        *)
THEOREM NoLateCreate ==
    ASSUME Lagging = {}, "listError" \notin Faults
    PROVE  Spec => NoCreateAfterTerminal
<1>1. SoundInv /\ [Next]_vars => SoundInv'
  BY SoundStep
<1>2. SoundInv /\ [Next]_vars => [CreatesRestore => restore.phase \notin Terminal]_vars
  <2> SUFFICES ASSUME SoundInv, Next, NEW id \in Ids, vr[id] = "absent", vr'[id] = "New"
               PROVE  restore.phase \notin Terminal
    BY DEF CreatesRestore
  <2>1. vr \in [Ids -> VeleroPhases]
    BY DEF SoundInv, TypeOK
  <2>2. CASE Create
    BY <2>2 DEF Create, SoundInv
  <2>3. CASE Cleanup
    BY <2>3 DEF Cleanup, SoundInv
  <2>4. ASSUME NEW i \in Ids, VeleroStep(i) \/ VeleroRestoreDeleted(i) PROVE FALSE
    <3>1. VeleroNext("absent") = {}
      BY DEF VeleroNext
    <3>2. \E p : vr' = [vr EXCEPT ![i] = p] /\ (vr[i] = "absent" => p # "New")
      BY <2>4, <3>1 DEF VeleroStep, VeleroRestoreDeleted, VRChanged
    <3> QED
      BY <2>1, <3>2
  <2>5. ASSUME UNCHANGED vr PROVE FALSE
    BY <2>5
  <2>6. CASE Begin \/ MarkStarted \/ Plan \/ WriteStatus \/ Refused
    BY <2>5, <2>6 DEF Begin, MarkStarted, Plan, WriteStatus, Refused, UpdateRefused, apiVars
  <2>7. CASE RequeueAfter \/ RestoreInformer \/ VeleroRestoreInformer \/ StorageLost
               \/ StorageBack \/ PVCsCreated \/ OtherStarts \/ OtherEnds \/ OperatorRestart
    BY <2>5, <2>7 DEF RequeueAfter, RestoreInformer, VeleroRestoreInformer, StorageLost,
         StorageBack, PVCsCreated, OtherStarts, OtherEnds, OperatorRestart, apiVars
  <2>8. CASE \/ \E spec \in Specs : UserEdit(spec)
             \/ \E b \in BackupTypes \X Cycles : BackupSynced(b) \/ BackupDeleted(b)
    BY <2>5, <2>8 DEF UserEdit, BackupSynced, BackupDeleted
  <2> QED
    BY <2>2, <2>3, <2>4, <2>6, <2>7, <2>8 DEF Next, Reconcile, Environment
<1> QED
  BY <1>1, <1>2, SoundInit, PTL DEF Spec, NoCreateAfterTerminal

-----------------------------------------------------------------------------
(* Finished comes with its completion time and its post-restore tasks.     *)

(* What the webhook admits, with no message about the storage.             *)
Admitted(obj) ==
    /\ ~obj.bslMsg
    /\ obj.spec.sync => isValidSyncOptions(obj.spec)

(* A user who may edit the spec may also add the managed clusters to it    *)
(* after the Restore is Finished: then the tasks must have run anyway.     *)
Complete(obj) ==
    obj.phase = "Finished" =>
        obj.completed /\ ((obj.spec.mc # skip \/ "edit" \in Faults) => posts > 0)

Undecided ==
    pc \in {"mark", "plan", "create"} \/ (pc = "cleanup" /\ job.eligible)

Decided == pc = "write" \/ (pc = "cleanup" /\ ~job.eligible)

(* A pass is not Finished before cleanupOnRestore, or complete when it is; *)
(* the storage is never missing, so the path of Reconcile that only        *)
(* recomputes the phase is never taken.                                    *)
CompleteInv ==
    /\ TypeOK
    /\ bsl = TRUE
    /\ Admitted(restore) /\ Admitted(cached) /\ (pc # "idle" => Admitted(job.obj))
    /\ Complete(restore)
    /\ Decided => Complete(job.obj)
    /\ Undecided => job.obj.phase # "Finished"
    /\ pc \in {"mark", "plan"} => ~job.eligible

(* What the theorem assumes of the constants.                              *)
Undisturbed ==
    /\ "bsl" \notin Faults /\ "listError" \notin Faults /\ "taskError" \notin Faults
    /\ "edit" \in Faults => \A spec \in Specs : spec.sync

LEMMA CompleteInit == Init => CompleteInv
<1> SUFFICES ASSUME Init PROVE CompleteInv
  OBVIOUS
<1>1. PICK spec \in Specs : restore = NewRestore(spec) /\ validateRestore(NewRestore(spec))
  BY DEF Init
<1>2. restore.phase = "" /\ restore.bslMsg = FALSE /\ restore.spec = spec
  BY <1>1 DEF NewRestore
<1>3. Admitted(restore) /\ Complete(restore)
  BY <1>1, <1>2 DEF Admitted, Complete, validateRestore
<1>4. pc = "idle" /\ cached = restore
  BY DEF Init
<1>5. bsl = TRUE
  BY DEF Init
<1> QED
  BY <1>3, <1>4, <1>5, TypeInit DEF CompleteInv, Decided, Undecided

(* updateRestoreStatus with a final phase sets the completion time.        *)
LEMMA UpdateStatusComplete ==
    ASSUME NEW obj \in Restores, NEW phase \in Phases
    PROVE  LET o == updateRestoreStatus(obj, phase, FALSE)
           IN  /\ o.bslMsg = FALSE
               /\ o.phase = "Finished" => phase = "Finished" /\ o.completed
BY ErrorPhaseType DEF updateRestoreStatus, Restores, Terminal

(* setRestorePhase clears the message or keeps it, and never makes a sync  *)
(* restore of the passive data Finished.                                   *)
LEMMA SetRestorePhaseSync ==
    ASSUME NEW obj \in Restores, NEW v, NEW r \in setRestorePhase(obj, v),
           ~obj.bslMsg, obj.phase # "Finished"
    PROVE  /\ ~r.obj.bslMsg
           /\ isValidSyncOptions(obj.spec) /\ obj.spec.mc = skip => r.obj.phase # "Finished"
<1>1. ~r.obj.bslMsg
  <2>1. ASSUME NEW p PROVE ~With(obj, p).bslMsg
    BY DEF With, Restores
  <2> QED
    BY <2>1, SetRestorePhaseCases DEF PhaseResult
<1>2. ASSUME isValidSyncOptions(obj.spec), obj.spec.mc = skip
      PROVE  r.obj.phase # "Finished"
  <2>1. ~isSkipAllRestores(obj.spec)
    BY <1>2, ConstantsAssumption DEF isSkipAllRestores, isValidSyncOptions
  <2>2. ASSUME NEW p \in Phases \ {"Finished"}, NEW b, r = PhaseResult(With(obj, p), b)
        PROVE  r.obj.phase # "Finished"
    BY <2>2, WithType DEF PhaseResult
  <2>3. ASSUME NEW phase PROVE \E p \in Phases \ {"Finished"}, b \in BOOLEAN :
                 FromVeleroPhase(obj, phase) = PhaseResult(With(obj, p), b)
    <3>1. {"Started", "Running", "Error", "EnabledError"} \subseteq Phases \ {"Finished"}
      BY DEF Phases
    <3> QED
      BY <3>1 DEF FromVeleroPhase
  <2>4. \/ r = PhaseResult(obj, FALSE)
        \/ r = PhaseResult(With(obj, "Started"), FALSE)
        \/ \E id : r = FromVeleroPhase(obj, v[id])
        \/ r = PhaseResult(With(obj, "Enabled"), TRUE)
    BY <1>2, <2>1 DEF setRestorePhase
  <2>5. "Started" \in Phases \ {"Finished"} /\ "Enabled" \in Phases \ {"Finished"}
    BY DEF Phases
  <2>6. CASE r = PhaseResult(obj, FALSE)
    BY <2>6 DEF PhaseResult
  <2> QED
    BY <2>2, <2>3, <2>4, <2>5, <2>6
<1> QED
  BY <1>1, <1>2

(* Track keeps the message.                                                *)
LEMMA TrackMessage ==
    ASSUME NEW obj \in Restores, NEW e
    PROVE  Track(obj, e).bslMsg = obj.bslMsg
BY DEF Track, Restores

(* An object with the spec of an admitted one is admitted.                 *)
LEMMA AdmittedSame ==
    ASSUME NEW obj, NEW o, Admitted(obj), o.spec = obj.spec, ~o.bslMsg
    PROVE  Admitted(o)
BY DEF Admitted

LEMMA CompleteReconcile ==
    ASSUME Undisturbed, CompleteInv, Reconcile
    PROVE  CompleteInv'
<1>t. TypeOK /\ TypeOK'
  BY TypeReconcile DEF CompleteInv
<1>j. /\ job \in Jobs /\ job.obj \in Restores /\ cached \in Restores /\ restore \in Restores
      /\ job' \in Jobs /\ job'.obj \in Restores
  BY <1>t DEF TypeOK, Jobs
<1>b. bsl = TRUE /\ Admitted(restore) /\ Admitted(cached) /\ Complete(restore)
  BY DEF CompleteInv
<1>a. pc # "idle" => Admitted(job.obj)
  BY DEF CompleteInv
<1>r. bsl' = TRUE
  <2>1. UNCHANGED bsl
    BY DEF Reconcile, Begin, MarkStarted, Plan, Create, Cleanup, WriteStatus, Refused,
         UpdateRefused, envVars
  <2> QED
    BY <1>b, <2>1
<1>1. CASE Begin
  <2>1. UNCHANGED <<restore, cached, posts>>
    BY <1>1 DEF Begin, apiVars
  <2>2. NewJob(cached, ~fresh) \in Jobs
    BY <1>t, NewJobType DEF TypeOK
  <2>3. NewJob(cached, ~fresh).obj = cached /\ NewJob(cached, ~fresh).eligible = FALSE
    BY DEF NewJob
  <2>4. Admitted(restore') /\ Admitted(cached') /\ Complete(restore)'
    BY <1>b, <2>1 DEF Complete
  <2>5. CASE pc' = "idle"
    BY <1>t, <1>r, <2>4, <2>5 DEF CompleteInv, Decided, Undecided
  <2>6. CASE pc' # "idle"
    <3>1. cached.phase # "Finished"
      BY <1>1, <2>6 DEF Begin, Return, IsCompleted, Terminal
    <3>2. \/ /\ pc' = "write"
             /\ job'.obj = updateRestoreStatus(cached, "FinishedWithErrors", FALSE)
          \/ pc' \in {"mark", "plan"} /\ job' = NewJob(cached, ~fresh)
      BY <1>1, <1>b, <2>2, <2>6 DEF Begin, Return, Jobs, validateStorageSettings, Admitted
    <3>3. CASE /\ pc' = "write"
               /\ job'.obj = updateRestoreStatus(cached, "FinishedWithErrors", FALSE)
      <4>1. "FinishedWithErrors" \in Phases
        BY DEF Phases
      <4>2. job'.obj.phase # "Finished" /\ ~job'.obj.bslMsg
        BY <1>j, <3>3, <4>1, UpdateStatusComplete
      <4>3. job'.obj.spec = cached.spec
        BY <1>j, <3>3, <4>1, UpdateStatusType
      <4>4. Admitted(job'.obj)
        BY <1>b, <4>2, <4>3, AdmittedSame
      <4> QED
        BY <1>t, <1>r, <2>4, <3>3, <4>2, <4>4 DEF CompleteInv, Decided, Undecided, Complete
    <3>4. CASE pc' \in {"mark", "plan"} /\ job' = NewJob(cached, ~fresh)
      BY <1>t, <1>r, <1>b, <2>3, <2>4, <3>1, <3>4 DEF CompleteInv, Decided, Undecided
    <3> QED
      BY <3>2, <3>3, <3>4
  <2> QED
    BY <2>5, <2>6
<1>2. CASE MarkStarted
  <2> DEFINE obj == With(job.obj, "Started")
  <2>1. obj \in Restores /\ obj.phase = "Started" /\ obj.spec = job.obj.spec
    BY <1>j, WithType DEF Phases
  <2>2. ~obj.bslMsg
    BY <1>j DEF With, Restores
  <2>3. pc = "mark" /\ pc' = "plan" /\ RestoreChanged(obj) /\ job' = [job EXCEPT !.obj = obj]
    BY <1>2 DEF MarkStarted
  <2>4. job'.obj = obj /\ job'.eligible = job.eligible
    BY <1>j, <2>3 DEF Jobs
  <2>5. restore' = obj /\ (cached' = obj \/ cached' = cached)
    BY <2>3 DEF RestoreChanged
  <2>6. Admitted(obj)
    BY <1>a, <2>1, <2>2, <2>3, AdmittedSame
  <2>7. ~job.eligible
    BY <2>3 DEF CompleteInv
  <2> HIDE DEF obj
  <2>8. Admitted(restore') /\ Admitted(cached') /\ Admitted(job'.obj)
    BY <1>b, <2>4, <2>5, <2>6
  <2>9. Complete(restore)'
    BY <2>1, <2>5 DEF Complete
  <2> QED
    BY <1>t, <1>r, <2>1, <2>3, <2>4, <2>7, <2>8, <2>9 DEF CompleteInv, Decided, Undecided
<1>3. CASE Plan
  <2>1. pc = "plan" /\ UNCHANGED <<restore, cached, posts>>
    BY <1>3 DEF Plan, apiVars
  <2>2. \/ pc' = "cleanup" /\ job'.obj = job.obj /\ job'.eligible = TRUE
        \/ pc' = "create" /\ job'.obj = job.obj
        \/ pc' = "write" /\ job'.obj = updateRestoreStatus(job.obj, "Error", FALSE)
        \/ /\ pc' = "cleanup" /\ job'.obj = updateRestoreStatus(job.obj, "Finished", FALSE)
           /\ job'.eligible = job.eligible
           /\ \E only \in BOOLEAN :
                /\ only => job.obj.spec.mc = latest
                /\ ~BackupMissing(job.obj.spec, only)
                /\ retrieveRestoreDetails(job.obj.spec, only) = {}
    BY <1>3, <1>j DEF Plan, Jobs, Fault, CanFail, Undisturbed
  <2>3. job.obj.phase # "Finished" /\ ~job.eligible /\ Admitted(job.obj)
    BY <1>a, <2>1 DEF CompleteInv, Undecided
  <2>4. Admitted(restore') /\ Admitted(cached') /\ Complete(restore)'
    BY <1>b, <2>1 DEF Complete
  <2>5. CASE pc' \in {"cleanup", "create"} /\ job'.obj = job.obj
               /\ (pc' = "cleanup" => job'.eligible = TRUE)
    BY <1>t, <1>r, <2>3, <2>4, <2>5 DEF CompleteInv, Decided, Undecided
  <2>6. CASE pc' = "write" /\ job'.obj = updateRestoreStatus(job.obj, "Error", FALSE)
    <3>1. "Error" \in Phases
      BY DEF Phases
    <3>2. job'.obj.phase # "Finished" /\ ~job'.obj.bslMsg
      BY <1>j, <2>6, <3>1, UpdateStatusComplete
    <3>3. job'.obj.spec = job.obj.spec
      BY <1>j, <2>6, <3>1, UpdateStatusType
    <3>4. Admitted(job'.obj)
      BY <2>3, <3>2, <3>3, AdmittedSame
    <3> QED
      BY <1>t, <1>r, <2>4, <2>6, <3>2, <3>4 DEF CompleteInv, Decided, Undecided, Complete
  <2>7. ASSUME NEW only \in BOOLEAN, only => job.obj.spec.mc = latest,
               ~BackupMissing(job.obj.spec, only),
               retrieveRestoreDetails(job.obj.spec, only) = {},
               pc' = "cleanup", job'.obj = updateRestoreStatus(job.obj, "Finished", FALSE),
               job'.eligible = job.eligible
        PROVE  CompleteInv'
    <3>1. "Finished" \in Phases
      BY DEF Phases
    <3>2. job'.obj.phase = "Finished" => job'.obj.completed
      BY <1>j, <2>7, <3>1, UpdateStatusComplete
    <3>3. ~job'.obj.bslMsg
      BY <1>j, <2>7, <3>1, UpdateStatusComplete
    <3>4. job'.obj.spec = job.obj.spec
      BY <1>j, <2>7, <3>1, UpdateStatusType
    <3>5. Admitted(job'.obj)
      BY <2>3, <3>3, <3>4, AdmittedSame
    <3>6. job.obj.spec.mc = skip /\ job.obj.spec.creds = skip
      BY <2>7, EmptyPlan, ConstantsAssumption
    <3>7. "edit" \notin Faults
      <4>1. ~isValidSyncOptions(job.obj.spec)
        BY <3>6, ConstantsAssumption DEF isValidSyncOptions
      <4>2. ~job.obj.spec.sync
        BY <2>3, <4>1 DEF Admitted
      <4>3. job.obj.spec \in Specs
        BY <1>j DEF Restores
      <4> QED
        BY <4>2, <4>3 DEF Undisturbed
    <3>8. Complete(job.obj)'
      BY <3>2, <3>4, <3>6, <3>7 DEF Complete
    <3> QED
      BY <1>t, <1>r, <2>3, <2>4, <2>7, <3>5, <3>8 DEF CompleteInv, Decided, Undecided
  <2> QED
    BY <2>2, <2>5, <2>6, <2>7
<1>4. CASE Create
  <2>1. ASSUME NEW e, NEW j \in Jobs, j.obj.phase # "Finished", Admitted(j.obj), AfterCreate(e, j)
        PROVE  /\ job'.obj.phase # "Finished" /\ Admitted(job'.obj)
               /\ pc' \in {"write", "create", "cleanup"}
    <3>1. With(j.obj, "Started").phase = "Started" /\ With(j.obj, "Started").spec = j.obj.spec
      BY WithType DEF Jobs, Phases
    <3>2. ~With(j.obj, "Started").bslMsg
      BY DEF With, Jobs, Restores
    <3>3. Admitted(With(j.obj, "Started"))
      BY <2>1, <3>1, <3>2, AdmittedSame
    <3>4. job'.obj = j.obj \/ job'.obj = With(j.obj, "Started")
      BY <2>1 DEF AfterCreate, Jobs
    <3>5. pc' \in {"write", "create", "cleanup"}
      BY <2>1 DEF AfterCreate
    <3> QED
      BY <2>1, <3>1, <3>3, <3>4, <3>5
  <2>2. PICK e \in job.todo :
          \/ AfterCreate(e, [job EXCEPT !.failed = TRUE])
          \/ AfterCreate(e, IF e[1] \in {"Credentials", "ResourcesGeneric"}
                            THEN [job EXCEPT !.obj = Track(@, e)] ELSE job)
          \/ AfterCreate(e, [job EXCEPT !.obj = Track(@, e), !.created = TRUE])
    BY <1>4 DEF Create
  <2>3. e \in Keys \X Cycles
    BY <1>j DEF Jobs
  <2>4. job.obj.phase # "Finished" /\ Admitted(job.obj)
    BY <1>4, <1>a DEF Create, CompleteInv, Undecided
  <2>5. /\ Track(job.obj, e) \in Restores
        /\ Track(job.obj, e).phase # "Finished" /\ Admitted(Track(job.obj, e))
    BY <1>j, <2>3, <2>4, TrackType, TrackMessage, AdmittedSame DEF Admitted
  <2>6. /\ [job EXCEPT !.failed = TRUE] \in Jobs
        /\ [job EXCEPT !.failed = TRUE].obj = job.obj
        /\ [job EXCEPT !.obj = Track(@, e)] \in Jobs
        /\ [job EXCEPT !.obj = Track(@, e)].obj = Track(job.obj, e)
        /\ [job EXCEPT !.obj = Track(@, e), !.created = TRUE] \in Jobs
        /\ [job EXCEPT !.obj = Track(@, e), !.created = TRUE].obj = Track(job.obj, e)
    BY <1>j, <2>5 DEF Jobs
  <2>7. /\ job'.obj.phase # "Finished" /\ Admitted(job'.obj)
        /\ pc' \in {"write", "create", "cleanup"}
    BY <1>j, <2>1, <2>2, <2>4, <2>5, <2>6
  <2>8. UNCHANGED <<restore, cached, posts>>
    BY <1>4 DEF Create, RestoreUnchanged
  <2>9. Admitted(restore') /\ Admitted(cached') /\ Complete(restore)' /\ Complete(job.obj)'
    BY <1>b, <2>7, <2>8 DEF Complete
  <2> QED
    BY <1>t, <1>r, <2>7, <2>9 DEF CompleteInv, Decided, Undecided
<1>5. CASE Cleanup
  <2>1. pc = "cleanup" /\ UNCHANGED <<restore, cached>>
    BY <1>5 DEF Cleanup, RestoreUnchanged
  <2>2. posts \in 0..PostCap /\ (posts' = posts \/ posts' = posts + 1)
    BY <1>5, <1>t DEF Cleanup, executePostRestoreTasks, TypeOK
  <2>3. posts > 0 => posts' > 0
    BY <2>2 DEF PostCap
  <2>4. Admitted(restore') /\ Admitted(cached') /\ Complete(restore)'
    BY <1>b, <2>1, <2>3 DEF Complete
  <2>5. Admitted(job.obj) /\ job.obj.spec \in Specs
    BY <1>a, <1>j, <2>1 DEF Restores
  <2>6. pc' = "write" /\ Admitted(job'.obj) /\ Complete(job.obj)'
    <3>1. CASE ~job.eligible
      <4>1. Conclude(job.obj, FALSE) /\ posts' = posts
        BY <1>5, <3>1 DEF Cleanup
      <4>2. pc' = "write" /\ job'.obj = [job.obj EXCEPT !.completed = @ \/ FALSE]
        BY <1>j, <4>1 DEF Conclude, Jobs
      <4>3. /\ job'.obj.phase = job.obj.phase /\ job'.obj.spec = job.obj.spec
            /\ job'.obj.bslMsg = job.obj.bslMsg
        BY <1>j, <4>2 DEF Restores
      <4>4. job.obj.completed => job'.obj.completed
        BY <1>j, <4>2 DEF Restores
      <4>5. Complete(job.obj)
        BY <2>1, <3>1 DEF CompleteInv, Decided
      <4>6. Admitted(job'.obj)
        BY <2>5, <4>3 DEF Admitted
      <4>7. Complete(job.obj)'
        BY <4>1, <4>3, <4>4, <4>5 DEF Complete
      <4> QED
        BY <4>2, <4>6, <4>7
    <3>2. CASE job.eligible
      <4>1. PICK r \in setRestorePhase(job.obj, vrSeen) :
              /\ Conclude(r.obj, r.cleanup \/ r.obj.phase \in Terminal)
              /\ posts' = IF r.obj.phase \in Terminal /\ r.obj.spec.mc # skip /\ posts < PostCap
                          THEN posts + 1 ELSE posts
        <5>1. ~Fault("taskError")
          BY DEF Undisturbed, Fault, CanFail
        <5> QED
          BY <1>5, <3>2, <5>1 DEF Cleanup, executePostRestoreTasks
      <4>2. r.obj \in Restores /\ r.obj.spec = job.obj.spec
        BY <1>j, SetRestorePhaseType
      <4>3. job.obj.phase # "Finished" /\ ~job.obj.bslMsg
        BY <2>1, <2>5, <3>2 DEF CompleteInv, Undecided, Admitted
      <4>4. /\ ~r.obj.bslMsg
            /\ isValidSyncOptions(job.obj.spec) /\ job.obj.spec.mc = skip => r.obj.phase # "Finished"
        BY <1>j, <4>3, SetRestorePhaseSync
      <4>5. /\ pc' = "write"
            /\ job'.obj = [r.obj EXCEPT !.completed = @ \/ (r.cleanup \/ r.obj.phase \in Terminal)]
        BY <1>j, <4>1 DEF Conclude, Jobs
      <4>6. job'.obj.phase = r.obj.phase /\ job'.obj.spec = r.obj.spec
        BY <4>2, <4>5 DEF Restores
      <4>7. job'.obj.bslMsg = r.obj.bslMsg
        BY <4>2, <4>5 DEF Restores
      <4>8. r.obj.phase = "Finished" => job'.obj.completed
        BY <4>2, <4>5 DEF Restores, Terminal
      <4>9. Admitted(job'.obj)
        BY <2>5, <4>2, <4>4, <4>6, <4>7, AdmittedSame
      <4>10. (r.obj.phase = "Finished" /\ "edit" \in Faults) => r.obj.spec.mc # skip
        BY <2>5, <4>2, <4>4 DEF Undisturbed, Admitted
      <4>11. (r.obj.phase = "Finished" /\ r.obj.spec.mc # skip) => posts' > 0
        BY <2>2, <4>1 DEF Terminal, PostCap
      <4>12. Complete(job.obj)'
        BY <4>6, <4>8, <4>10, <4>11 DEF Complete
      <4> QED
        BY <4>5, <4>9, <4>12
    <3> QED
      BY <3>1, <3>2
  <2> QED
    BY <1>t, <1>r, <2>4, <2>6 DEF CompleteInv, Decided, Undecided
<1>6. CASE WriteStatus
  <2>1. pc = "write" /\ pc' = "idle" /\ posts' = posts
    BY <1>6 DEF WriteStatus, Return
  <2>2. Admitted(job.obj) /\ Complete(job.obj)
    BY <1>a, <2>1 DEF CompleteInv, Decided
  <2>3. \/ UNCHANGED <<restore, cached>>
        \/ restore' = job.obj /\ (cached' = job.obj \/ cached' = cached)
    BY <1>6 DEF WriteStatus, RestoreUnchanged, RestoreChanged
  <2>4. Admitted(restore') /\ Admitted(cached') /\ Complete(restore)'
    BY <1>b, <2>1, <2>2, <2>3 DEF Complete
  <2> QED
    BY <1>t, <1>r, <2>1, <2>4 DEF CompleteInv, Decided, Undecided
<1>7. CASE Refused
  <2>1. pc' = "idle" /\ UNCHANGED <<restore, cached, posts>>
    BY <1>7 DEF Refused, UpdateRefused, Return, apiVars
  <2>2. Admitted(restore') /\ Admitted(cached') /\ Complete(restore)'
    BY <1>b, <2>1 DEF Complete
  <2> QED
    BY <1>t, <1>r, <2>1, <2>2 DEF CompleteInv, Decided, Undecided
<1> QED
  BY <1>1, <1>2, <1>3, <1>4, <1>5, <1>6, <1>7 DEF Reconcile

LEMMA CompleteEnvironment ==
    ASSUME Undisturbed, CompleteInv, Environment
    PROVE  CompleteInv'
<1>t. TypeOK /\ TypeOK'
  BY TypeEnvironment DEF CompleteInv
<1>j. job \in Jobs /\ job.obj \in Restores /\ restore \in Restores
  BY <1>t DEF TypeOK, Jobs
<1>b. bsl = TRUE /\ Admitted(restore) /\ Admitted(cached) /\ Complete(restore)
  BY DEF CompleteInv
<1>1. ASSUME UNCHANGED <<bsl, restore, cached, pc, job, posts>> PROVE CompleteInv'
  BY <1>t, <1>1 DEF CompleteInv, Decided, Undecided, Complete
<1>2. ASSUME NEW spec \in Specs, UserEdit(spec) PROVE CompleteInv'
  <2>1. /\ restore' = [restore EXCEPT !.spec = spec] /\ (cached' = restore' \/ cached' = cached)
        /\ UNCHANGED <<bsl, pc, posts>>
        /\ validateRestore([restore EXCEPT !.spec = spec])
    BY <1>2 DEF UserEdit, RestoreChanged, envVars
  <2>2. /\ restore'.phase = restore.phase /\ restore'.spec = spec
        /\ restore'.bslMsg = restore.bslMsg /\ restore'.completed = restore.completed
    BY <1>j, <2>1 DEF Restores
  <2>3. "edit" \in Faults
    BY <1>2 DEF UserEdit, Fault, CanFail
  <2>4. Complete(restore)'
    BY <1>b, <2>1, <2>2, <2>3 DEF Complete
  <2>5. Admitted(restore')
    BY <1>b, <2>1, <2>2 DEF Admitted, validateRestore
  <2>6. Admitted(cached')
    BY <1>b, <2>1, <2>5
  <2>7. pc # "idle" => job'.obj = job.obj /\ job'.eligible = job.eligible
    BY <1>j, <1>2 DEF UserEdit, Jobs
  <2>8. bsl' = TRUE
    BY <1>b, <2>1
  <2> QED
    BY <1>t, <2>1, <2>4, <2>5, <2>6, <2>7, <2>8 DEF CompleteInv, Decided, Undecided, Complete
<1>3. CASE RestoreInformer
  <2>1. cached' = restore /\ UNCHANGED <<bsl, restore, pc, job, posts>>
    BY <1>3 DEF RestoreInformer, envVars
  <2> QED
    BY <1>t, <1>b, <2>1 DEF CompleteInv, Decided, Undecided, Complete
<1>4. CASE OperatorRestart
  <2>1. cached' = restore /\ pc' = "idle" /\ UNCHANGED <<bsl, restore, posts>>
    BY <1>4 DEF OperatorRestart, Return, envVars
  <2> QED
    BY <1>t, <1>b, <2>1 DEF CompleteInv, Decided, Undecided, Complete
<1>5. CASE StorageLost \/ StorageBack
  BY <1>5, <1>b DEF StorageLost, StorageBack, Fault, CanFail, Undisturbed
<1>6. CASE RequeueAfter \/ VeleroRestoreInformer \/ PVCsCreated \/ OtherStarts \/ OtherEnds
             \/ (\E id \in Ids : VeleroStep(id) \/ VeleroRestoreDeleted(id))
             \/ (\E b \in BackupTypes \X Cycles : BackupSynced(b) \/ BackupDeleted(b))
  BY <1>1, <1>6 DEF RequeueAfter, VeleroRestoreInformer, PVCsCreated, OtherStarts, OtherEnds,
       VeleroStep, VeleroRestoreDeleted, BackupSynced, BackupDeleted, apiVars, envVars,
       RestoreUnchanged
<1> QED
  BY <1>2, <1>3, <1>4, <1>5, <1>6 DEF Environment

(* While the storage location is there, the backups can be listed and the  *)
(* tasks are not cut short by a failing list of managed clusters, a        *)
(* Restore is Finished only with its completion time and, when it restored *)
(* the managed clusters, with its post-restore tasks done: across lagging  *)
(* informers, refused updates, restarts, failed creations and deletions.   *)
(* Edits are allowed where every spec asks for sync.                       *)
THEOREM FinishedWithTasks ==
    ASSUME "bsl" \notin Faults, "listError" \notin Faults, "taskError" \notin Faults,
           "edit" \in Faults => \A spec \in Specs : spec.sync
    PROVE  Spec => []FinishedIsComplete
<1>0. Undisturbed
  BY DEF Undisturbed
<1>1. CompleteInv /\ [Next]_vars => CompleteInv'
  <2> SUFFICES ASSUME CompleteInv, [Next]_vars PROVE CompleteInv'
    OBVIOUS
  <2>1. CASE UNCHANGED vars
    BY <2>1 DEF vars, CompleteInv, TypeOK, Decided, Undecided, Complete
  <2> QED
    BY <1>0, <2>1, CompleteReconcile, CompleteEnvironment DEF Next
<1>2. CompleteInv => FinishedIsComplete
  BY DEF CompleteInv, Complete, FinishedIsComplete
<1> QED
  BY <1>1, <1>2, CompleteInit, PTL DEF Spec

-----------------------------------------------------------------------------
(* A sync restore never goes back to an older backup by itself.            *)

(* Whatever the status names was a backup of this hub once.                *)
Known(obj) ==
    \A t \in BackupTypes : obj.tracked[t] # NoCycle => <<t, obj.tracked[t]>> \in backups \cup gone

(* Cycle c may follow what the Restore names for type t.                   *)
Replaces(t, c) == c < restore.tracked[t] => <<t, restore.tracked[t]>> \in gone

Current == pc # "idle" /\ ~job.stale

(* A pass whose copy is current has the spec of the Restore, and what it   *)
(* tracks or is about to track is older than what the Restore names only   *)
(* when that backup is gone, which is for good.                            *)
RollInv ==
    /\ TypeOK
    /\ fresh => cached = restore
    /\ backups \cap gone = {}
    /\ Known(restore) /\ Known(cached) /\ (pc # "idle" => Known(job.obj))
    /\ restore.spec.sync => isValidSyncOptions(restore.spec)
    /\ Current => job.obj.spec = restore.spec
    /\ (Current /\ restore.spec.sync) => \A t \in BackupTypes : Replaces(t, job.obj.tracked[t])
    /\ pc = "create" => \A e \in job.todo : <<BackupTypeOf(e[1]), e[2]>> \in backups \cup gone
    /\ (Current /\ pc = "create" /\ restore.spec.sync) =>
          \A e \in job.todo : e[1] \in BackupTypes => Replaces(e[1], e[2])

LEMMA RollInit == Init => RollInv
<1> SUFFICES ASSUME Init PROVE RollInv
  OBVIOUS
<1>1. PICK spec \in Specs : restore = NewRestore(spec) /\ validateRestore(NewRestore(spec))
  BY DEF Init
<1>2. restore.spec = spec /\ \A t \in BackupTypes : restore.tracked[t] = NoCycle
  BY <1>1 DEF NewRestore, NoTracked
<1>3. restore.spec.sync => isValidSyncOptions(restore.spec)
  BY <1>1, <1>2 DEF validateRestore
<1>4. pc = "idle" /\ cached = restore /\ gone = {}
  BY DEF Init
<1> QED
  BY <1>2, <1>3, <1>4, TypeInit DEF RollInv, Known, Current

(* What a pass plans comes from a backup, and for a sync spec from the     *)
(* most recent one of its type.                                            *)
LEMMA PlanFromBackups ==
    ASSUME NEW spec, NEW only, NEW e \in retrieveRestoreDetails(spec, only)
    PROVE  /\ <<BackupTypeOf(e[1]), e[2]>> \in backups
           /\ isValidSyncOptions(spec) =>
                \A c \in Cycles : <<BackupTypeOf(e[1]), c>> \in backups => c <= e[2]
<1>1. e[2] \in getVeleroBackupName(e[1], SpecName(spec, e[1])) /\ SpecName(spec, e[1]) # skip
  BY DEF retrieveRestoreDetails
<1>2. isValidSyncOptions(spec) => SpecName(spec, e[1]) = latest
  BY <1>1 DEF isValidSyncOptions, SpecName
<1> QED
  BY <1>1, <1>2 DEF getVeleroBackupName

(* The status is known as long as backups leave only for gone.             *)
LEMMA KnownKept ==
    ASSUME NEW obj, NEW o, Known(obj), o.tracked = obj.tracked,
           backups \cup gone \subseteq backups' \cup gone'
    PROVE  \A t \in BackupTypes : o.tracked[t] # NoCycle => <<t, o.tracked[t]>> \in backups' \cup gone'
BY DEF Known

(* Tracking a key of the plan.                                             *)
LEMMA TrackTracked ==
    ASSUME NEW obj \in Restores, NEW e \in Keys \X Cycles, NEW t \in BackupTypes
    PROVE  \/ Track(obj, e).tracked[t] = obj.tracked[t]
           \/ e[1] = t /\ Track(obj, e).tracked[t] = e[2] /\ BackupTypeOf(e[1]) = t
<1>1. CASE e[1] \in Active
  BY <1>1 DEF Track
<1>2. CASE e[1] \notin Active
  <2>1. e[1] \in BackupTypes
    BY <1>2 DEF Keys
  <2>2. Track(obj, e).tracked = [obj.tracked EXCEPT ![e[1]] = e[2]]
    BY <1>2 DEF Track, Restores
  <2>3. BackupTypeOf(e[1]) = e[1]
    BY <2>1 DEF BackupTypeOf, BackupTypes
  <2>4. obj.tracked \in [BackupTypes -> Cycles \cup {NoCycle}]
    BY DEF Restores
  <2> QED
    BY <2>1, <2>2, <2>3, <2>4
<1> QED
  BY <1>1, <1>2

(* Nothing is older than itself.                                           *)
LEMMA ReplacesItself ==
    ASSUME NEW obj \in Restores, NEW t \in BackupTypes
    PROVE  ~(obj.tracked[t] < obj.tracked[t])
<1>1. obj.tracked[t] \in Cycles \cup {NoCycle}
  BY DEF Restores
<1>2. obj.tracked[t] \in Nat
  <2>1. Cycles \subseteq Nat /\ NoCycle \in Nat
    BY ConstantsAssumption DEF NoCycle
  <2> QED
    BY <1>1, <2>1
<1> QED
  BY <1>2

LEMMA RollReconcile ==
    ASSUME RollInv, Reconcile
    PROVE  RollInv'
<1>t. TypeOK /\ TypeOK'
  BY TypeReconcile DEF RollInv
<1>j. /\ job \in Jobs /\ job.obj \in Restores /\ cached \in Restores /\ restore \in Restores
      /\ job' \in Jobs
  BY <1>t DEF TypeOK, Jobs
<1>b. UNCHANGED <<backups, gone>> /\ backups' \cap gone' = {}
  <2>1. UNCHANGED <<backups, gone>>
    BY DEF Reconcile, Begin, MarkStarted, Plan, Create, Cleanup, WriteStatus, Refused,
         UpdateRefused, apiVars
  <2> QED
    BY <2>1 DEF RollInv
<1>i. /\ fresh => cached = restore
      /\ Known(restore) /\ Known(cached)
      /\ restore.spec.sync => isValidSyncOptions(restore.spec)
  BY DEF RollInv
<1>r. ASSUME UNCHANGED <<restore, cached, fresh>>
      PROVE  /\ fresh' => cached' = restore'
             /\ Known(restore)' /\ Known(cached)'
             /\ restore'.spec.sync => isValidSyncOptions(restore'.spec)
  BY <1>b, <1>i, <1>r DEF Known
<1>s. ASSUME UNCHANGED <<restore, cached, fresh>>, pc # "idle", pc' \in {"write", "cleanup"},
             job'.stale = job.stale, job'.obj.spec = job.obj.spec,
             job'.obj.tracked = job.obj.tracked
      PROVE  RollInv'
  <2>1. Known(job.obj)'
    BY <1>b, <1>s, KnownKept DEF RollInv, Known
  <2>2. Current' => job'.obj.spec = restore'.spec
    BY <1>s DEF RollInv, Current
  <2>3. (Current' /\ restore'.spec.sync) => \A t \in BackupTypes : Replaces(t, job.obj.tracked[t])'
    BY <1>b, <1>s DEF RollInv, Current, Replaces
  <2> QED
    BY <1>t, <1>b, <1>r, <1>s, <2>1, <2>2, <2>3 DEF RollInv
<1>1. CASE Begin
  <2>1. UNCHANGED <<restore, cached, fresh>> /\ pc' # "create"
    BY <1>1 DEF Begin, apiVars, Return
  <2>2. /\ NewJob(cached, ~fresh) \in Jobs /\ NewJob(cached, ~fresh).obj = cached
        /\ NewJob(cached, ~fresh).stale = ~fresh
    BY <1>t, NewJobType DEF TypeOK, NewJob
  <2>3. ASSUME pc' # "idle" PROVE job'.obj.spec = cached.spec /\ job'.obj.tracked = cached.tracked
    <3>1. \/ \E p \in {"Error", "FinishedWithErrors"}, about \in BOOLEAN :
               job'.obj = updateRestoreStatus(cached, p, about)
          \/ \E r \in setRestorePhase(cached, vrSeen) : job'.obj = r.obj
          \/ job' = NewJob(cached, ~fresh)
      BY <1>1, <2>2, <2>3 DEF Begin, Return, Jobs
    <3>2. {"Error", "FinishedWithErrors"} \subseteq Phases
      BY DEF Phases
    <3> QED
      BY <1>j, <2>2, <3>1, <3>2, UpdateStatusType, SetRestorePhaseType
  <2>4. pc' # "idle" => job'.stale = ~fresh
    BY <1>1, <2>2 DEF Begin, Return, Jobs
  <2>5. Current' => restore = cached
    BY <1>i, <2>4 DEF Current
  <2>6. pc' # "idle" => Known(job.obj)'
    BY <1>b, <1>i, <2>3 DEF Known
  <2>7. Current' => job'.obj.spec = restore'.spec /\ job'.obj.tracked = restore'.tracked
    BY <2>1, <2>3, <2>5 DEF Current
  <2>8. Current' => \A t \in BackupTypes : Replaces(t, job.obj.tracked[t])'
    BY <1>j, <2>1, <2>7, ReplacesItself DEF Replaces
  <2> QED
    BY <1>t, <1>b, <1>r, <2>1, <2>6, <2>7, <2>8 DEF RollInv
<1>2. CASE MarkStarted
  <2> DEFINE obj == With(job.obj, "Started")
  <2>1. obj \in Restores /\ obj.spec = job.obj.spec /\ obj.tracked = job.obj.tracked
    BY <1>j, WithType DEF Phases
  <2>2. /\ pc = "mark" /\ pc' = "plan" /\ ~job.stale /\ RestoreChanged(obj)
        /\ job' = [job EXCEPT !.obj = obj]
    BY <1>2 DEF MarkStarted
  <2>3. job'.obj = obj
    BY <1>j, <2>2 DEF Jobs
  <2>4. restore' = obj /\ (cached' = obj \/ cached' = cached) /\ (fresh' => cached' = obj)
    BY <2>2 DEF RestoreChanged
  <2> HIDE DEF obj
  <2>5. job.obj.spec = restore.spec /\ Known(job.obj)
    BY <2>2 DEF RollInv, Current
  <2>6. Known(restore)' /\ Known(cached)' /\ Known(job.obj)'
    BY <1>b, <1>i, <2>1, <2>3, <2>4, <2>5 DEF Known
  <2>7. restore'.spec.sync => isValidSyncOptions(restore'.spec)
    BY <1>i, <2>1, <2>4, <2>5
  <2>8. \A t \in BackupTypes : Replaces(t, job.obj.tracked[t])'
    BY <2>1, <2>3, <2>4, ReplacesItself DEF Replaces
  <2> QED
    BY <1>t, <1>b, <2>2, <2>3, <2>4, <2>6, <2>7, <2>8 DEF RollInv
<1>3. CASE Plan
  <2>1. pc = "plan" /\ UNCHANGED <<restore, cached, fresh>>
    BY <1>3 DEF Plan, apiVars
  <2>2. /\ pc' \in {"write", "cleanup", "create"} /\ job'.stale = job.stale
        /\ \/ job'.obj = job.obj
           \/ job'.obj = updateRestoreStatus(job.obj, "Error", FALSE)
           \/ job'.obj = updateRestoreStatus(job.obj, "Finished", FALSE)
        /\ pc' = "create" => /\ job'.obj = job.obj
                             /\ \E only \in BOOLEAN :
                                  job'.todo = retrieveRestoreDetails(job.obj.spec, only)
    BY <1>3, <1>j DEF Plan, Jobs
  <2>3. job'.obj.spec = job.obj.spec /\ job'.obj.tracked = job.obj.tracked
    <3>1. "Error" \in Phases /\ "Finished" \in Phases /\ FALSE \in BOOLEAN
      BY DEF Phases
    <3>2. /\ updateRestoreStatus(job.obj, "Error", FALSE).spec = job.obj.spec
          /\ updateRestoreStatus(job.obj, "Finished", FALSE).spec = job.obj.spec
          /\ updateRestoreStatus(job.obj, "Error", FALSE).tracked = job.obj.tracked
          /\ updateRestoreStatus(job.obj, "Finished", FALSE).tracked = job.obj.tracked
      BY <1>j, <3>1, UpdateStatusType
    <3> QED
      BY <2>2, <3>2
  <2>4. CASE pc' \in {"write", "cleanup"}
    BY <1>s, <2>1, <2>2, <2>3, <2>4
  <2>5. CASE pc' = "create"
    <3>1. PICK only \in BOOLEAN : job'.todo = retrieveRestoreDetails(job.obj.spec, only)
      BY <2>2, <2>5
    <3>2. Known(job.obj)'
      BY <1>b, <2>1, <2>3 DEF RollInv, Known
    <3>3. Current' => Current /\ job'.obj.spec = restore'.spec
      BY <2>1, <2>2, <2>3 DEF RollInv, Current
    <3>4. (Current' /\ restore'.spec.sync) => \A t \in BackupTypes : Replaces(t, job.obj.tracked[t])'
      BY <1>b, <2>1, <2>3, <3>3 DEF RollInv, Replaces
    <3>5. \A e \in job'.todo : <<BackupTypeOf(e[1]), e[2]>> \in backups' \cup gone'
      BY <1>b, <3>1, PlanFromBackups
    <3>6. ASSUME Current', restore'.spec.sync, NEW e \in job'.todo, e[1] \in BackupTypes
          PROVE  Replaces(e[1], e[2])'
      <4>1. isValidSyncOptions(job.obj.spec)
        BY <1>i, <2>1, <2>3, <3>3, <3>6
      <4>2. BackupTypeOf(e[1]) = e[1]
        BY <3>6 DEF BackupTypeOf, BackupTypes
      <4>3. \A c \in Cycles : <<e[1], c>> \in backups => c <= e[2]
        BY <3>1, <3>6, <4>1, <4>2, PlanFromBackups
      <4>4. e[2] \in Cycles
        BY <1>j, <3>6 DEF Jobs
      <4>5. restore.tracked[e[1]] \in Cycles \cup {NoCycle}
        BY <1>j, <3>6 DEF Restores
      <4>6. Cycles \subseteq Nat \ {0} /\ NoCycle = 0
        BY ConstantsAssumption DEF NoCycle
      <4>7. ASSUME e[2] < restore.tracked[e[1]] PROVE <<e[1], restore.tracked[e[1]]>> \in gone
        <5>0. ASSUME NEW x \in Cycles, NEW y \in Cycles \cup {NoCycle}, x < y
              PROVE  y \in Cycles /\ y # NoCycle /\ ~(y <= x)
          BY <4>6, <5>0
        <5>1. restore.tracked[e[1]] \in Cycles
          BY <4>4, <4>5, <4>7, <5>0
        <5>2. restore.tracked[e[1]] # NoCycle /\ ~(restore.tracked[e[1]] <= e[2])
          BY <4>4, <4>5, <4>7, <5>0
        <5>3. <<e[1], restore.tracked[e[1]]>> \notin backups
          BY <4>3, <5>1, <5>2
        <5> QED
          BY <1>i, <3>6, <5>2, <5>3 DEF Known
      <4> QED
        BY <1>b, <2>1, <4>7 DEF Replaces
    <3> QED
      BY <1>t, <1>b, <1>r, <2>1, <3>2, <3>3, <3>4, <3>5, <3>6 DEF RollInv
  <2> QED
    BY <2>2, <2>4, <2>5
<1>4. CASE Create
  <2>1. PICK e \in job.todo :
          \/ AfterCreate(e, [job EXCEPT !.failed = TRUE])
          \/ AfterCreate(e, IF e[1] \in {"Credentials", "ResourcesGeneric"}
                            THEN [job EXCEPT !.obj = Track(@, e)] ELSE job)
          \/ AfterCreate(e, [job EXCEPT !.obj = Track(@, e), !.created = TRUE])
    BY <1>4 DEF Create
  <2>2. e \in Keys \X Cycles
    BY <1>j DEF Jobs
  <2>3. PICK j \in Jobs : /\ AfterCreate(e, j) /\ j.todo = job.todo /\ j.stale = job.stale
                          /\ j.obj = job.obj \/ j.obj = Track(job.obj, e)
    <3>1. Track(job.obj, e) \in Restores
      BY <1>j, <2>2, TrackType
    <3>2. LET j == [job EXCEPT !.failed = TRUE]
          IN  j \in Jobs /\ j.todo = job.todo /\ j.stale = job.stale /\ j.obj = job.obj
      BY <1>j DEF Jobs
    <3>3. LET j == [job EXCEPT !.obj = Track(@, e)]
          IN  j \in Jobs /\ j.todo = job.todo /\ j.stale = job.stale /\ j.obj = Track(job.obj, e)
      BY <1>j, <3>1 DEF Jobs
    <3>4. LET j == [job EXCEPT !.obj = Track(@, e), !.created = TRUE]
          IN  j \in Jobs /\ j.todo = job.todo /\ j.stale = job.stale /\ j.obj = Track(job.obj, e)
      BY <1>j, <3>1 DEF Jobs
    <3> QED
      BY <1>j, <2>1, <3>2, <3>3, <3>4
  <2>4. UNCHANGED <<restore, cached, fresh>> /\ pc = "create"
    BY <1>4 DEF Create, RestoreUnchanged
  <2>5. j.obj \in Restores /\ With(j.obj, "Started").tracked = j.obj.tracked
        /\ With(j.obj, "Started").spec = j.obj.spec
    BY WithType DEF Jobs, Phases
  <2>6. j.obj.spec = job.obj.spec
    BY <1>j, <2>2, <2>3, TrackType
  <2>7. /\ job'.stale = job.stale /\ job'.todo \subseteq job.todo
        /\ job'.obj = j.obj \/ job'.obj = With(j.obj, "Started")
    <3>1. \/ job' = [j EXCEPT !.obj = With(@, "Started"), !.todo = {}, !.after = TRUE]
          \/ job' = [j EXCEPT !.todo = j.todo \ {e}]
          \/ job' = [j EXCEPT !.todo = {}, !.obj = IF j.created THEN With(@, "Started") ELSE @,
                             !.eligible = noNewVeleroRestore(j)]
      BY <2>3 DEF AfterCreate
    <3> QED
      BY <2>3, <3>1 DEF Jobs
  <2>8. job'.obj.spec = job.obj.spec /\ job'.obj.tracked = j.obj.tracked
    BY <2>5, <2>6, <2>7
  <2>9. \A t \in BackupTypes :
          \/ job'.obj.tracked[t] = job.obj.tracked[t]
          \/ e[1] = t /\ job'.obj.tracked[t] = e[2] /\ BackupTypeOf(e[1]) = t
    BY <1>j, <2>2, <2>3, <2>8, TrackTracked
  <2>10. Known(job.obj)'
    <3>1. Known(job.obj) /\ <<BackupTypeOf(e[1]), e[2]>> \in backups \cup gone
      BY <2>4 DEF RollInv
    <3> QED
      BY <1>b, <2>9, <3>1 DEF Known
  <2>11. Current' => Current /\ job'.obj.spec = restore'.spec
    BY <2>4, <2>7, <2>8 DEF RollInv, Current
  <2>12. ASSUME Current', restore'.spec.sync, NEW t \in BackupTypes
         PROVE  Replaces(t, job.obj.tracked[t])'
    <3>1. Current /\ restore.spec.sync
      BY <2>4, <2>11, <2>12
    <3>2. Replaces(t, job.obj.tracked[t]) /\ (e[1] = t => Replaces(t, e[2]))
      BY <2>4, <2>12, <3>1 DEF RollInv
    <3> QED
      BY <1>b, <2>4, <2>9, <3>2 DEF Replaces
  <2>13. \A f \in job'.todo : <<BackupTypeOf(f[1]), f[2]>> \in backups' \cup gone'
    BY <1>b, <2>4, <2>7 DEF RollInv
  <2>14. (Current' /\ restore'.spec.sync) =>
           \A f \in job'.todo : f[1] \in BackupTypes => Replaces(f[1], f[2])'
    BY <1>b, <2>4, <2>7, <2>11 DEF RollInv, Replaces
  <2> QED
    BY <1>t, <1>b, <1>r, <2>4, <2>10, <2>11, <2>12, <2>13, <2>14 DEF RollInv
<1>5. CASE Cleanup
  <2>1. pc = "cleanup" /\ UNCHANGED <<restore, cached, fresh>>
    BY <1>5 DEF Cleanup, RestoreUnchanged
  <2>2. PICK obj \in Restores, stamped \in BOOLEAN :
          /\ Conclude(obj, stamped)
          /\ obj.spec = job.obj.spec /\ obj.tracked = job.obj.tracked
    <3>1. CASE job.eligible
      <4>1. PICK r \in setRestorePhase(job.obj, vrSeen) :
              Conclude(r.obj, r.cleanup \/ r.obj.phase \in Terminal)
        BY <1>5, <3>1 DEF Cleanup
      <4>2. r.obj \in Restores /\ (r.cleanup \/ r.obj.phase \in Terminal) \in BOOLEAN
            /\ r.obj.spec = job.obj.spec /\ r.obj.tracked = job.obj.tracked
        BY <1>j, SetRestorePhaseType
      <4> QED
        BY <4>1, <4>2
    <3>2. CASE ~job.eligible
      BY <1>5, <1>j, <3>2 DEF Cleanup
    <3> QED
      BY <3>1, <3>2
  <2>3. /\ pc' = "write" /\ job'.obj = [obj EXCEPT !.completed = @ \/ stamped]
        /\ job'.stale = job.stale
    BY <1>j, <2>2 DEF Conclude, Jobs
  <2>4. job'.obj.spec = job.obj.spec /\ job'.obj.tracked = job.obj.tracked
    BY <2>2, <2>3 DEF Restores
  <2> QED
    BY <1>s, <2>1, <2>3, <2>4
<1>6. CASE WriteStatus
  <2>1. pc = "write" /\ pc' = "idle" /\ ~job.stale
    BY <1>6 DEF WriteStatus, Return
  <2>2. CASE UNCHANGED <<restore, cached, fresh>>
    BY <1>t, <1>b, <1>r, <2>1, <2>2 DEF RollInv, Current
  <2>3. CASE RestoreChanged(job.obj)
    <3>1. restore' = job.obj /\ (cached' = job.obj \/ cached' = cached) /\ (fresh' => cached' = job.obj)
      BY <2>3 DEF RestoreChanged
    <3>2. job.obj.spec = restore.spec /\ Known(job.obj)
      BY <2>1 DEF RollInv, Current
    <3>3. Known(restore)' /\ Known(cached)'
      BY <1>b, <1>i, <3>1, <3>2 DEF Known
    <3> QED
      BY <1>t, <1>b, <1>i, <2>1, <3>1, <3>2, <3>3 DEF RollInv, Current
  <2> QED
    BY <1>6, <2>2, <2>3 DEF WriteStatus, RestoreUnchanged
<1>7. CASE Refused
  <2>1. pc' = "idle" /\ UNCHANGED <<restore, cached, fresh>>
    BY <1>7 DEF Refused, UpdateRefused, Return, apiVars
  <2> QED
    BY <1>t, <1>b, <1>r, <2>1 DEF RollInv, Current
<1> QED
  BY <1>1, <1>2, <1>3, <1>4, <1>5, <1>6, <1>7 DEF Reconcile

LEMMA RollEnvironment ==
    ASSUME RollInv, Environment
    PROVE  RollInv'
<1>t. TypeOK /\ TypeOK'
  BY TypeEnvironment DEF RollInv
<1>j. job \in Jobs /\ restore \in Restores
  BY <1>t DEF TypeOK
<1>i. /\ fresh => cached = restore
      /\ Known(restore) /\ Known(cached)
      /\ restore.spec.sync => isValidSyncOptions(restore.spec)
  BY DEF RollInv
<1>b. /\ backups' \cap gone' = {}
      /\ backups \cup gone \subseteq backups' \cup gone' /\ gone \subseteq gone'
  <2>1. CASE UNCHANGED <<backups, gone>>
    BY <2>1 DEF RollInv
  <2>2. ASSUME NEW b \in BackupTypes \X Cycles, BackupSynced(b) \/ BackupDeleted(b)
        PROVE  /\ backups' \cap gone' = {}
               /\ backups \cup gone \subseteq backups' \cup gone' /\ gone \subseteq gone'
    BY <2>2 DEF RollInv, BackupSynced, BackupDeleted
  <2>3. CASE \/ RequeueAfter \/ RestoreInformer \/ VeleroRestoreInformer \/ StorageLost
             \/ StorageBack \/ PVCsCreated \/ OtherStarts \/ OtherEnds \/ OperatorRestart
             \/ \E spec \in Specs : UserEdit(spec)
             \/ \E id \in Ids : VeleroStep(id) \/ VeleroRestoreDeleted(id)
    BY <2>1, <2>3 DEF RequeueAfter, RestoreInformer, VeleroRestoreInformer, StorageLost,
         StorageBack, PVCsCreated, OtherStarts, OtherEnds, OperatorRestart, UserEdit,
         VeleroStep, VeleroRestoreDeleted, apiVars
  <2> QED
    BY <2>2, <2>3 DEF Environment
<1>1. ASSUME UNCHANGED <<restore, cached, fresh, pc, job>> PROVE RollInv'
  <2>1. Known(restore)' /\ Known(cached)' /\ (Known(job.obj) => Known(job.obj)')
    BY <1>b, <1>i, <1>1 DEF Known
  <2>2. \A t, c : Replaces(t, c) => Replaces(t, c)'
    BY <1>b, <1>1 DEF Replaces
  <2>3. \A e \in job.todo : <<BackupTypeOf(e[1]), e[2]>> \in backups \cup gone =>
                              <<BackupTypeOf(e[1]), e[2]>> \in backups' \cup gone'
    BY <1>b
  <2>4. Current' = Current
    BY <1>1 DEF Current
  <2>5. (Current' /\ restore'.spec.sync) =>
          \A t \in BackupTypes : Replaces(t, job.obj.tracked[t])'
    BY <1>1, <2>2, <2>4 DEF RollInv
  <2>6. (Current' /\ pc' = "create" /\ restore'.spec.sync) =>
          \A e \in job'.todo : e[1] \in BackupTypes => Replaces(e[1], e[2])'
    BY <1>1, <2>2, <2>4 DEF RollInv
  <2> QED
    BY <1>t, <1>b, <1>1, <2>1, <2>3, <2>4, <2>5, <2>6 DEF RollInv
<1>2. ASSUME NEW spec \in Specs, UserEdit(spec) PROVE RollInv'
  <2>1. /\ restore' = [restore EXCEPT !.spec = spec] /\ (cached' = restore' \/ cached' = cached)
        /\ fresh' => cached' = restore'
        /\ UNCHANGED <<pc, backups, gone>>
        /\ validateRestore([restore EXCEPT !.spec = spec])
    BY <1>2 DEF UserEdit, RestoreChanged
  <2>2. restore'.spec = spec /\ restore'.tracked = restore.tracked
    BY <1>j, <2>1 DEF Restores
  <2>3. restore'.spec.sync => isValidSyncOptions(restore'.spec)
    BY <2>1, <2>2 DEF validateRestore
  <2>4. pc # "idle" => job'.obj = job.obj /\ job'.todo = job.todo
    BY <1>j, <1>2 DEF UserEdit, Jobs
  <2>5. ~Current'
    BY <1>j, <1>2 DEF UserEdit, Jobs, Current
  <2>6. Known(restore)' /\ Known(cached)'
    BY <1>i, <2>1, <2>2 DEF Known
  <2>7. pc' # "idle" => Known(job.obj)'
    BY <2>1, <2>4 DEF RollInv, Known
  <2>8. pc' = "create" => \A e \in job'.todo : <<BackupTypeOf(e[1]), e[2]>> \in backups' \cup gone'
    BY <2>1, <2>4 DEF RollInv
  <2> QED
    BY <1>t, <1>b, <2>1, <2>3, <2>5, <2>6, <2>7, <2>8 DEF RollInv
<1>3. CASE RestoreInformer
  <2>1. cached' = restore /\ UNCHANGED <<restore, pc, job, backups, gone>>
    BY <1>3 DEF RestoreInformer
  <2> QED
    BY <1>t, <1>b, <2>1 DEF RollInv, Known, Current, Replaces
<1>4. CASE OperatorRestart
  <2>1. cached' = restore /\ pc' = "idle" /\ UNCHANGED <<restore, backups, gone>>
    BY <1>4 DEF OperatorRestart, Return
  <2> QED
    BY <1>t, <1>b, <1>i, <2>1 DEF RollInv, Known, Current
<1>5. CASE RequeueAfter \/ VeleroRestoreInformer \/ StorageLost \/ StorageBack
             \/ PVCsCreated \/ OtherStarts \/ OtherEnds
             \/ (\E id \in Ids : VeleroStep(id) \/ VeleroRestoreDeleted(id))
             \/ (\E b \in BackupTypes \X Cycles : BackupSynced(b) \/ BackupDeleted(b))
  <2>1. UNCHANGED <<restore, cached, fresh, pc, job>>
    BY <1>5 DEF RequeueAfter, VeleroRestoreInformer, StorageLost, StorageBack,
         PVCsCreated, OtherStarts, OtherEnds, VeleroStep, VeleroRestoreDeleted,
         BackupSynced, BackupDeleted, apiVars, RestoreUnchanged
  <2> QED
    BY <1>1, <2>1
<1> QED
  BY <1>2, <1>3, <1>4, <1>5 DEF Environment

LEMMA RollStep == RollInv /\ [Next]_vars => RollInv'
<1> SUFFICES ASSUME RollInv, [Next]_vars PROVE RollInv'
  OBVIOUS
<1>1. CASE UNCHANGED vars
  BY <1>1 DEF vars, RollInv, TypeOK, Known, Current, Replaces
<1> QED
  BY <1>1, RollReconcile, RollEnvironment DEF Next

(* Whatever lags, fails or is interleaved, the status of a sync restore    *)
(* moves a type to an older backup only when the backup it named is gone:  *)
(* each pass takes the most recent backup, and a pass that planned before  *)
(* another write of the status cannot write its own.                       *)
THEOREM NeverRollsBack == Spec => SyncNeverRollsBack
<1> DEFINE Forward ==
             \A t \in BackupTypes :
               (restore.spec.sync /\ restore'.tracked[t] < restore.tracked[t]) =>
                 <<t, restore.tracked[t]>> \notin backups
<1>1. RollInv /\ [Next]_vars => RollInv'
  BY RollStep
<1>2. RollInv /\ [Next]_vars => [Forward]_vars
  <2> SUFFICES ASSUME RollInv, Next, NEW t \in BackupTypes, restore.spec.sync,
                      restore'.tracked[t] < restore.tracked[t]
               PROVE  <<t, restore.tracked[t]>> \notin backups
    OBVIOUS
  <2>0. restore \in Restores /\ job.obj \in Restores
    BY DEF RollInv, TypeOK, Jobs
  <2>1. ASSUME restore'.tracked = restore.tracked PROVE FALSE
    BY <2>0, <2>1, ReplacesItself
  <2>2. ASSUME Current, restore'.tracked = job.obj.tracked
        PROVE  <<t, restore.tracked[t]>> \notin backups
    BY <2>2 DEF RollInv, Replaces
  <2>3. CASE MarkStarted
    <3>1. With(job.obj, "Started").tracked = job.obj.tracked
      BY <2>0, WithType DEF Phases
    <3> QED
      BY <2>2, <2>3, <3>1 DEF MarkStarted, RestoreChanged, Current
  <2>4. CASE WriteStatus
    BY <2>1, <2>2, <2>4 DEF WriteStatus, RestoreUnchanged, RestoreChanged, Current
  <2>5. ASSUME NEW spec \in Specs, UserEdit(spec) PROVE FALSE
    BY <2>0, <2>1, <2>5 DEF UserEdit, RestoreChanged, Restores
  <2>6. CASE Begin \/ Plan \/ Create \/ Cleanup \/ Refused
    BY <2>1, <2>6 DEF Begin, Plan, Create, Cleanup, Refused, UpdateRefused,
         RestoreUnchanged, apiVars
  <2>7. CASE RequeueAfter \/ RestoreInformer \/ VeleroRestoreInformer \/ StorageLost
               \/ StorageBack \/ PVCsCreated \/ OtherStarts \/ OtherEnds \/ OperatorRestart
    BY <2>1, <2>7 DEF RequeueAfter, RestoreInformer, VeleroRestoreInformer, StorageLost,
         StorageBack, PVCsCreated, OtherStarts, OtherEnds, OperatorRestart, apiVars
  <2>8. CASE \/ \E id \in Ids : VeleroStep(id) \/ VeleroRestoreDeleted(id)
             \/ \E b \in BackupTypes \X Cycles : BackupSynced(b) \/ BackupDeleted(b)
    BY <2>1, <2>8 DEF VeleroStep, VeleroRestoreDeleted, BackupSynced, BackupDeleted,
         RestoreUnchanged
  <2> QED
    BY <2>3, <2>4, <2>5, <2>6, <2>7, <2>8 DEF Next, Reconcile, Environment
<1> QED
  BY <1>1, <1>2, RollInit, PTL DEF Spec, SyncNeverRollsBack

-----------------------------------------------------------------------------
(* What a lagging list of Velero restores may be relied on for.            *)

(* Velero has worked on a restore in this phase.                           *)
Worked(phase) == phase \notin {"absent", "New", "InProgress"}

SeenWorked(id) == Worked(vrSeen[id]) => Worked(vr[id])

(* The creation loop has still to come to this restore.                    *)
Due(id) == \E e \in job.todo : id = RestoreId(job.obj.spec, e)

(* Velero only moves restores on, and the operator deletes one only when   *)
(* its backup is gone: a restore that the list shows as worked on still is,*)
(* unless its backup is gone.  In the creation loop, whose restores had    *)
(* their backups when the pass planned them, it is in any case.            *)
SightInv ==
    /\ \A id \in Ids : (vr[id] # "absent" \/ vrSeen[id] # "absent") =>
                         <<id[1], id[2]>> \in backups \cup gone
    /\ \A id \in Ids : SeenWorked(id) \/ <<id[1], id[2]>> \in gone
    /\ pc = "create" => \A id \in Ids : Due(id) => SeenWorked(id)

(* One iteration of the loop, up to its end: the spec stays, and the list  *)
(* of what is to be created only gets shorter.                             *)
LEMMA CreateJob ==
    ASSUME TypeOK, Create
    PROVE  \E e \in job.todo, j \in Jobs :
              /\ AfterCreate(e, j)
              /\ j.obj.spec = job.obj.spec /\ j.todo = job.todo /\ j.gated = job.gated
<1>j. job \in Jobs /\ job.obj \in Restores
  BY DEF TypeOK, Jobs
<1>1. PICK e \in job.todo :
          \/ AfterCreate(e, [job EXCEPT !.failed = TRUE])
          \/ AfterCreate(e, IF e[1] \in {"Credentials", "ResourcesGeneric"}
                            THEN [job EXCEPT !.obj = Track(@, e)] ELSE job)
          \/ AfterCreate(e, [job EXCEPT !.obj = Track(@, e), !.created = TRUE])
  BY DEF Create
<1>2. e \in Keys \X Cycles
  BY <1>j DEF Jobs
<1>3. Track(job.obj, e) \in Restores /\ Track(job.obj, e).spec = job.obj.spec
  BY <1>j, <1>2, TrackType
<1>4. LET j == [job EXCEPT !.failed = TRUE]
      IN  j \in Jobs /\ j.obj.spec = job.obj.spec /\ j.todo = job.todo /\ j.gated = job.gated
  BY <1>j DEF Jobs
<1>5. LET j == [job EXCEPT !.obj = Track(@, e)]
      IN  j \in Jobs /\ j.obj.spec = job.obj.spec /\ j.todo = job.todo /\ j.gated = job.gated
  BY <1>j, <1>3 DEF Jobs
<1>6. LET j == [job EXCEPT !.obj = Track(@, e), !.created = TRUE]
      IN  j \in Jobs /\ j.obj.spec = job.obj.spec /\ j.todo = job.todo /\ j.gated = job.gated
  BY <1>j, <1>3 DEF Jobs
<1> QED
  BY <1>j, <1>1, <1>4, <1>5, <1>6

LEMMA CreateKeepsSpec ==
    ASSUME TypeOK, Create
    PROVE  job'.obj.spec = job.obj.spec /\ job'.todo \subseteq job.todo
<1>1. PICK e \in job.todo, j \in Jobs :
        /\ AfterCreate(e, j)
        /\ j.obj.spec = job.obj.spec /\ j.todo = job.todo /\ j.gated = job.gated
  BY CreateJob
<1>2. With(j.obj, "Started").spec = j.obj.spec
  BY WithType DEF Jobs, Phases
<1>3. /\ job'.obj = j.obj \/ job'.obj = With(j.obj, "Started")
      /\ job'.todo \subseteq j.todo
  BY <1>1 DEF AfterCreate, Jobs
<1> QED
  BY <1>1, <1>2, <1>3

LEMMA SightInit == Init => SightInv
BY DEF Init, SightInv, SeenWorked, Worked

(* A step that changes no Velero restore.                                  *)
LEMMA SightSame ==
    ASSUME SightInv, vr' = vr, vrSeen' = vrSeen \/ vrSeen' = vr,
           backups \cup gone \subseteq backups' \cup gone', gone \subseteq gone',
           pc' = "create" => pc = "create" /\ job'.todo \subseteq job.todo
                                           /\ job'.obj.spec = job.obj.spec
    PROVE  SightInv'
<1>1. \A id : SeenWorked(id) => SeenWorked(id)'
  BY DEF SeenWorked
<1>2. \A id : vr'[id] # "absent" \/ vrSeen'[id] # "absent" =>
                 vr[id] # "absent" \/ vrSeen[id] # "absent"
  OBVIOUS
<1>3. pc' = "create" => \A id : Due(id)' => Due(id)
  BY DEF Due, RestoreId
<1>4. pc' = "create" => \A id \in Ids : Due(id)' => SeenWorked(id)'
  BY <1>1, <1>3 DEF SightInv
<1> QED
  BY <1>1, <1>2, <1>4 DEF SightInv

LEMMA SightReconcile ==
    ASSUME RollInv, RollInv', SightInv, Reconcile
    PROVE  SightInv'
<1>t. TypeOK
  BY DEF RollInv
<1>j. job \in Jobs /\ vr \in [Ids -> VeleroPhases] /\ vrSeen \in [Ids -> VeleroPhases]
  BY <1>t DEF TypeOK
<1>b. UNCHANGED <<backups, gone>>
  BY DEF Reconcile, Begin, MarkStarted, Plan, Create, Cleanup, WriteStatus, Refused,
       UpdateRefused, apiVars
<1>1. CASE Begin \/ MarkStarted \/ WriteStatus \/ Refused
  <2>1. UNCHANGED <<vr, vrSeen>> /\ pc' # "create"
    BY <1>1 DEF Begin, MarkStarted, WriteStatus, Refused, UpdateRefused, apiVars, Return
  <2> QED
    BY <1>b, <2>1, SightSame
<1>2. CASE Plan
  <2>1. UNCHANGED <<vr, vrSeen>>
    BY <1>2 DEF Plan, apiVars
  <2>2. ASSUME pc' = "create"
        PROVE  /\ job'.obj = job.obj
               /\ \E only \in BOOLEAN : job'.todo = retrieveRestoreDetails(job.obj.spec, only)
    BY <1>2, <1>j, <2>2 DEF Plan, Jobs
  <2>3. ASSUME pc' = "create", NEW id \in Ids, Due(id)' PROVE SeenWorked(id)
    <3>1. PICK e \in job'.todo : id = RestoreId(job.obj.spec, e)
      BY <2>2, <2>3 DEF Due, RestoreId
    <3>2. PICK only \in BOOLEAN : e \in retrieveRestoreDetails(job.obj.spec, only)
      BY <2>2, <2>3
    <3>3. <<BackupTypeOf(e[1]), e[2]>> \in backups
      BY <3>2, PlanFromBackups
    <3>4. <<BackupTypeOf(e[1]), e[2]>> \notin gone
      BY <3>3 DEF RollInv
    <3>5. id[1] = BackupTypeOf(e[1]) /\ id[2] = e[2]
      BY <3>1 DEF RestoreId
    <3> QED
      BY <3>4, <3>5 DEF SightInv
  <2> QED
    BY <1>b, <2>1, <2>3 DEF SightInv, SeenWorked
<1>3. CASE Create
  <2>0. pc = "create"
    BY <1>3 DEF Create
  <2>1. PICK e \in job.todo :
          \/ UNCHANGED <<vr, vrSeen>>
          \/ /\ vr[RestoreId(job.obj.spec, e)] = "absent"
             /\ vr' = [vr EXCEPT ![RestoreId(job.obj.spec, e)] = "New"]
             /\ vrSeen' = vrSeen \/ vrSeen' = vr'
    BY <1>3 DEF Create, VRUnchanged, VRChanged
  <2>2. pc' = "create" => job'.todo \subseteq job.todo /\ job'.obj.spec = job.obj.spec
    BY <1>3, <1>t, CreateKeepsSpec
  <2>3. CASE UNCHANGED <<vr, vrSeen>>
    BY <1>b, <2>0, <2>2, <2>3, SightSame
  <2>4. CASE /\ vr[RestoreId(job.obj.spec, e)] = "absent"
             /\ vr' = [vr EXCEPT ![RestoreId(job.obj.spec, e)] = "New"]
             /\ vrSeen' = vrSeen \/ vrSeen' = vr'
    <3> DEFINE new == RestoreId(job.obj.spec, e)
    <3>1. e \in Keys \X Cycles
      BY <1>j DEF Jobs
    <3>2. new \in Ids /\ new[1] = BackupTypeOf(e[1]) /\ new[2] = e[2]
      BY <3>1, RestoreIdType DEF RestoreId
    <3>3. <<new[1], new[2]>> \in backups \cup gone
      BY <2>0, <3>2 DEF RollInv
    <3>4. SeenWorked(new)
      BY <2>0, <3>2 DEF SightInv, Due
    <3>5. ~Worked(vrSeen[new])
      BY <2>4, <3>4 DEF SeenWorked, Worked
    <3> HIDE DEF new
    <3>6. /\ vr'[new] = "New" /\ \A id \in Ids : id # new => vr'[id] = vr[id]
      BY <1>j, <2>4, <3>2 DEF new
    <3>7. \A id \in Ids : SeenWorked(id) => (Worked(vrSeen'[id]) => Worked(vr'[id]))
      BY <2>4, <3>2, <3>5, <3>6 DEF SeenWorked
    <3>8. \A id \in Ids : vr'[id] # "absent" \/ vrSeen'[id] # "absent" =>
                            id = new \/ vr[id] # "absent" \/ vrSeen[id] # "absent"
      BY <2>4, <3>6
    <3>9. pc' = "create" => \A id \in Ids : Due(id)' => Due(id)
      BY <2>2 DEF Due, RestoreId
    <3> QED
      BY <1>b, <2>0, <3>3, <3>7, <3>8, <3>9 DEF SightInv, SeenWorked
  <2> QED
    BY <2>1, <2>3, <2>4
<1>4. CASE Cleanup
  <2>1. PICK obj :
          /\ vr' = [id \in Ids |-> IF id \in Orphans(obj) THEN "absent" ELSE vr[id]]
          /\ vrSeen' = vrSeen \/ vrSeen' = vr'
          /\ pc' = "write"
    BY <1>4 DEF Cleanup, Conclude, VRChanged
  <2>2. \A id \in Orphans(obj) : id \in Ids /\ <<id[1], id[2]>> \in gone
    BY DEF Orphans, Existing, SightInv
  <2>3. \A id \in Ids : vr'[id] = vr[id] \/ (vr'[id] = "absent" /\ <<id[1], id[2]>> \in gone)
    BY <2>1, <2>2
  <2>4. \A id \in Ids : vr'[id] # "absent" \/ vrSeen'[id] # "absent" =>
                          vr[id] # "absent" \/ vrSeen[id] # "absent"
    BY <2>1, <2>3
  <2>5. \A id \in Ids : SeenWorked(id)' \/ <<id[1], id[2]>> \in gone
    BY <2>1, <2>3 DEF SightInv, SeenWorked
  <2> QED
    BY <1>b, <2>1, <2>4, <2>5 DEF SightInv
<1> QED
  BY <1>1, <1>2, <1>3, <1>4 DEF Reconcile

LEMMA SightEnvironment ==
    ASSUME "restoreGone" \notin Faults, RollInv, SightInv, Environment
    PROVE  SightInv'
<1>j. job \in Jobs /\ vr \in [Ids -> VeleroPhases] /\ vrSeen \in [Ids -> VeleroPhases]
  BY DEF RollInv, TypeOK
<1>1. ASSUME NEW id \in Ids, VeleroStep(id) PROVE SightInv'
  <2>1. PICK p \in VeleroNext(vr[id]) : VRChanged([vr EXCEPT ![id] = p])
    BY <1>1 DEF VeleroStep
  <2>2. vr' = [vr EXCEPT ![id] = p] /\ (vrSeen' = vrSeen \/ vrSeen' = vr')
    BY <2>1 DEF VRChanged
  <2>3. (Worked(vr[id]) => Worked(p)) /\ vr[id] # "absent"
    BY <2>1, ConstantsAssumption DEF VeleroNext, Worked
  <2>4. UNCHANGED <<backups, gone, pc, job>>
    BY <1>1 DEF VeleroStep
  <2>5. \A i \in Ids : Worked(vr[i]) => Worked(vr'[i])
    BY <1>j, <2>2, <2>3
  <2>6. \A i \in Ids : SeenWorked(i) => SeenWorked(i)'
    BY <2>2, <2>5 DEF SeenWorked
  <2>7. \A i \in Ids : vr'[i] # "absent" \/ vrSeen'[i] # "absent" =>
                         vr[i] # "absent" \/ vrSeen[i] # "absent"
    BY <1>j, <2>2, <2>3
  <2>8. \A i : Due(i)' => Due(i)
    BY <2>4 DEF Due, RestoreId
  <2> QED
    BY <2>4, <2>6, <2>7, <2>8 DEF SightInv
<1>2. ASSUME NEW id \in Ids, VeleroRestoreDeleted(id) PROVE FALSE
  BY <1>2 DEF VeleroRestoreDeleted, Fault, CanFail
<1>3. CASE \E spec \in Specs : UserEdit(spec)
  <2>1. UNCHANGED <<vr, vrSeen, backups, gone, pc>>
    BY <1>3 DEF UserEdit
  <2>2. job'.todo = job.todo /\ job'.obj = job.obj
    BY <1>3, <1>j DEF UserEdit, Jobs
  <2> QED
    BY <2>1, <2>2, SightSame
<1>4. CASE \/ RequeueAfter \/ RestoreInformer \/ VeleroRestoreInformer
           \/ (\E b \in BackupTypes \X Cycles : BackupSynced(b) \/ BackupDeleted(b))
           \/ StorageLost \/ StorageBack \/ PVCsCreated \/ OtherStarts \/ OtherEnds
           \/ OperatorRestart
  <2>1. vr' = vr /\ (vrSeen' = vrSeen \/ vrSeen' = vr) /\ (UNCHANGED <<pc, job>> \/ pc' = "idle")
    BY <1>4 DEF RequeueAfter, RestoreInformer, VeleroRestoreInformer, BackupSynced, BackupDeleted,
         StorageLost, StorageBack, PVCsCreated, OtherStarts, OtherEnds, OperatorRestart, Return,
         apiVars
  <2>2. backups \cup gone \subseteq backups' \cup gone' /\ gone \subseteq gone'
    BY <1>4 DEF RequeueAfter, RestoreInformer, VeleroRestoreInformer, BackupSynced, BackupDeleted,
         StorageLost, StorageBack, PVCsCreated, OtherStarts, OtherEnds, OperatorRestart, apiVars
  <2> QED
    BY <2>1, <2>2, SightSame
<1> QED
  BY <1>1, <1>2, <1>3, <1>4 DEF Environment

-----------------------------------------------------------------------------
(* The managed clusters come after their credentials and their PVCs.       *)

(* A set of cycles that is not empty has a most recent one.                *)
LEMMA MostRecent ==
    ASSUME NEW T \in SUBSET Nat, IsFiniteSet(T), T # {}
    PROVE  \E c \in T : \A d \in T : d <= c
<1> DEFINE Up(c) == {d \in T : c <= d}
           M == {Up(c) : c \in T}
<1>1. M \subseteq FiniteSubsetsOf(T) /\ M # {}
  <2>1. ASSUME NEW c \in T PROVE Up(c) \in SUBSET T /\ IsFiniteSet(Up(c))
    <3>1. Up(c) \in SUBSET T
      OBVIOUS
    <3> QED
      BY <3>1, FS_Subset
  <2> QED
    BY <2>1 DEF FiniteSubsetsOf
<1>2. PICK x \in M : \A y \in M : ~(<<y, x>> \in StrictSubsetOrdering(T))
  BY <1>1, FS_StrictSubsetOrderingWellFounded, WFMin
<1>3. PICK c \in T : x = Up(c)
  OBVIOUS
<1>4. ASSUME NEW d \in T, ~(d <= c) PROVE FALSE
  <2>0. c \in Nat /\ d \in Nat /\ c < d
    BY <1>4
  <2>1. Up(d) \subseteq Up(c) /\ c \in Up(c) /\ c \notin Up(d)
    <3>1. \A x1 \in T : x1 \in Nat
      OBVIOUS
    <3>2. \A x1 \in T : d <= x1 => c <= x1
      BY <2>0, <3>1
    <3>3. c <= c /\ ~(d <= c)
      BY <2>0
    <3> QED
      BY <3>2, <3>3
  <2>2. Up(d) \in SUBSET T /\ Up(c) \in SUBSET T
    OBVIOUS
  <2>3. <<Up(d), Up(c)>> \in StrictSubsetOrdering(T)
    <3> HIDE DEF Up
    <3> QED
      BY <2>1, <2>2 DEF StrictSubsetOrdering
  <2> QED
    BY <1>2, <1>3, <2>3
<1> QED
  BY <1>4

Has(entries, k) == \E e \in entries : e[1] = k

(* The condition of the gate: activation credentials that Velero has       *)
(* worked on, and the PVCs they ask for.                                   *)
Ready ==
    /\ pvcReady
    /\ \E d \in Cycles : Worked(vr[<<"Credentials", d, TRUE>>])

(* Without edits no sync restore asks for the managed clusters.            *)
AdmittedSync(obj) ==
    obj.spec.sync => isValidSyncOptions(obj.spec) /\ ("edit" \notin Faults => obj.spec.mc = skip)

(* While the managed clusters wait in the creation loop, either the        *)
(* activation credentials are still ahead of them or the gate is open.     *)
Gated(j) ==
    (j.obj.spec.creds # skip /\ Has(j.todo, "ManagedClusters")) =>
        j.gated /\ (Has(j.todo, "CredentialsActive") \/ Ready)

GateInv ==
    /\ TypeOK
    /\ "edit" \in Faults => \E c \in Cycles : <<"Credentials", c>> \in backups
    /\ AdmittedSync(restore) /\ AdmittedSync(cached) /\ (pc # "idle" => AdmittedSync(job.obj))
    /\ pc = "create" => Gated(job)

(* What the theorem assumes of the constants.                              *)
GateKept ==
    /\ "restoreGone" \notin Faults
    /\ "edit" \in Faults =>
         /\ "backupGone" \notin Faults
         /\ IsFiniteSet(Cycles)
         /\ \A B \in InitialBackups : \E c \in Cycles : <<"Credentials", c>> \in B

LEMMA GateInit == GateKept /\ Init => GateInv
<1> SUFFICES ASSUME GateKept, Init PROVE GateInv
  OBVIOUS
<1>1. PICK spec \in Specs : restore = NewRestore(spec) /\ validateRestore(NewRestore(spec))
  BY DEF Init
<1>2. restore.phase = "" /\ restore.spec = spec /\ restore.tracked = NoTracked
  BY <1>1 DEF NewRestore
<1>3. restore.tracked["ManagedClusters"] = NoCycle
  BY <1>2 DEF NoTracked, BackupTypes
<1>4. AdmittedSync(restore)
  BY <1>1, <1>2, <1>3 DEF AdmittedSync, validateRestore, IsPhaseEnabled
<1>5. pc = "idle" /\ cached = restore /\ vrSeen = vr /\ backups \in InitialBackups
  BY DEF Init
<1> QED
  BY <1>4, <1>5, TypeInit DEF GateInv, GateKept

(* A plan with the managed clusters and with credentials has the           *)
(* activation credentials: the pass reports a missing Credentials backup,  *)
(* and one that only activates relies on there being one.                  *)
LEMMA PlanHasCredentials ==
    ASSUME GateKept, TypeOK, NEW spec, NEW only \in BOOLEAN,
           ~BackupMissing(spec, only), spec.creds # skip,
           Has(retrieveRestoreDetails(spec, only), "ManagedClusters"),
           only => /\ "edit" \in Faults /\ spec.creds = latest
                   /\ \E c \in Cycles : <<"Credentials", c>> \in backups
    PROVE  Has(retrieveRestoreDetails(spec, only), "CredentialsActive")
<1>1. spec.mc # skip
  <2>1. SpecName(spec, "ManagedClusters") = spec.mc
    BY DEF SpecName
  <2> QED
    BY <2>1 DEF Has, retrieveRestoreDetails
<1>2. "CredentialsActive" \in RestoreKeys(spec, only)
  BY <1>1 DEF RestoreKeys, Keys, Active
<1>3. SpecName(spec, "CredentialsActive") = spec.creds /\ SpecName(spec, "Credentials") = spec.creds
  BY DEF SpecName
<1>4. BackupTypeOf("CredentialsActive") = "Credentials" /\ BackupTypeOf("Credentials") = "Credentials"
  BY DEF BackupTypeOf
<1> DEFINE cycles == {c \in Cycles : <<"Credentials", c>> \in backups}
<1>5. \E c \in Cycles : c \in getVeleroBackupName("CredentialsActive", spec.creds)
  <2>1. CASE ~only
    <3>1. "Credentials" \in RestoreKeys(spec, only) \ (Active \cup {"ResourcesGeneric"})
      BY <2>1 DEF RestoreKeys, Keys, BackupTypes, Active
    <3>2. getVeleroBackupName("Credentials", spec.creds) # {}
      BY <1>3, <3>1 DEF BackupMissing
    <3> QED
      BY <1>4, <3>2 DEF getVeleroBackupName
  <2>2. CASE only
    <3>1. IsFiniteSet(Cycles) /\ cycles \subseteq Cycles
      BY <2>2 DEF GateKept
    <3>2. cycles \in SUBSET Nat /\ IsFiniteSet(cycles) /\ cycles # {}
      BY <2>2, <3>1, FS_Subset, ConstantsAssumption
    <3>3. \E c \in cycles : \A d \in cycles : d <= c
      BY <3>2, MostRecent
    <3>4. getVeleroBackupName("CredentialsActive", spec.creds)
            = {c \in cycles : \A d \in cycles : d <= c}
      BY <1>4, <2>2 DEF getVeleroBackupName
    <3> QED
      BY <3>3, <3>4
  <2> QED
    BY <2>1, <2>2
<1>6. PICK c \in Cycles : c \in getVeleroBackupName("CredentialsActive", spec.creds)
  BY <1>5
<1>7. <<"CredentialsActive", c>> \in retrieveRestoreDetails(spec, only)
  BY <1>2, <1>3, <1>6 DEF retrieveRestoreDetails
<1> QED
  BY <1>7 DEF Has

(* The gate stays open while no restore is deleted: Velero moves a restore *)
(* that it has worked on only forward.                                     *)
LEMMA ReadyKept ==
    ASSUME Ready, pvcReady' = pvcReady \/ pvcReady' = TRUE,
           \A id \in Ids : Worked(vr[id]) => Worked(vr'[id])
    PROVE  Ready'
<1>1. PICK d \in Cycles : Worked(vr[<<"Credentials", d, TRUE>>])
  BY DEF Ready
<1>2. <<"Credentials", d, TRUE>> \in Ids
  BY DEF Ids, BackupTypes
<1>3. Worked(vr'[<<"Credentials", d, TRUE>>])
  BY <1>1, <1>2
<1>4. pvcReady'
  BY DEF Ready
<1> QED
  BY <1>3, <1>4 DEF Ready

(* An object with the spec of an admitted one is admitted.                 *)
LEMMA AdmittedSyncSame ==
    ASSUME NEW obj, NEW o, AdmittedSync(obj), o.spec = obj.spec
    PROVE  AdmittedSync(o)
BY DEF AdmittedSync

(* One iteration of the loop leaves the gate in place: the activation      *)
(* credentials leave the list only with the gate open, or end the loop.    *)
LEMMA GateAfterCreate ==
    ASSUME NEW j \in Jobs, NEW e \in j.todo, Gated(j), AfterCreate(e, j),
           Ready => Ready', pvcReady' = pvcReady,
           Worked(vrSeen'[RestoreId(j.obj.spec, e)]) => Worked(vr'[RestoreId(j.obj.spec, e)])
    PROVE  pc' = "create" => Gated(job)'
<1> SUFFICES ASSUME pc' = "create" PROVE Gated(job)'
  OBVIOUS
<1>1. /\ ~(e[1] = "CredentialsActive" /\ j.gated /\ processRestoreWait(RestoreId(j.obj.spec, e)))
      /\ job' = [j EXCEPT !.todo = j.todo \ {e}]
  BY DEF AfterCreate
<1>2. job'.todo = j.todo \ {e} /\ job'.obj = j.obj /\ job'.gated = j.gated
  BY <1>1 DEF Jobs
<1>3. ASSUME j.obj.spec.creds # skip, Has(j.todo \ {e}, "ManagedClusters")
      PROVE  j.gated /\ (Has(j.todo \ {e}, "CredentialsActive") \/ Ready')
  <2>1. Has(j.todo, "ManagedClusters")
    BY <1>3 DEF Has
  <2>2. j.gated /\ (Has(j.todo, "CredentialsActive") \/ Ready)
    BY <1>3, <2>1 DEF Gated
  <2>3. CASE e[1] # "CredentialsActive"
    BY <2>2, <2>3 DEF Has
  <2>4. CASE e[1] = "CredentialsActive"
    <3>1. e \in Keys \X Cycles
      BY DEF Jobs
    <3>2. RestoreId(j.obj.spec, e) = <<"Credentials", e[2], TRUE>>
      <4>1. BackupTypeOf(e[1]) = "Credentials" /\ e[1] \in Active
        BY <2>4 DEF BackupTypeOf, Active
      <4>2. (e[1] \in Active /\ SpecName(j.obj.spec, e[1]) # skip) = TRUE
        BY <1>3, <2>4, <4>1 DEF SpecName
      <4> QED
        BY <4>1, <4>2 DEF RestoreId
    <3>3. Worked(vr'[<<"Credentials", e[2], TRUE>>]) /\ pvcReady'
      BY <1>1, <2>2, <2>4, <3>2 DEF processRestoreWait, Worked
    <3>4. e[2] \in Cycles
      BY <3>1
    <3> QED
      BY <2>2, <3>3, <3>4 DEF Ready
  <2> QED
    BY <2>3, <2>4
<1> QED
  BY <1>2, <1>3 DEF Gated

LEMMA GateReconcile ==
    ASSUME GateKept, GateInv, RollInv, SightInv, Reconcile
    PROVE  GateInv'
<1>t. TypeOK /\ TypeOK'
  BY TypeReconcile DEF GateInv
<1>j. /\ job \in Jobs /\ job.obj \in Restores /\ cached \in Restores /\ restore \in Restores
      /\ job' \in Jobs /\ vr \in [Ids -> VeleroPhases]
  BY <1>t DEF TypeOK, Jobs
<1>b. AdmittedSync(restore) /\ AdmittedSync(cached)
  BY DEF GateInv
<1>a. pc # "idle" => AdmittedSync(job.obj)
  BY DEF GateInv
<1>k. "edit" \in Faults => \E c \in Cycles : <<"Credentials", c>> \in backups'
  <2>1. UNCHANGED backups
    BY DEF Reconcile, Begin, MarkStarted, Plan, Create, Cleanup, WriteStatus, Refused,
         UpdateRefused, apiVars
  <2> QED
    BY <2>1 DEF GateInv
<1>1. CASE Begin
  <2>1. UNCHANGED <<restore, cached>> /\ pc' # "create"
    BY <1>1 DEF Begin, apiVars, Return
  <2>2. NewJob(cached, ~fresh) \in Jobs /\ NewJob(cached, ~fresh).obj = cached
    BY <1>t, NewJobType DEF TypeOK, NewJob
  <2>3. ASSUME pc' # "idle" PROVE job'.obj.spec = cached.spec
    <3>1. \/ \E p \in {"Error", "FinishedWithErrors"}, about \in BOOLEAN :
               job'.obj = updateRestoreStatus(cached, p, about)
          \/ \E r \in setRestorePhase(cached, vrSeen) : job'.obj = r.obj
          \/ job' = NewJob(cached, ~fresh)
      BY <1>1, <2>2, <2>3 DEF Begin, Return, Jobs
    <3>2. {"Error", "FinishedWithErrors"} \subseteq Phases
      BY DEF Phases
    <3> QED
      BY <1>j, <2>2, <3>1, <3>2, UpdateStatusType, SetRestorePhaseType
  <2>4. pc' # "idle" => AdmittedSync(job'.obj)
    BY <1>b, <2>3, AdmittedSyncSame
  <2> QED
    BY <1>t, <1>k, <1>b, <2>1, <2>4 DEF GateInv
<1>2. CASE MarkStarted
  <2> DEFINE obj == With(job.obj, "Started")
  <2>1. obj.spec = job.obj.spec
    BY <1>j, WithType DEF Phases
  <2>2. pc = "mark" /\ pc' = "plan" /\ RestoreChanged(obj) /\ job' = [job EXCEPT !.obj = obj]
    BY <1>2 DEF MarkStarted
  <2>3. job'.obj = obj
    BY <1>j, <2>2 DEF Jobs
  <2>4. restore' = obj /\ (cached' = obj \/ cached' = cached)
    BY <2>2 DEF RestoreChanged
  <2>5. AdmittedSync(obj)
    BY <1>a, <2>1, <2>2, AdmittedSyncSame
  <2> HIDE DEF obj
  <2>6. AdmittedSync(restore') /\ AdmittedSync(cached') /\ AdmittedSync(job'.obj)
    BY <1>b, <2>3, <2>4, <2>5
  <2> QED
    BY <1>t, <1>k, <2>2, <2>6 DEF GateInv
<1>3. CASE Plan
  <2>1. pc = "plan" /\ UNCHANGED <<restore, cached, vr, pvcReady>>
    BY <1>3 DEF Plan, apiVars, envVars
  <2>2. AdmittedSync(job.obj)
    BY <1>a, <2>1
  <2>3. \/ pc' # "create" /\ job'.obj = job.obj
        \/ pc' # "create" /\ job'.obj = updateRestoreStatus(job.obj, "Error", FALSE)
        \/ pc' # "create" /\ job'.obj = updateRestoreStatus(job.obj, "Finished", FALSE)
        \/ /\ job'.obj = job.obj
           /\ \E only \in BOOLEAN :
                /\ only => isValidSyncOptions(job.obj.spec) /\ job.obj.spec.mc = latest
                /\ ~BackupMissing(job.obj.spec, only)
                /\ job'.todo = retrieveRestoreDetails(job.obj.spec, only)
                /\ job'.gated = Has(retrieveRestoreDetails(job.obj.spec, only), "ManagedClusters")
    BY <1>3, <1>j DEF Plan, Jobs, Has
  <2>4. job'.obj.spec = job.obj.spec
    <3>1. "Error" \in Phases /\ "Finished" \in Phases /\ FALSE \in BOOLEAN
      BY DEF Phases
    <3>2. /\ updateRestoreStatus(job.obj, "Error", FALSE).spec = job.obj.spec
          /\ updateRestoreStatus(job.obj, "Finished", FALSE).spec = job.obj.spec
      BY <1>j, <3>1, UpdateStatusType
    <3> QED
      BY <2>3, <3>2
  <2>5. AdmittedSync(job'.obj)
    BY <2>2, <2>4, AdmittedSyncSame
  <2>6. ASSUME pc' = "create" PROVE Gated(job)'
    <3>1. PICK only \in BOOLEAN :
                /\ only => isValidSyncOptions(job.obj.spec) /\ job.obj.spec.mc = latest
                /\ ~BackupMissing(job.obj.spec, only)
                /\ job'.todo = retrieveRestoreDetails(job.obj.spec, only)
                /\ job'.gated = Has(retrieveRestoreDetails(job.obj.spec, only), "ManagedClusters")
      BY <2>3, <2>6
    <3>2. only => /\ "edit" \in Faults /\ job.obj.spec.creds = latest
                  /\ \E c \in Cycles : <<"Credentials", c>> \in backups
      BY <2>2, <3>1, ConstantsAssumption DEF AdmittedSync, isValidSyncOptions, GateInv
    <3>3. ASSUME job.obj.spec.creds # skip, Has(job'.todo, "ManagedClusters")
          PROVE  Has(job'.todo, "CredentialsActive")
      BY <1>t, <3>1, <3>2, <3>3, PlanHasCredentials
    <3> QED
      BY <2>4, <3>1, <3>3 DEF Gated
  <2> QED
    BY <1>t, <1>k, <1>b, <2>1, <2>5, <2>6 DEF GateInv
<1>4. CASE Create
  <2>1. PICK e \in job.todo, j \in Jobs :
          /\ AfterCreate(e, j)
          /\ j.obj.spec = job.obj.spec /\ j.todo = job.todo /\ j.gated = job.gated
    BY <1>t, <1>4, CreateJob
  <2>2. RestoreId(job.obj.spec, e) \in Ids
    BY <1>j, RestoreIdType DEF Jobs
  <2>3. \/ UNCHANGED <<vr, vrSeen>>
        \/ \E id \in Ids : /\ Due(id) /\ vr[id] = "absent" /\ vr' = [vr EXCEPT ![id] = "New"]
                           /\ vrSeen' = vrSeen \/ vrSeen' = vr'
    BY <1>4, <1>j, RestoreIdType DEF Create, VRUnchanged, VRChanged, Due, Jobs
  <2>4. UNCHANGED <<restore, cached, pvcReady>> /\ pc = "create"
    BY <1>4 DEF Create, RestoreUnchanged, envVars
  <2>5. \A id \in Ids : Worked(vr[id]) => Worked(vr'[id])
    BY <1>j, <2>3 DEF Worked
  <2>6. Ready => Ready'
    BY <2>4, <2>5, ReadyKept
  <2>7. Worked(vrSeen'[RestoreId(j.obj.spec, e)]) => Worked(vr'[RestoreId(j.obj.spec, e)])
    <3>1. \A id \in Ids : Due(id) => SeenWorked(id)
      BY <2>4 DEF SightInv
    <3>2. \A id \in Ids : Due(id) => (Worked(vrSeen'[id]) => Worked(vr'[id]))
      BY <1>j, <2>3, <3>1 DEF SeenWorked, Worked
    <3> QED
      BY <2>1, <2>2, <3>2 DEF Due
  <2>8. Gated(j) /\ e \in j.todo
    <3>1. Gated(job)
      BY <2>4 DEF GateInv
    <3> QED
      BY <2>1, <3>1 DEF Gated
  <2>9. pc' = "create" => Gated(job)'
    BY <2>1, <2>4, <2>6, <2>7, <2>8, GateAfterCreate
  <2>10. AdmittedSync(job'.obj)
    BY <1>a, <1>t, <1>4, <2>4, CreateKeepsSpec, AdmittedSyncSame
  <2> QED
    BY <1>t, <1>k, <1>b, <2>4, <2>9, <2>10 DEF GateInv
<1>5. CASE Cleanup
  <2>1. pc = "cleanup" /\ UNCHANGED <<restore, cached>>
    BY <1>5 DEF Cleanup, RestoreUnchanged
  <2>2. PICK obj \in Restores, stamped \in BOOLEAN : Conclude(obj, stamped) /\ obj.spec = job.obj.spec
    <3>1. CASE job.eligible
      <4>1. PICK r \in setRestorePhase(job.obj, vrSeen) :
              Conclude(r.obj, r.cleanup \/ r.obj.phase \in Terminal)
        BY <1>5, <3>1 DEF Cleanup
      <4>2. r.obj \in Restores /\ (r.cleanup \/ r.obj.phase \in Terminal) \in BOOLEAN
            /\ r.obj.spec = job.obj.spec
        BY <1>j, SetRestorePhaseType
      <4> QED
        BY <4>1, <4>2
    <3>2. CASE ~job.eligible
      BY <1>5, <1>j, <3>2 DEF Cleanup
    <3> QED
      BY <3>1, <3>2
  <2>3. pc' = "write" /\ job'.obj = [obj EXCEPT !.completed = @ \/ stamped]
    BY <1>j, <2>2 DEF Conclude, Jobs
  <2>4. job'.obj.spec = job.obj.spec
    BY <2>2, <2>3 DEF Restores
  <2>5. AdmittedSync(job'.obj)
    BY <1>a, <2>1, <2>4, AdmittedSyncSame
  <2> QED
    BY <1>t, <1>k, <1>b, <2>1, <2>3, <2>5 DEF GateInv
<1>6. CASE WriteStatus
  <2>1. pc = "write" /\ pc' = "idle"
    BY <1>6 DEF WriteStatus, Return
  <2>2. \/ UNCHANGED <<restore, cached>>
        \/ restore' = job.obj /\ (cached' = job.obj \/ cached' = cached)
    BY <1>6 DEF WriteStatus, RestoreUnchanged, RestoreChanged
  <2>3. AdmittedSync(restore') /\ AdmittedSync(cached')
    BY <1>a, <1>b, <2>1, <2>2
  <2> QED
    BY <1>t, <1>k, <2>1, <2>3 DEF GateInv
<1>7. CASE Refused
  <2>1. pc' = "idle" /\ UNCHANGED <<restore, cached>>
    BY <1>7 DEF Refused, UpdateRefused, Return, apiVars
  <2> QED
    BY <1>t, <1>k, <1>b, <2>1 DEF GateInv
<1> QED
  BY <1>1, <1>2, <1>3, <1>4, <1>5, <1>6, <1>7 DEF Reconcile

LEMMA GateEnvironment ==
    ASSUME GateKept, GateInv, Environment
    PROVE  GateInv'
<1>t. TypeOK /\ TypeOK'
  BY TypeEnvironment DEF GateInv
<1>j. job \in Jobs /\ restore \in Restores /\ vr \in [Ids -> VeleroPhases]
  BY <1>t DEF TypeOK
<1>b. AdmittedSync(restore) /\ AdmittedSync(cached)
  BY DEF GateInv
<1>k. "edit" \in Faults => \E c \in Cycles : <<"Credentials", c>> \in backups'
  <2>1. "backupGone" \notin Faults => backups \subseteq backups'
    BY DEF Environment, RequeueAfter, UserEdit, RestoreInformer, VeleroRestoreInformer, VeleroStep,
         VeleroRestoreDeleted, BackupSynced, BackupDeleted, StorageLost, StorageBack, PVCsCreated,
         OtherStarts, OtherEnds, OperatorRestart, Fault, CanFail, apiVars
  <2> QED
    BY <2>1 DEF GateInv, GateKept
<1>1. ASSUME UNCHANGED <<restore, cached, pc, job>>, Ready => Ready'
      PROVE  GateInv'
  <2>1. Gated(job) => Gated(job)'
    BY <1>1 DEF Gated
  <2> QED
    BY <1>t, <1>k, <1>1, <2>1 DEF GateInv
<1>2. ASSUME NEW spec \in Specs, UserEdit(spec) PROVE GateInv'
  <2>1. /\ restore' = [restore EXCEPT !.spec = spec] /\ (cached' = restore' \/ cached' = cached)
        /\ UNCHANGED <<vr, vrSeen, pc, pvcReady>>
        /\ validateRestore([restore EXCEPT !.spec = spec])
    BY <1>2 DEF UserEdit, RestoreChanged, envVars
  <2>2. restore'.spec = spec
    BY <1>j, <2>1 DEF Restores
  <2>3. "edit" \in Faults
    BY <1>2 DEF UserEdit, Fault, CanFail
  <2>4. AdmittedSync(restore') /\ AdmittedSync(cached')
    BY <1>b, <2>1, <2>2, <2>3 DEF AdmittedSync, validateRestore
  <2>5. pc # "idle" => /\ job'.obj = job.obj /\ job'.todo = job.todo
                       /\ job'.gated = job.gated
    BY <1>j, <1>2 DEF UserEdit, Jobs
  <2>6. pc = "create" => Gated(job)'
    BY <2>1, <2>5 DEF GateInv, Gated, Ready
  <2> QED
    BY <1>t, <1>k, <1>b, <2>1, <2>4, <2>5, <2>6 DEF GateInv
<1>3. CASE RestoreInformer
  <2>1. cached' = restore /\ UNCHANGED <<restore, pc, job, vr, vrSeen, pvcReady>>
    BY <1>3 DEF RestoreInformer, envVars
  <2>2. Gated(job) => Gated(job)'
    BY <2>1 DEF Gated, Ready
  <2> QED
    BY <1>t, <1>k, <1>b, <2>1, <2>2 DEF GateInv
<1>4. CASE OperatorRestart
  <2>1. cached' = restore /\ pc' = "idle" /\ restore' = restore /\ vrSeen' = vr'
    BY <1>4 DEF OperatorRestart, Return
  <2> QED
    BY <1>t, <1>k, <1>b, <2>1 DEF GateInv
<1>5. ASSUME NEW id \in Ids, VeleroStep(id) PROVE GateInv'
  <2>1. PICK p \in VeleroNext(vr[id]) : vr' = [vr EXCEPT ![id] = p]
    BY <1>5 DEF VeleroStep, VRChanged
  <2>2. Worked(vr[id]) => Worked(p)
    BY <2>1, ConstantsAssumption DEF VeleroNext, Worked
  <2>3. UNCHANGED <<restore, cached, pc, job, pvcReady>>
    BY <1>5 DEF VeleroStep, RestoreUnchanged, envVars
  <2>4. \A i \in Ids : Worked(vr[i]) => Worked(vr'[i])
    BY <1>j, <2>1, <2>2
  <2> QED
    BY <1>1, <2>3, <2>4, ReadyKept
<1>6. ASSUME NEW id \in Ids, VeleroRestoreDeleted(id) PROVE GateInv'
  BY <1>6 DEF VeleroRestoreDeleted, Fault, CanFail, GateKept
<1>7. CASE PVCsCreated
  <2>1. UNCHANGED <<restore, cached, pc, job, vr, vrSeen>>
    BY <1>7 DEF PVCsCreated, apiVars
  <2>2. pvcReady' = TRUE
    BY <1>7 DEF PVCsCreated
  <2>3. Ready => Ready'
    BY <2>1, <2>2, ReadyKept
  <2> QED
    BY <1>1, <1>b, <2>1, <2>3
<1>8. CASE RequeueAfter \/ VeleroRestoreInformer \/ OtherStarts \/ OtherEnds \/ StorageLost
             \/ StorageBack \/ (\E b \in BackupTypes \X Cycles : BackupSynced(b) \/ BackupDeleted(b))
  <2>1. UNCHANGED <<restore, cached, pc, job, vr, pvcReady>>
    BY <1>8 DEF RequeueAfter, VeleroRestoreInformer, OtherStarts, OtherEnds, StorageLost,
         StorageBack, BackupSynced, BackupDeleted, apiVars, envVars
  <2>2. Ready => Ready'
    BY <2>1 DEF Ready
  <2> QED
    BY <1>1, <1>b, <2>1, <2>2
<1> QED
  BY <1>2, <1>3, <1>4, <1>5, <1>6, <1>7, <1>8 DEF Environment

(* The managed clusters of a spec with credentials are restored only once  *)
(* Velero has worked on the activation credentials and the PVCs exist, as  *)
(* long as nobody deletes Velero restores, however late the informers are. *)
(* A spec may be edited as long as a Credentials backup is there: the pass *)
(* that only activates a sync restore does not report its absence.         *)
THEOREM GateIsKept ==
    ASSUME "restoreGone" \notin Faults,
           "edit" \in Faults =>
             /\ "backupGone" \notin Faults
             /\ IsFiniteSet(Cycles)
             /\ \A B \in InitialBackups : \E c \in Cycles : <<"Credentials", c>> \in B
    PROVE  Spec => ActivationGate
<1> DEFINE Opened ==
             \A c \in Cycles :
               (/\ vr[<<"ManagedClusters", c, FALSE>>] = "absent"
                /\ vr'[<<"ManagedClusters", c, FALSE>>] = "New"
                /\ job.obj.spec.creds # skip) =>
                  /\ pvcReady
                  /\ \E d \in Cycles :
                       vr[<<"Credentials", d, TRUE>>] \notin {"absent", "New", "InProgress"}
<1>0. GateKept
  BY DEF GateKept
<1>1. GateInv /\ RollInv /\ SightInv /\ [Next]_vars => (GateInv /\ RollInv /\ SightInv)'
  <2> SUFFICES ASSUME GateInv, RollInv, SightInv, [Next]_vars
               PROVE  GateInv' /\ RollInv' /\ SightInv'
    OBVIOUS
  <2>1. RollInv'
    BY RollStep
  <2>2. CASE UNCHANGED vars
    <3>1. GateInv'
      BY <2>2 DEF vars, GateInv, TypeOK, Gated, Ready
    <3>2. SightInv'
      BY <2>2, SightSame DEF vars
    <3> QED
      BY <2>1, <3>1, <3>2
  <2>3. CASE Reconcile
    BY <1>0, <2>1, <2>3, GateReconcile, SightReconcile
  <2>4. CASE Environment
    BY <1>0, <2>1, <2>4, GateEnvironment, SightEnvironment DEF GateKept
  <2> QED
    BY <2>2, <2>3, <2>4 DEF Next
<1>2. GateInv /\ [Next]_vars => [Opened]_vars
  <2> SUFFICES ASSUME GateInv, Next, NEW c \in Cycles,
                      vr[<<"ManagedClusters", c, FALSE>>] = "absent",
                      vr'[<<"ManagedClusters", c, FALSE>>] = "New",
                      job.obj.spec.creds # skip
               PROVE  Ready
    BY DEF Ready, Worked
  <2>1. vr \in [Ids -> VeleroPhases] /\ <<"ManagedClusters", c, FALSE>> \in Ids
    BY DEF GateInv, TypeOK, Ids, BackupTypes
  <2>2. CASE Create
    <3>1. PICK e \in job.todo :
            /\ \A f \in job.todo : ResourceTypePriority[e[1]] <= ResourceTypePriority[f[1]]
            /\ vr' = vr \/ vr' = [vr EXCEPT ![RestoreId(job.obj.spec, e)] = "New"]
      BY <2>2 DEF Create, VRUnchanged, VRChanged
    <3>2. e[1] \in Keys
      BY DEF GateInv, TypeOK, Jobs
    <3>3. RestoreId(job.obj.spec, e) = <<"ManagedClusters", c, FALSE>>
      BY <2>1, <3>1
    <3>4. BackupTypeOf(e[1]) = "ManagedClusters"
      BY <3>3 DEF RestoreId
    <3>5. e[1] = "ManagedClusters"
      BY <3>2, <3>4 DEF BackupTypeOf
    <3>6. ~Has(job.todo, "CredentialsActive")
      <4>1. ResourceTypePriority["ManagedClusters"] = 5 /\ ResourceTypePriority["CredentialsActive"] = 4
        BY DEF ResourceTypePriority, Keys, BackupTypes, Active
      <4> QED
        BY <3>1, <3>5, <4>1 DEF Has
    <3>7. pc = "create" /\ Has(job.todo, "ManagedClusters")
      BY <2>2, <3>5 DEF Create, Has
    <3> QED
      BY <3>6, <3>7 DEF GateInv, Gated
  <2>3. CASE Cleanup
    <3>1. \A id \in Ids : vr'[id] = "absent" \/ vr'[id] = vr[id]
      BY <2>3 DEF Cleanup, Conclude, VRChanged
    <3> QED
      BY <2>1, <3>1
  <2>4. ASSUME NEW i \in Ids, VeleroStep(i) \/ VeleroRestoreDeleted(i) PROVE FALSE
    <3>1. VeleroNext("absent") = {}
      BY DEF VeleroNext
    <3>2. \E p : vr' = [vr EXCEPT ![i] = p] /\ (vr[i] = "absent" => p # "New")
      BY <2>4, <3>1 DEF VeleroStep, VeleroRestoreDeleted, VRChanged
    <3> QED
      BY <2>1, <3>2
  <2>5. ASSUME UNCHANGED vr PROVE FALSE
    BY <2>5
  <2>6. CASE Begin \/ MarkStarted \/ Plan \/ WriteStatus \/ Refused
    BY <2>5, <2>6 DEF Begin, MarkStarted, Plan, WriteStatus, Refused, UpdateRefused, apiVars
  <2>7. CASE RequeueAfter \/ RestoreInformer \/ VeleroRestoreInformer \/ StorageLost
               \/ StorageBack \/ PVCsCreated \/ OtherStarts \/ OtherEnds \/ OperatorRestart
    BY <2>5, <2>7 DEF RequeueAfter, RestoreInformer, VeleroRestoreInformer, StorageLost,
         StorageBack, PVCsCreated, OtherStarts, OtherEnds, OperatorRestart, apiVars
  <2>8. CASE \/ \E spec \in Specs : UserEdit(spec)
             \/ \E b \in BackupTypes \X Cycles : BackupSynced(b) \/ BackupDeleted(b)
    BY <2>5, <2>8 DEF UserEdit, BackupSynced, BackupDeleted
  <2> QED
    BY <2>2, <2>3, <2>4, <2>6, <2>7, <2>8 DEF Next, Reconcile, Environment
<1> QED
  BY <1>0, <1>1, <1>2, GateInit, RollInit, SightInit, PTL DEF Spec, ActivationGate

=============================================================================
