------------------------ MODULE RestoreContractProofs ------------------------
(* RestoreReconciler implements RestoreContract.                           *)
EXTENDS RestoreReconcilerProofs

(* A write of the status is a report, and of a Restore that is done it     *)
(* changes nothing the contract speaks of.                                 *)
LEMMA WriteReports ==
    ASSUME SoundInv', UNCHANGED vr,
           restore.phase \in Terminal =>
               restore'.phase = restore.phase /\ restore'.tracked = restore.tracked
    PROVE  Contract!Next \/ UNCHANGED Contract!vars
<1>1. UNCHANGED Work
  BY DEF Work
<1>2. CASE restore.phase \in Terminal
  BY <1>1, <1>2 DEF Contract!vars, Counted
<1>3. CASE restore.phase \notin Terminal
  <2>1. restore'.phase \in Phases
    BY DEF SoundInv, TypeOK, Restores
  <2>2. Counted' \in SUBSET Ids
    BY DEF Counted
  <2>3. ASSUME restore'.phase = "Finished", NEW id \in Counted'
        PROVE  Work[id] \in {"none", "done"}
    <3>1. id \in Ids /\ (restore'.tracked = NoTracked \/ restore'.tracked[id[1]] = id[2])
      BY DEF Counted
    <3>2. vr[id] = "absent" \/ vr[id] = "Completed"
      BY <2>3, <3>1 DEF SoundInv, AllCompleted, getLatestVeleroRestores, Existing, NoTracked
    <3> QED
      BY <3>1, <3>2 DEF Work, WorkOf
  <2>4. Contract!Report(restore'.phase, Counted')
    BY <1>1, <1>3, <2>3 DEF Contract!Report, Contract!Final, Terminal
  <2> QED
    BY <2>1, <2>2, <2>4 DEF Contract!Next
<1> QED
  BY <1>2, <1>3

(* A Velero restore that is created is started.                            *)
LEMMA CreateStarts ==
    ASSUME SoundInv, UNCHANGED restore, NEW id \in Ids, vr[id] = "absent",
           vr' = [vr EXCEPT ![id] = "New"], restore.phase \notin Terminal
    PROVE  Contract!Next
<1>1. vr \in [Ids -> VeleroPhases]
  BY DEF SoundInv, TypeOK
<1>2. Work[id] = "none" /\ Work' = [Work EXCEPT ![id] = "open"]
  BY <1>1 DEF Work, WorkOf
<1>3. UNCHANGED Counted
  BY DEF Counted
<1> QED
  BY <1>2, <1>3 DEF Contract!Next, Contract!Start, Contract!Final, Terminal

(* Velero restores that are deleted are forgotten.                         *)
LEMMA DeleteForgets ==
    ASSUME UNCHANGED restore, NEW lost \in SUBSET Ids,
           vr' = [id \in Ids |-> IF id \in lost THEN "absent" ELSE vr[id]]
    PROVE  Contract!Next
<1>1. Work' = [id \in Ids |-> IF id \in lost THEN "none" ELSE Work[id]]
  BY DEF Work, WorkOf
<1>2. UNCHANGED Counted
  BY DEF Counted
<1> QED
  BY <1>1, <1>2 DEF Contract!Next, Contract!Forget

(* A step of Velero leaves a restore under way or ends it.                 *)
LEMMA VeleroEnds ==
    ASSUME SoundInv, UNCHANGED restore, NEW id \in Ids, NEW p \in VeleroNext(vr[id]),
           vr' = [vr EXCEPT ![id] = p]
    PROVE  Contract!Next \/ UNCHANGED Contract!vars
<1>1. vr \in [Ids -> VeleroPhases]
  BY DEF SoundInv, TypeOK
<1>2. /\ WorkOf(vr[id]) = "open"
      /\ WorkOf(p) \in {"open", "done", "bad"}
  BY <1>1, ConstantsAssumption DEF VeleroNext, WorkOf, VeleroPhases
<1>3. Work[id] = "open" /\ Work' = [Work EXCEPT ![id] = WorkOf(p)]
  BY <1>1, <1>2 DEF Work
<1>4. UNCHANGED Counted
  BY DEF Counted
<1>5. CASE WorkOf(p) = "open"
  <2>1. UNCHANGED Work
    BY <1>3, <1>5 DEF Work
  <2> QED
    BY <1>4, <2>1 DEF Contract!vars
<1>6. CASE WorkOf(p) \in {"done", "bad"}
  <2>1. Contract!End(id)
    BY <1>3, <1>4, <1>6 DEF Contract!End
  <2> QED
    BY <2>1 DEF Contract!Next
<1> QED
  BY <1>2, <1>5, <1>6

LEMMA ContractInit == Init => Contract!Init
<1> SUFFICES ASSUME Init PROVE Contract!Init
  OBVIOUS
<1>1. restore.phase = "" /\ restore.tracked = NoTracked
  <2>1. PICK spec \in Specs : restore = NewRestore(spec)
    BY DEF Init
  <2> QED
    BY <2>1 DEF NewRestore
<1>2. Counted = Ids
  BY <1>1 DEF Counted
<1>3. Work = [id \in Ids |-> "none"]
  BY DEF Init, Work, WorkOf
<1> QED
  BY <1>1, <1>2, <1>3 DEF Contract!Init

LEMMA ContractStep ==
    ASSUME Lagging = {}, SoundInv, SoundInv', Next
    PROVE  Contract!Next \/ UNCHANGED Contract!vars
<1>1. CASE UNCHANGED <<restore, vr>>
  BY <1>1 DEF Contract!vars, Counted, Work
<1>2. CASE MarkStarted \/ WriteStatus
  BY <1>2, WriteReports DEF MarkStarted, WriteStatus, SoundInv
<1>3. ASSUME NEW spec \in Specs, UserEdit(spec)
      PROVE  Contract!Next \/ UNCHANGED Contract!vars
  <2>1. restore'.phase = restore.phase /\ restore'.tracked = restore.tracked /\ UNCHANGED vr
    BY <1>3 DEF UserEdit, RestoreChanged, SoundInv, TypeOK, Restores
  <2> QED
    BY <2>1, WriteReports
<1>4. CASE Create
  <2>1. UNCHANGED restore /\ restore.phase \notin Terminal
    BY <1>4 DEF Create, RestoreUnchanged, SoundInv
  <2>2. CASE UNCHANGED vr
    BY <1>1, <2>1, <2>2
  <2>3. CASE ~UNCHANGED vr
    <3>1. PICK e \in job.todo :
                 /\ vr[RestoreId(job.obj.spec, e)] = "absent"
                 /\ vr' = [vr EXCEPT ![RestoreId(job.obj.spec, e)] = "New"]
      BY <1>4, <2>3 DEF Create, VRUnchanged, VRChanged
    <3>2. e \in Keys \X Cycles
      BY <3>1 DEF SoundInv, TypeOK, Jobs
    <3> QED
      BY <2>1, <3>1, <3>2, RestoreIdType, CreateStarts
  <2> QED
    BY <2>2, <2>3
<1>5. CASE Cleanup
  <2>1. PICK obj : vr' = [id \in Ids |-> IF id \in Orphans(obj) THEN "absent" ELSE vr[id]]
    BY <1>5 DEF Cleanup, Conclude, VRChanged
  <2>2. UNCHANGED restore
    BY <1>5 DEF Cleanup, RestoreUnchanged
  <2>3. Orphans(obj) \in SUBSET Ids
    BY DEF Orphans, Existing
  <2> QED
    BY <2>1, <2>2, <2>3, DeleteForgets
<1>6. ASSUME NEW id \in Ids, VeleroStep(id)
      PROVE  Contract!Next \/ UNCHANGED Contract!vars
  <2>1. PICK p \in VeleroNext(vr[id]) : vr' = [vr EXCEPT ![id] = p]
    BY <1>6 DEF VeleroStep, VRChanged
  <2>2. UNCHANGED restore
    BY <1>6 DEF VeleroStep, RestoreUnchanged
  <2> QED
    BY <2>1, <2>2, VeleroEnds
<1>7. ASSUME NEW id \in Ids, VeleroRestoreDeleted(id)
      PROVE  Contract!Next \/ UNCHANGED Contract!vars
  <2>1. vr' = [vr EXCEPT ![id] = "absent"] /\ UNCHANGED restore
    BY <1>7 DEF VeleroRestoreDeleted, VRChanged, RestoreUnchanged
  <2>2. vr' = [i \in Ids |-> IF i \in {id} THEN "absent" ELSE vr[i]]
    BY <2>1 DEF SoundInv, TypeOK
  <2>3. {id} \in SUBSET Ids
    BY <1>7
  <2> QED
    BY <2>1, <2>2, <2>3, DeleteForgets
<1>8. CASE Begin \/ Plan \/ Refused
  BY <1>1, <1>8 DEF Begin, Plan, Refused, UpdateRefused, apiVars
<1>9. CASE RequeueAfter \/ RestoreInformer \/ VeleroRestoreInformer \/ StorageLost
             \/ StorageBack \/ PVCsCreated \/ OtherStarts \/ OtherEnds \/ OperatorRestart
  BY <1>1, <1>9 DEF RequeueAfter, RestoreInformer, VeleroRestoreInformer, StorageLost,
       StorageBack, PVCsCreated, OtherStarts, OtherEnds, OperatorRestart, apiVars
<1>10. CASE \E b \in BackupTypes \X Cycles : BackupSynced(b) \/ BackupDeleted(b)
  BY <1>1, <1>10 DEF BackupSynced, BackupDeleted
<1> QED
  BY <1>2, <1>3, <1>4, <1>5, <1>6, <1>7, <1>8, <1>9, <1>10 DEF Next, Reconcile, Environment

(* The controller keeps the contract of its status, for any backups, specs *)
(* and faults, as long as the informers are up to date and no list of the  *)
(* backups fails: the detailed specification implements the abstract one.  *)
THEOREM ContractIsKept ==
    ASSUME Lagging = {}, "listError" \notin Faults
    PROVE  Spec => KeepsContract
<1>1. SoundInv /\ [Next]_vars => SoundInv'
  BY SoundStep
<1>2. SoundInv /\ SoundInv' /\ [Next]_vars => [Contract!Next]_(Contract!vars)
  <2> SUFFICES ASSUME SoundInv, SoundInv', [Next]_vars
               PROVE  Contract!Next \/ UNCHANGED Contract!vars
    OBVIOUS
  <2>1. CASE Next
    BY <2>1, ContractStep
  <2>2. CASE UNCHANGED vars
    BY <2>2 DEF vars, Contract!vars, Counted, Work
  <2> QED
    BY <2>1, <2>2
<1> QED
  BY <1>1, <1>2, SoundInit, ContractInit, PTL DEF Spec, KeepsContract, Contract!Spec

=============================================================================
