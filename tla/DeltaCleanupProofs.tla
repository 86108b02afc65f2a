-------------------------- MODULE DeltaCleanupProofs -------------------------
(***************************************************************************)
(* Theorems about DeltaCleanup: any number of backups and of Restores one  *)
(* after the other, any labels, any outcome of the Velero restores.        *)
(***************************************************************************)
EXTENDS DeltaCleanup, SequenceTheorems, TLAPS

-----------------------------------------------------------------------------
(* The inductive invariants.                                               *)

Always == {"Credentials", "Resources", "ResourcesGeneric"}

(* The types that are tracked come from one backup, those that are always  *)
(* restored all together, the managed clusters only if they are asked for. *)
TrackInv ==
    /\ tracked["Resources"] <= Len(backups)
    /\ \A type \in Always : tracked[type] = tracked["Resources"]
    /\ tracked["ManagedClusters"] \in {0, tracked["Resources"]}
    /\ rst.mc = "skip" => tracked["ManagedClusters"] = 0
    /\ rst.phase \in {"InProgress", "Enabled", "EnabledError"} => tracked["Resources"] # 0

(* So do the Velero restores.                                              *)
JobsInv ==
    \A key \in Keys :
        jobs[key].state # "none" =>
            jobs[key].backup = tracked["Resources"] /\ tracked["Resources"] # 0

(* A Restore that is through with its Velero restores waits for none, and  *)
(* one that cleaned up has restored a backup.                              *)
PhaseInv ==
    rst.phase \in {"Enabled", "Finished"} =>
        /\ \A key \in Keys : jobs[key].state # "new"
        /\ rst.cleanup # "None" => tracked["Resources"] # 0

(* What a restore brought is as the backup has it.                         *)
CopyInv ==
    copy.from # NoCopy.from =>
        \E type \in Types, n \in 1..Len(backups) :
            /\ copy.from = <<type, n>>
            /\ Holds(backups[n], type) /\ copy.label = backups[n].label

(* What a completed Velero restore was to bring is there.                  *)
Brings(key) ==
    /\ jobs[key].state = "done"
    /\ Holds(backups[jobs[key].backup], TypeOf(key))
    /\ Selected(key, backups[jobs[key].backup].label)

BroughtInv ==
    \A key \in Keys : Brings(key) =>
        /\ copy.from = <<TypeOf(key), jobs[key].backup>>
        /\ copy.label = backups[jobs[key].backup].label

(* The managed clusters are restored only where they were asked for.       *)
ActivatedInv ==
    /\ rst.mc = "latest" => activated
    /\ \A key \in Keys \ Always : jobs[key].state # "none" => activated

-----------------------------------------------------------------------------
(* The selectors.                                                          *)

Backups == [lost: SUBSET Lost, label: Labels \cup {Gone}]

(* Which objects each type of backup holds, spelled out.                   *)
LEMMA HoldsWhat ==
    ASSUME kind \in AllKinds, NEW b
    PROVE  /\ Holds(b, "Credentials") <=>
                b.label # Gone /\ kind = "secret" /\ b.label # "none"
           /\ Holds(b, "Resources") <=>
                b.label # Gone /\ kind = "resource" /\ kind \notin b.lost /\ ~ClusterLabel(b.label)
           /\ Holds(b, "ResourcesGeneric") <=>
                /\ b.label # Gone /\ ClusterLabel(b.label)
                /\ kind \in {"resource", "other", "core"} \/ (kind = "hive" /\ kind \in b.lost)
           /\ Holds(b, "ManagedClusters") <=>
                b.label # Gone /\ (kind = "cluster" \/ (kind = "hive" /\ kind \notin b.lost))
<1> USE DEF Holds, getResourcesByBackupType, resourcesToBackup, Labelled, AllKinds
<1>1. Holds(b, "Credentials") <=> b.label # Gone /\ kind = "secret" /\ b.label # "none"
  OBVIOUS
<1>2. Holds(b, "Resources") <=>
        b.label # Gone /\ kind = "resource" /\ kind \notin b.lost /\ ~ClusterLabel(b.label)
  OBVIOUS
<1>3. Holds(b, "ResourcesGeneric") <=>
        /\ b.label # Gone /\ ClusterLabel(b.label)
        /\ kind \in {"resource", "other", "core"} \/ (kind = "hive" /\ kind \in b.lost)
  OBVIOUS
<1>4. Holds(b, "ManagedClusters") <=>
        b.label # Gone /\ (kind = "cluster" \/ (kind = "hive" /\ kind \notin b.lost))
  OBVIOUS
<1> QED
  BY <1>1, <1>2, <1>3, <1>4

(* No two types of backup hold the same object.                            *)
LEMMA HoldsOnce ==
    ASSUME kind \in AllKinds, NEW b, NEW t \in Types, NEW u \in Types, Holds(b, t), Holds(b, u)
    PROVE  t = u
BY HoldsWhat DEF Types

(* The type of a Velero restore.                                           *)
LEMMA TypeOfKey ==
    /\ \A type \in Types : TypeOf(type) = type
    /\ TypeOf("CredentialsActive") = "Credentials"
    /\ TypeOf("ResourcesGenericActive") = "ResourcesGeneric"
    /\ \A key \in Keys : TypeOf(key) \in Types
BY DEF TypeOf, Keys, Types

(* No two Velero restores of one backup take the same object.              *)
LEMMA TakenOnce ==
    ASSUME kind \in AllKinds, NEW b, NEW k \in Keys, NEW l \in Keys,
           Holds(b, TypeOf(k)), Selected(k, b.label), Holds(b, TypeOf(l)), Selected(l, b.label)
    PROVE  k = l
<1>1. TypeOf(k) = TypeOf(l)
  BY HoldsOnce, TypeOfKey
<1>2. TypeOf(k) \in {"Resources", "ManagedClusters"} => k = l
  BY <1>1 DEF TypeOf, Keys, Types
<1>3. CASE TypeOf(k) = "Credentials"
  <2>1. k \in {"Credentials", "CredentialsActive"} /\ l \in {"Credentials", "CredentialsActive"}
    BY <1>1, <1>3 DEF TypeOf, Keys, Types
  <2> QED
    BY <2>1 DEF Selected
<1>4. CASE TypeOf(k) = "ResourcesGeneric"
  <2>1. /\ k \in {"ResourcesGeneric", "ResourcesGenericActive"}
        /\ l \in {"ResourcesGeneric", "ResourcesGenericActive"}
    BY <1>1, <1>4 DEF TypeOf, Keys, Types
  <2> QED
    BY <2>1 DEF Selected
<1> QED
  BY <1>2, <1>3, <1>4, TypeOfKey DEF Types

-----------------------------------------------------------------------------
(* Type correctness.                                                       *)

RestoreStates ==
    [phase: {"", "InProgress", "Enabled", "EnabledError", "Error", "Finished", "FinishedWithErrors"},
     mc: {"skip", "latest"}, sync: BOOLEAN, cleanup: Cleanups \cup {"None"}]

JobStates == [backup: 0..MaxBackups, state: {"none", "new"} \cup Outcomes]

LEMMA BackupsType ==
    ASSUME TypeOK
    PROVE  /\ backups \in Seq(Backups) /\ Len(backups) \in 0..MaxBackups
           /\ \A n \in 1..Len(backups) : backups[n] \in Backups
           /\ kind \in AllKinds
<1>1. backups \in Seq(Backups) /\ Len(backups) <= MaxBackups
  BY DEF TypeOK, Backups
<1>2. Len(backups) \in Nat
  BY <1>1, LenProperties
<1>3. Len(backups) \in 0..MaxBackups
  BY <1>1, <1>2, CleanupAssumption
<1>4. \A n \in 1..Len(backups) : backups[n] \in Backups
  BY <1>1, ElementOfSeq
<1>5. kind \in AllKinds
  BY CleanupAssumption DEF TypeOK
<1> QED
  BY <1>1, <1>3, <1>4, <1>5

LEMMA TakeBackupShape ==
    ASSUME TypeOK, TakeBackup
    PROVE  /\ backups' \in Seq(Backups) /\ Len(backups') = Len(backups) + 1
           /\ Len(backups') <= MaxBackups
           /\ \A n \in 1..Len(backups) : backups'[n] = backups[n]
<1>1. PICK b \in Backups : backups' = Append(backups, b)
  <2>1. PICK lost \in SUBSET (Lost \cap {kind}), label \in LabelsOf(kind) \cup {Gone} :
            backups' = Append(backups, [lost |-> lost, label |-> label])
    BY DEF TakeBackup
  <2>2. [lost |-> lost, label |-> label] \in Backups
    BY DEF Backups, LabelsOf
  <2> QED
    BY <2>1, <2>2
<1>2. Len(backups) < MaxBackups
  BY DEF TakeBackup
<1> QED
  BY <1>1, <1>2, BackupsType, AppendProperties, CleanupAssumption

LEMMA NoJobType == NoJob \in JobStates
<1>1. 0 \in 0..MaxBackups
  BY CleanupAssumption
<1> QED
  BY <1>1 DEF NoJob, JobStates

LEMMA NoCopyType == NoCopy \in Copies
BY DEF NoCopy, Copies, Gone

(* A Velero restore that is under way has a backup to restore.             *)
LEMMA JobBackup ==
    ASSUME TypeOK, TrackInv, JobsInv, NEW key \in Keys, jobs[key].state # "none"
    PROVE  /\ jobs[key].backup \in 1..Len(backups)
           /\ backups[jobs[key].backup] \in Backups
           /\ jobs[key].backup = tracked["Resources"]
<1>1. jobs[key].backup = tracked["Resources"] /\ tracked["Resources"] # 0
      /\ tracked["Resources"] <= Len(backups)
  BY DEF JobsInv, TrackInv
<1>2. tracked["Resources"] \in 0..MaxBackups
  BY DEF TypeOK, Types
<1>3. tracked["Resources"] \in 1..Len(backups)
  BY <1>1, <1>2, BackupsType, CleanupAssumption
<1> QED
  BY <1>1, <1>3, BackupsType

LEMMA OrderKeys == Len(Order) = 6 /\ \A i \in 1..Len(Order) : Order[i] \in Keys
BY DEF Order, Keys, Types

BaseInv == TypeOK /\ TrackInv /\ JobsInv

LEMMA TakeBackupBase ==
    ASSUME BaseInv, TakeBackup
    PROVE  BaseInv'
<1>1. /\ UNCHANGED <<kind, copy, rst, tracked, jobs, missed, created, activated>>
      /\ backups' \in Seq(Backups) /\ Len(backups') <= MaxBackups
      /\ Len(backups') = Len(backups) + 1
  BY TakeBackupShape DEF TakeBackup, BaseInv
<1>2. TypeOK'
  BY <1>1 DEF BaseInv, TypeOK, Backups
<1>3. tracked["Resources"] <= Len(backups')
  <2>1. tracked["Resources"] \in 0..MaxBackups /\ Len(backups) \in 0..MaxBackups
    BY BackupsType DEF BaseInv, TypeOK, Types
  <2> QED
    BY <1>1, <2>1, CleanupAssumption DEF BaseInv, TrackInv
<1> QED
  BY <1>1, <1>2, <1>3 DEF BaseInv, TrackInv, JobsInv

(* What initVeleroRestores asks for: the types that are always restored,   *)
(* or, if they have been restored already, the managed clusters.           *)
LEMMA InitShape ==
    ASSUME BaseInv, InitVeleroRestores
    PROVE  /\ Len(backups) # 0 /\ Len(backups) \in 0..MaxBackups
           /\ \A type \in Always : tracked'[type] = Len(backups)
           /\ \/ /\ ~OnlyManagedClusters
                 /\ \A key \in Keys : jobs'[key] \in {NoJob, [backup |-> Len(backups), state |-> "new"]}
              \/ /\ OnlyManagedClusters /\ tracked["Resources"] = Len(backups)
                 /\ \A key \in Keys :
                      jobs'[key] \in {jobs[key], [backup |-> Len(backups), state |-> "new"]}
           /\ rst.mc = "latest" => tracked'["ManagedClusters"] = Len(backups)
           /\ rst.mc # "latest" =>
                /\ tracked'["ManagedClusters"] = tracked["ManagedClusters"]
                /\ \A key \in Keys \ Always : jobs'[key].state # "none" => jobs[key].state # "none"
<1>1. Len(backups) # 0 /\ Len(backups) \in 0..MaxBackups
  <2>1. Len(backups) > 0
    BY DEF InitVeleroRestores
  <2>2. Len(backups) \in 0..MaxBackups
    BY BackupsType DEF BaseInv
  <2> QED
    BY <2>1, <2>2, CleanupAssumption
<1>2. /\ jobs' = [key \in Keys |->
              IF key \in RestoreKeys THEN [backup |-> Len(backups), state |-> "new"]
              ELSE IF OnlyManagedClusters THEN jobs[key] ELSE NoJob]
      /\ tracked' = [type \in Types |->
              IF type \in RestoreKeys THEN Len(backups) ELSE tracked[type]]
  BY DEF InitVeleroRestores
<1>3. rst.mc \in {"skip", "latest"}
  BY DEF BaseInv, TypeOK
<1>4. Always \subseteq Types /\ "ManagedClusters" \in Types /\ Types \subseteq Keys
  BY DEF Always, Types, Keys
<1>5. OnlyManagedClusters => tracked["Resources"] = Len(backups)
  <2>1. tracked["Resources"] \in 0..MaxBackups
    BY DEF BaseInv, TypeOK, Types
  <2>2. tracked["Resources"] <= Len(backups)
    BY DEF BaseInv, TrackInv
  <2>3. OnlyManagedClusters => ~(tracked["Resources"] < Len(backups))
    BY DEF OnlyManagedClusters, NewBackupsAvailable
  <2> QED
    BY <1>1, <2>1, <2>2, <2>3, CleanupAssumption
<1>6. ASSUME NEW type \in Always PROVE tracked'[type] = Len(backups)
  <2>1. CASE ~OnlyManagedClusters
    <3>1. type \in RestoreKeys
      BY <1>4, <1>6, <2>1 DEF RestoreKeys, Always
    <3> QED
      BY <1>2, <1>4, <3>1
  <2>2. CASE OnlyManagedClusters
    <3>1. type \notin RestoreKeys
      BY <1>6, <2>2 DEF RestoreKeys, Always
    <3>2. tracked[type] = tracked["Resources"]
      BY <1>6 DEF BaseInv, TrackInv
    <3> QED
      BY <1>2, <1>4, <1>5, <2>2, <3>1, <3>2
  <2> QED
    BY <2>1, <2>2
<1>7. rst.mc = "latest" => tracked'["ManagedClusters"] = Len(backups)
  <2>1. rst.mc = "latest" => "ManagedClusters" \in RestoreKeys
    BY <1>4 DEF RestoreKeys
  <2> QED
    BY <1>2, <1>4, <2>1
<1>8. ASSUME rst.mc # "latest"
      PROVE  /\ tracked'["ManagedClusters"] = tracked["ManagedClusters"]
             /\ \A key \in Keys \ Always : jobs'[key].state # "none" => jobs[key].state # "none"
  <2>1. \A key \in Keys \ Always : key \notin RestoreKeys
    BY <1>3, <1>8 DEF RestoreKeys, Keys, Types, Always
  <2>2. NoJob.state = "none" /\ "ManagedClusters" \in Keys \ Always
    BY DEF NoJob, Keys, Types, Always
  <2> QED
    BY <1>2, <1>4, <2>1, <2>2
<1> QED
  BY <1>1, <1>2, <1>5, <1>6, <1>7, <1>8

LEMMA InitVeleroBase ==
    ASSUME BaseInv, InitVeleroRestores
    PROVE  BaseInv'
<1>1. /\ UNCHANGED <<kind, backups, copy, missed, created, activated>>
      /\ rst' = [rst EXCEPT !.phase = "InProgress"]
      /\ DOMAIN jobs' = Keys /\ DOMAIN tracked' = Types
  BY DEF InitVeleroRestores
<1>2. rst \in RestoreStates /\ jobs \in [Keys -> JobStates]
  BY DEF BaseInv, TypeOK, RestoreStates, JobStates
<1>3. rst' \in RestoreStates /\ rst'.phase = "InProgress"
  BY <1>1, <1>2 DEF RestoreStates
<1>4. Len(backups) # 0 /\ Len(backups) \in 0..MaxBackups
  BY InitShape
<1>5. jobs' \in [Keys -> JobStates]
  <2>1. NoJob \in JobStates /\ [backup |-> Len(backups), state |-> "new"] \in JobStates
    BY <1>4, CleanupAssumption DEF NoJob, JobStates
  <2> QED
    BY <1>2, <2>1 DEF InitVeleroRestores
<1>6. tracked' \in [Types -> 0..MaxBackups]
  BY <1>4 DEF InitVeleroRestores, BaseInv, TypeOK
<1>7. TypeOK'
  BY <1>1, <1>3, <1>5, <1>6 DEF BaseInv, TypeOK, RestoreStates, JobStates
<1>8. tracked'["Resources"] = Len(backups) /\ rst.mc \in {"skip", "latest"} /\ rst'.mc = rst.mc
  BY <1>1, InitShape DEF BaseInv, TypeOK, Always
<1>9. TrackInv'
  <2>1. tracked'["Resources"] <= Len(backups)
    BY <1>4, <1>8
  <2>2. tracked'["ManagedClusters"] \in {0, Len(backups)} /\ (rst.mc = "skip" => tracked'["ManagedClusters"] = 0)
    BY <1>8, InitShape DEF BaseInv, TrackInv
  <2> QED
    BY <1>1, <1>4, <1>8, <2>1, <2>2, InitShape DEF TrackInv
<1>10. JobsInv'
  <2> SUFFICES ASSUME NEW key \in Keys, jobs'[key].state # "none"
               PROVE  jobs'[key].backup = Len(backups)
    BY <1>4, <1>8 DEF JobsInv
  <2>1. CASE jobs'[key] = NoJob \/ jobs'[key] = [backup |-> Len(backups), state |-> "new"]
    BY <2>1 DEF NoJob
  <2>2. CASE jobs'[key] = jobs[key] /\ tracked["Resources"] = Len(backups)
    BY <2>2 DEF BaseInv, JobsInv
  <2> QED
    BY <2>1, <2>2, InitShape
<1> QED
  BY <1>7, <1>9, <1>10 DEF BaseInv

(* What a Velero restore does to its job and to the object.                *)
LEMMA VeleroShape ==
    ASSUME BaseInv, NEW i \in 1..Len(Order), VeleroRestores(i)
    PROVE  LET key == Order[i]
               b == backups[jobs[key].backup]
               takes == Holds(b, TypeOf(key)) /\ Selected(key, b.label)
               restored == [label |-> b.label, from |-> <<TypeOf(key), jobs[key].backup>>, kept |-> FALSE]
           IN  /\ key \in Keys /\ jobs[key].state = "new"
               /\ \E outcome \in Outcomes :
                    /\ jobs' = [jobs EXCEPT ![key].state = outcome]
                    /\ \/ takes /\ copy' = restored
                       \/ (takes => outcome # "done") /\ UNCHANGED copy
BY OrderKeys DEF VeleroRestores

LEMMA VeleroBase ==
    ASSUME BaseInv, NEW i \in 1..Len(Order), VeleroRestores(i)
    PROVE  BaseInv'
<1> DEFINE key == Order[i]
           b == backups[jobs[key].backup]
           restored == [label |-> b.label, from |-> <<TypeOf(key), jobs[key].backup>>, kept |-> FALSE]
<1>1. key \in Keys /\ jobs[key].state = "new"
  BY VeleroShape
<1>2. UNCHANGED <<kind, backups, rst, tracked, missed, created, activated>>
  BY DEF VeleroRestores
<1>3. PICK outcome \in Outcomes :
        /\ jobs' = [jobs EXCEPT ![key].state = outcome]
        /\ copy' = restored \/ UNCHANGED copy
  BY VeleroShape
<1>4. jobs \in [Keys -> JobStates]
  BY DEF BaseInv, TypeOK, JobStates
<1>5. jobs' \in [Keys -> JobStates]
  <2>1. [jobs[key] EXCEPT !.state = outcome] \in JobStates
    BY <1>1, <1>4 DEF JobStates
  <2> QED
    BY <1>1, <1>3, <1>4, <2>1
<1>6. copy' \in Copies
  <2>1. jobs[key].backup \in 1..Len(backups) /\ b \in Backups
    BY <1>1, JobBackup DEF BaseInv
  <2>2. jobs[key].backup \in 1..MaxBackups
    BY <2>1, BackupsType, CleanupAssumption DEF BaseInv
  <2>3. restored \in Copies
    BY <1>1, <2>1, <2>2, TypeOfKey DEF Copies, Backups
  <2> QED
    BY <1>3, <2>3 DEF BaseInv, TypeOK
<1>7. TypeOK'
  BY <1>2, <1>5, <1>6 DEF BaseInv, TypeOK, JobStates
<1>8. JobsInv'
  <2>1. \A k \in Keys : jobs'[k].backup = jobs[k].backup /\ (jobs'[k].state # "none" => jobs[k].state # "none")
    BY <1>1, <1>3, <1>4 DEF JobStates
  <2> QED
    BY <1>2, <2>1 DEF BaseInv, JobsInv
<1> QED
  BY <1>2, <1>7, <1>8 DEF BaseInv, TrackInv

(* How a Restore concludes.                                                *)
LEMMA ConcludedWhat ==
    /\ Concluded \in {"EnabledError", "Error", "Enabled", "FinishedWithErrors", "Finished"}
    /\ Concluded \in {"Enabled", "EnabledError"} => rst.sync
    /\ Concluded \in {"Enabled", "Finished"} => ~Some("failed")
BY DEF Concluded

LEMMA CleanupBase ==
    ASSUME BaseInv, CleanupOnRestore
    PROVE  BaseInv'
<1>1. /\ UNCHANGED <<kind, backups, tracked, jobs, created, activated>>
      /\ rst' = [rst EXCEPT !.phase = Concluded]
      /\ rst.phase \in {"InProgress", "EnabledError"}
      /\ copy' = copy \/ copy' = NoCopy
      /\ missed' \in BOOLEAN
  BY DEF CleanupOnRestore
<1>2. rst \in RestoreStates
  BY DEF BaseInv, TypeOK, RestoreStates
<1>3. rst' \in RestoreStates /\ rst'.phase = Concluded /\ rst'.mc = rst.mc /\ rst'.sync = rst.sync
  BY <1>1, <1>2, ConcludedWhat DEF RestoreStates
<1>4. TypeOK'
  BY <1>1, <1>3, ConcludedWhat, NoCopyType DEF BaseInv, TypeOK, RestoreStates
<1> QED
  BY <1>1, <1>3, <1>4 DEF BaseInv, TrackInv, JobsInv

LEMMA ChangeCopyBase ==
    ASSUME BaseInv, ChangeCopy
    PROVE  BaseInv'
<1>1. UNCHANGED <<kind, backups, rst, tracked, jobs, missed, created, activated>>
  BY DEF ChangeCopy
<1>2. copy' \in Copies
  <2>1. ASSUME NEW label \in LabelsOf(kind) PROVE [NoCopy EXCEPT !.label = label] \in Copies
    BY <2>1, NoCopyType DEF Copies, LabelsOf
  <2>2. [copy EXCEPT !.kept = TRUE] \in Copies
    BY DEF BaseInv, TypeOK, Copies
  <2> QED
    BY <2>1, <2>2 DEF ChangeCopy
<1>3. TypeOK'
  BY <1>1, <1>2 DEF BaseInv, TypeOK
<1> QED
  BY <1>1, <1>3 DEF BaseInv, TrackInv, JobsInv

LEMMA CreateRestoreBase ==
    ASSUME BaseInv, CreateRestore
    PROVE  BaseInv'
<1>1. /\ UNCHANGED <<kind, backups, copy, missed>>
      /\ tracked' = [type \in Types |-> 0] /\ jobs' = [key \in Keys |-> NoJob]
      /\ created < MaxRestores /\ created' = created + 1
      /\ rst' \in [phase: {""}, mc: {"skip", "latest"}, sync: BOOLEAN, cleanup: Cleanups]
      /\ activated' = (activated \/ rst'.mc = "latest")
  BY DEF CreateRestore
<1>2. rst' \in RestoreStates /\ rst'.phase = ""
  BY <1>1 DEF RestoreStates
<1>3. tracked' \in [Types -> 0..MaxBackups] /\ created' \in 0..MaxRestores
  <2>1. 0 \in 0..MaxBackups
    BY CleanupAssumption
  <2>2. created \in 0..MaxRestores /\ created < MaxRestores /\ created' = created + 1
    BY DEF BaseInv, TypeOK, CreateRestore
  <2>3. created' \in 0..MaxRestores
    BY <2>2, CleanupAssumption
  <2> QED
    BY <1>1, <2>1, <2>3
<1>4. jobs' \in [Keys -> JobStates]
  BY <1>1, NoJobType
<1>5. activated' \in BOOLEAN
  BY <1>1
<1>6. TypeOK'
  BY <1>1, <1>2, <1>3, <1>4, <1>5 DEF BaseInv, TypeOK, RestoreStates, JobStates
<1>7. \A type \in Types : tracked'[type] = 0
  BY <1>1
<1>8. 0 <= Len(backups)
  BY BackupsType, CleanupAssumption DEF BaseInv
<1>9. TrackInv'
  BY <1>1, <1>2, <1>7, <1>8 DEF TrackInv, Always, Types
<1>10. JobsInv'
  BY <1>1 DEF JobsInv, NoJob
<1> QED
  BY <1>6, <1>9, <1>10 DEF BaseInv

LEMMA ActivateBase ==
    ASSUME BaseInv, Activate
    PROVE  BaseInv'
<1>1. /\ UNCHANGED <<kind, backups, copy, tracked, jobs, missed, created>>
      /\ rst' = [rst EXCEPT !.mc = "latest"] /\ activated' = TRUE
  BY DEF Activate
<1>2. rst \in RestoreStates
  BY DEF BaseInv, TypeOK, RestoreStates
<1>3. rst' \in RestoreStates /\ rst'.phase = rst.phase /\ rst'.mc = "latest" /\ rst'.sync = rst.sync
  BY <1>1, <1>2 DEF RestoreStates
<1>4. TypeOK'
  BY <1>1, <1>3 DEF BaseInv, TypeOK, RestoreStates
<1> QED
  BY <1>1, <1>3, <1>4 DEF BaseInv, TrackInv, JobsInv

LEMMA BaseStep == BaseInv /\ [Next]_vars => BaseInv'
<1>1. ASSUME BaseInv, UNCHANGED vars PROVE BaseInv'
  BY <1>1 DEF BaseInv, TypeOK, TrackInv, JobsInv, vars
<1> QED
  BY <1>1, TakeBackupBase, InitVeleroBase, VeleroBase, CleanupBase, ChangeCopyBase,
     CreateRestoreBase, ActivateBase DEF Next

LEMMA BaseInit == Init => BaseInv
<1> SUFFICES ASSUME Init PROVE BaseInv
  OBVIOUS
<1>1. backups \in Seq(Backups) /\ Len(backups) = 0
  BY DEF Init
<1>2. rst \in RestoreStates /\ jobs \in [Keys -> JobStates] /\ rst.phase = "Finished" /\ rst.mc = "skip"
  BY CleanupAssumption DEF Init, RestoreStates, JobStates, NoJob
<1>3. TypeOK
  <2>1. 0 \in 0..MaxBackups /\ 0 \in 0..MaxRestores /\ 0 <= MaxBackups
    BY CleanupAssumption
  <2>2. tracked \in [Types -> 0..MaxBackups] /\ created \in 0..MaxRestores
    BY <2>1 DEF Init
  <2>3. copy \in Copies /\ kind \in Kinds /\ missed \in BOOLEAN /\ activated \in BOOLEAN
    BY NoCopyType DEF Init
  <2> QED
    BY <1>1, <1>2, <2>1, <2>2, <2>3 DEF TypeOK, Backups, RestoreStates, JobStates
<1>4. TrackInv
  BY <1>1, <1>2 DEF Init, TrackInv, Always, Types
<1>5. JobsInv
  BY DEF Init, JobsInv, NoJob
<1> QED
  BY <1>3, <1>4, <1>5 DEF BaseInv

(* The types hold: in particular what a restore brought names a backup     *)
(* that can exist, and Enabled is a phase of sync Restores only.           *)
THEOREM TypeCorrect == Spec => []TypeOK
<1>1. BaseInv => TypeOK
  BY DEF BaseInv
<1> QED
  BY <1>1, BaseInit, BaseStep, PTL DEF Spec

(* An object is in at most one type of backup, whatever its kind and its   *)
(* labels, and whichever kinds discovery lost when the backup was planned. *)
THEOREM InOneBackup == Spec => []BackedUpOnce
<1>1. BaseInv => BackedUpOnce
  BY BackupsType, HoldsOnce DEF BaseInv, BackedUpOnce
<1> QED
  BY <1>1, BaseInit, BaseStep, PTL DEF Spec

-----------------------------------------------------------------------------
(* What clean-up removes.                                                  *)

(* Only clean-up removes the object.                                       *)
LEMMA OnlyCleanupRemoves ==
    ASSUME BaseInv, [Next]_vars, Removes
    PROVE  CleanupOnRestore /\ Removed
<1>1. ASSUME NEW i \in 1..Len(Order), VeleroRestores(i) PROVE FALSE
  <2>1. \/ UNCHANGED copy
        \/ \E b, type, from :
             Holds(b, type) /\ copy' = [label |-> b.label, from |-> from, kept |-> FALSE]
    BY <1>1, VeleroShape
  <2> QED
    BY <2>1 DEF Removes, Holds
<1>2. ASSUME ChangeCopy PROVE FALSE
  <2>1. Gone \notin LabelsOf(kind)
    BY DEF Gone, LabelsOf, Labels
  <2>2. copy \in Copies /\ NoCopy \in Copies
    BY NoCopyType DEF BaseInv, TypeOK
  <2> QED
    BY <1>2, <2>1, <2>2 DEF ChangeCopy, Removes, Copies
<1>3. ASSUME UNCHANGED copy PROVE FALSE
  BY <1>3 DEF Removes
<1> QED
  BY <1>1, <1>2, <1>3
    DEF Next, vars, TakeBackup, InitVeleroRestores, CleanupOnRestore, CreateRestore, Activate

-----------------------------------------------------------------------------
(* What a completed Velero restore brought.                                *)

(* An object as the backup has it, if clean-up finds it for some type, is  *)
(* held by the backup of that type.                                        *)
LEMMA DeletedIsHeld ==
    ASSUME NEW type \in Types \ {"Credentials"}, deleteDynamicResourcesForBackup(type),
           copy.label = backups[tracked[type]].label
    PROVE  Holds(backups[tracked[type]], type)
<1>1. /\ kind \in getResourcesByBackupType(type, backups[tracked[type]].lost)
      /\ copy.label # Gone /\ (ClusterLabel(copy.label) <=> type = "ResourcesGeneric")
  BY DEF deleteDynamicResourcesForBackup
<1>2. Labelled(type, copy.label)
  BY <1>1 DEF Labelled, Types
<1> QED
  BY <1>1, <1>2 DEF Holds

LEMMA BroughtIsKept ==
    ASSUME BaseInv, BroughtInv, NEW key \in Keys, Brings(key)
    PROVE  ~Removed
<1> DEFINE n == tracked["Resources"]
           b == backups[n]
<1>1. jobs[key].backup = n /\ copy.from = <<TypeOf(key), n>> /\ copy.label = b.label
      /\ Holds(b, TypeOf(key)) /\ n # 0
  BY JobBackup DEF BaseInv, BroughtInv, Brings, JobsInv
<1>2. kind \in AllKinds
  BY BackupsType DEF BaseInv
<1> HIDE DEF n, b
<1>3. ASSUME NEW type \in Types, Holds(b, type), tracked[type] = n PROVE ~FromAnother(type)
  <2>1. type = TypeOf(key)
    BY <1>1, <1>2, <1>3, HoldsOnce, TypeOfKey
  <2> QED
    BY <1>1, <1>3, <2>1 DEF FromAnother
<1>4. ~cleanupDeltaForCredentials
  <2>1. tracked["Credentials"] = n /\ "Credentials" \in Types
    BY DEF BaseInv, TrackInv, Always, Types, n
  <2>2. cleanupDeltaForCredentials => Holds(b, "Credentials")
    BY <1>1, <1>2, HoldsWhat DEF cleanupDeltaForCredentials
  <2> QED
    BY <1>3, <2>1, <2>2 DEF cleanupDeltaForCredentials
<1>5. ASSUME NEW type \in Types \ {"Credentials"}, tracked[type] = n
      PROVE  ~deleteDynamicResourcesForBackup(type)
  BY <1>1, <1>3, <1>5, DeletedIsHeld DEF deleteDynamicResourcesForBackup, b
<1>6. /\ tracked["Resources"] = n /\ tracked["ResourcesGeneric"] = n
      /\ tracked["ManagedClusters"] # 0 => tracked["ManagedClusters"] = n
      /\ {"Resources", "ResourcesGeneric", "ManagedClusters"} \subseteq Types \ {"Credentials"}
  BY DEF BaseInv, TrackInv, Always, Types, n
<1> QED
  BY <1>4, <1>5, <1>6
    DEF Removed, cleanupDeltaForResourcesBackup, cleanupDeltaForClustersBackup

LEMMA TakeBackupBrought ==
    ASSUME BaseInv, BroughtInv, TakeBackup
    PROVE  BroughtInv'
<1>1. UNCHANGED <<kind, copy, jobs>> /\ \A n \in 1..Len(backups) : backups'[n] = backups[n]
  BY TakeBackupShape DEF TakeBackup, BaseInv
<1> SUFFICES ASSUME NEW key \in Keys, Brings(key)'
             PROVE  /\ copy.from = <<TypeOf(key), jobs[key].backup>>
                    /\ copy.label = backups[jobs[key].backup].label
                    /\ backups'[jobs[key].backup] = backups[jobs[key].backup]
  BY <1>1 DEF BroughtInv
<1>2. jobs[key].state = "done"
  BY <1>1 DEF Brings
<1>3. backups'[jobs[key].backup] = backups[jobs[key].backup]
  BY <1>1, <1>2, JobBackup DEF BaseInv
<1>4. Brings(key)
  BY <1>1, <1>3 DEF Brings, Holds
<1> QED
  BY <1>3, <1>4 DEF BroughtInv

LEMMA InitVeleroBrought ==
    ASSUME BaseInv, BroughtInv, InitVeleroRestores
    PROVE  BroughtInv'
<1>1. UNCHANGED <<kind, backups, copy>>
  BY DEF InitVeleroRestores
<1>2. ASSUME NEW key \in Keys, jobs'[key].state = "done" PROVE jobs'[key] = jobs[key]
  BY <1>2, InitShape DEF NoJob
<1> QED
  BY <1>1, <1>2 DEF BroughtInv, Brings, Holds

(* Of two Velero restores of one backup only one takes the object, so the  *)
(* later never overwrites what the earlier brought.                        *)
LEMMA VeleroBrought ==
    ASSUME BaseInv, BroughtInv, NEW i \in 1..Len(Order), VeleroRestores(i)
    PROVE  BroughtInv'
<1> DEFINE k == Order[i]
           b == backups[tracked["Resources"]]
           takes(key) == Holds(b, TypeOf(key)) /\ Selected(key, b.label)
           restored == [label |-> b.label, from |-> <<TypeOf(k), jobs[k].backup>>, kept |-> FALSE]
<1>1. k \in Keys /\ jobs[k].state = "new" /\ jobs[k].backup = tracked["Resources"]
  BY VeleroShape, JobBackup DEF BaseInv
<1>2. UNCHANGED <<kind, backups, rst, tracked, missed, created, activated>>
  BY DEF VeleroRestores
<1>3. PICK outcome \in Outcomes :
        /\ jobs' = [jobs EXCEPT ![k].state = outcome]
        /\ \/ takes(k) /\ copy' = restored
           \/ (takes(k) => outcome # "done") /\ UNCHANGED copy
  BY <1>1, VeleroShape
<1>4. /\ \A key \in Keys : jobs'[key].backup = jobs[key].backup
      /\ \A key \in Keys : key # k => jobs'[key] = jobs[key]
      /\ jobs'[k].state = outcome
  BY <1>1, <1>3 DEF BaseInv, TypeOK
<1>5. restored.from = <<TypeOf(k), jobs[k].backup>> /\ restored.label = b.label
  OBVIOUS
<1>6. kind \in AllKinds
  BY BackupsType DEF BaseInv
<1>7. ASSUME NEW key \in Keys, Brings(key)'
      PROVE  takes(key) /\ jobs[key].backup = tracked["Resources"]
  <2>1. jobs[key].state # "none"
    <3>1. CASE key = k
      BY <1>1, <3>1
    <3>2. CASE key # k
      BY <1>4, <1>7, <3>2 DEF Brings
    <3> QED
      BY <3>1, <3>2
  <2>2. jobs[key].backup = tracked["Resources"]
    BY <2>1, JobBackup DEF BaseInv
  <2> QED
    BY <1>2, <1>4, <1>7, <2>2 DEF Brings, Holds
<1> HIDE DEF k, b, takes, restored
<1>8. ASSUME NEW key \in Keys, Brings(key)'
      PROVE  copy'.from = <<TypeOf(key), jobs[key].backup>> /\ copy'.label = b.label
  <2>1. CASE key = k
    <3>1. outcome = "done"
      BY <1>4, <1>8, <2>1 DEF Brings
    <3> QED
      BY <1>3, <1>5, <1>7, <1>8, <2>1, <3>1
  <2>2. CASE key # k
    <3>1. ~takes(k)
      BY <1>1, <1>6, <1>7, <1>8, <2>2, TakenOnce DEF takes
    <3>2. UNCHANGED copy
      BY <1>3, <3>1
    <3>3. Brings(key)
      BY <1>2, <1>4, <1>8, <2>2 DEF Brings, Holds
    <3> QED
      BY <1>7, <1>8, <3>2, <3>3 DEF BroughtInv, b
  <2> QED
    BY <2>1, <2>2
<1> QED
  BY <1>2, <1>4, <1>7, <1>8 DEF BroughtInv, b

LEMMA BroughtStep ==
    ASSUME BaseInv, BroughtInv, [Next]_vars
    PROVE  BroughtInv'
<1>1. ASSUME CleanupOnRestore PROVE BroughtInv'
  <2>1. UNCHANGED <<kind, backups, jobs>> /\ (Removed \/ UNCHANGED copy)
    BY <1>1 DEF CleanupOnRestore
  <2>2. ASSUME NEW key \in Keys, Brings(key) PROVE UNCHANGED copy
    BY <2>1, <2>2, BroughtIsKept
  <2> QED
    BY <2>1, <2>2 DEF BroughtInv, Brings, Holds
<1>2. ASSUME ChangeCopy PROVE BroughtInv'
  <2>1. UNCHANGED <<kind, backups, jobs>>
    BY <1>2 DEF ChangeCopy
  <2>2. ASSUME NEW key \in Keys, Brings(key)
        PROVE  copy'.from = copy.from /\ copy'.label = copy.label
    <3>1. copy.label # Gone
      BY <2>2 DEF BroughtInv, Brings, Holds
    <3>2. copy' = [copy EXCEPT !.kept = TRUE] /\ copy \in Copies
      BY <1>2, <3>1 DEF ChangeCopy, BaseInv, TypeOK
    <3> QED
      BY <3>2 DEF Copies
  <2> QED
    BY <2>1, <2>2 DEF BroughtInv, Brings, Holds
<1>3. ASSUME CreateRestore PROVE BroughtInv'
  BY <1>3 DEF CreateRestore, BroughtInv, Brings, NoJob
<1>4. ASSUME UNCHANGED <<kind, backups, jobs, copy>> PROVE BroughtInv'
  BY <1>4 DEF BroughtInv, Brings, Holds
<1> QED
  BY <1>1, <1>2, <1>3, <1>4, TakeBackupBrought, InitVeleroBrought, VeleroBrought
    DEF Next, vars, Activate

(* What a completed Velero restore of the Restore has brought survives     *)
(* every clean-up, however the object's labels moved it between the types  *)
(* of backup and however many Restores follow each other.                  *)
THEOREM RestoredIsKept == Spec => KeepsRestored
<1>1. Init => BroughtInv
  BY DEF Init, BroughtInv, Brings, NoJob
<1>2. ASSUME BaseInv, BroughtInv, [Next]_vars, Removes PROVE ~PartOfRestore({"done"})
  BY <1>2, OnlyCleanupRemoves, BroughtIsKept DEF PartOfRestore, Brings
<1>3. BaseInv /\ BroughtInv /\ [Next]_vars => [Removes => ~PartOfRestore({"done"})]_vars
  BY <1>2
<1> QED
  BY <1>1, <1>3, BaseInit, BaseStep, BroughtStep, PTL DEF Spec, KeepsRestored

-----------------------------------------------------------------------------
(* Activation data.                                                        *)

LEMMA ActivatedStep ==
    ASSUME BaseInv, ActivatedInv, [Next]_vars
    PROVE  ActivatedInv'
<1>1. ASSUME InitVeleroRestores PROVE ActivatedInv'
  <2>1. rst \in RestoreStates /\ rst' = [rst EXCEPT !.phase = "InProgress"] /\ UNCHANGED activated
    BY <1>1 DEF InitVeleroRestores, BaseInv, TypeOK, RestoreStates
  <2>2. rst'.mc = rst.mc
    BY <2>1 DEF RestoreStates
  <2> QED
    BY <1>1, <2>1, <2>2, InitShape DEF ActivatedInv
<1>2. ASSUME NEW i \in 1..Len(Order), VeleroRestores(i) PROVE ActivatedInv'
  <2>1. UNCHANGED <<rst, activated>>
    BY <1>2 DEF VeleroRestores
  <2>2. \A k \in Keys : jobs'[k].state # "none" => jobs[k].state # "none"
    BY <1>2, VeleroShape DEF BaseInv, TypeOK
  <2> QED
    BY <2>1, <2>2 DEF ActivatedInv
<1>3. ASSUME CleanupOnRestore PROVE ActivatedInv'
  <2>1. rst \in RestoreStates /\ rst' = [rst EXCEPT !.phase = Concluded] /\ UNCHANGED <<jobs, activated>>
    BY <1>3 DEF CleanupOnRestore, BaseInv, TypeOK, RestoreStates
  <2>2. rst'.mc = rst.mc
    BY <2>1 DEF RestoreStates
  <2> QED
    BY <2>1, <2>2 DEF ActivatedInv
<1>4. ASSUME CreateRestore PROVE ActivatedInv'
  BY <1>4 DEF CreateRestore, ActivatedInv, NoJob, Always
<1>5. ASSUME Activate PROVE ActivatedInv'
  BY <1>5 DEF Activate, ActivatedInv
<1>6. ASSUME UNCHANGED <<rst, jobs, activated>> PROVE ActivatedInv'
  BY <1>6 DEF ActivatedInv
<1> QED
  BY <1>1, <1>2, <1>3, <1>4, <1>5, <1>6 DEF Next, vars, TakeBackup, ChangeCopy

(* The Velero restores that are always made take no activation data.       *)
LEMMA AlwaysHoldsBack ==
    ASSUME BaseInv, "hive" \notin Lost, NEW b \in Backups, NEW key \in Always,
           Holds(b, TypeOf(key)), Selected(key, b.label)
    PROVE  kind \notin {"cluster", "hive"} /\ b.label # "activation"
<1>1. TypeOf(key) = key /\ kind \in AllKinds /\ "hive" \notin b.lost
  BY BackupsType DEF BaseInv, Always, TypeOf, Backups
<1> QED
  BY <1>1, HoldsWhat DEF Always, Selected, ClusterLabel

LEMMA HeldBackStep ==
    ASSUME BaseInv, ActivatedInv, ActivationHeldBack, "hive" \notin Lost, [Next]_vars
    PROVE  ActivationHeldBack'
<1>1. ASSUME NEW i \in 1..Len(Order), VeleroRestores(i) PROVE ActivationHeldBack'
  <2> DEFINE k == Order[i]
             b == backups[jobs[k].backup]
  <2>1. k \in Keys /\ jobs[k].state = "new" /\ UNCHANGED <<kind, activated>>
    BY <1>1, VeleroShape DEF VeleroRestores
  <2>2. b \in Backups
    BY <2>1, JobBackup DEF BaseInv
  <2>3. CASE UNCHANGED copy
    BY <2>1, <2>3 DEF ActivationHeldBack
  <2>4. CASE /\ Holds(b, TypeOf(k)) /\ Selected(k, b.label)
             /\ copy' = [label |-> b.label, from |-> <<TypeOf(k), jobs[k].backup>>, kept |-> FALSE]
    <3>1. CASE k \in Always
      <4>1. kind \notin {"cluster", "hive"} /\ b.label # "activation"
        BY <2>2, <2>4, <3>1, AlwaysHoldsBack
      <4> QED
        BY <2>1, <2>4, <4>1 DEF ActivationHeldBack
    <3>2. CASE k \notin Always
      BY <2>1, <3>2 DEF ActivatedInv, ActivationHeldBack
    <3> QED
      BY <3>1, <3>2
  <2> QED
    BY <1>1, <2>3, <2>4, VeleroShape
<1>2. ASSUME ChangeCopy PROVE ActivationHeldBack'
  <2>1. UNCHANGED <<kind, activated>>
    BY <1>2 DEF ChangeCopy
  <2>2. copy'.from = NoCopy.from \/ (copy'.from = copy.from /\ copy'.label = copy.label)
    BY <1>2, NoCopyType DEF ChangeCopy, Copies, BaseInv, TypeOK
  <2> QED
    BY <2>1, <2>2 DEF ActivationHeldBack
<1>3. ASSUME copy' \in {copy, NoCopy}, UNCHANGED kind, activated => activated'
      PROVE  ActivationHeldBack'
  BY <1>3 DEF ActivationHeldBack
<1>4. ASSUME TakeBackup \/ InitVeleroRestores \/ CleanupOnRestore \/ UNCHANGED vars
      PROVE  ActivationHeldBack'
  <2>1. copy' \in {copy, NoCopy} /\ UNCHANGED <<kind, activated>>
    BY <1>4 DEF vars, TakeBackup, InitVeleroRestores, CleanupOnRestore
  <2> QED
    BY <1>3, <2>1
<1>5. ASSUME CreateRestore \/ Activate PROVE ActivationHeldBack'
  <2>1. copy' = copy /\ UNCHANGED kind
    BY <1>5 DEF CreateRestore, Activate
  <2>2. activated => activated'
    BY <1>5 DEF CreateRestore, Activate
  <2> QED
    BY <1>3, <2>1, <2>2
<1> QED
  BY <1>1, <1>2, <1>4, <1>5 DEF Next

(* Where discovery finds the Hive kinds, no activation data reaches a hub  *)
(* before a Restore asks for the managed clusters.  (Otherwise the generic *)
(* resources hold the Hive objects that have a cluster-backup label.)      *)
THEOREM HeldBack ==
    ASSUME "hive" \notin Lost
    PROVE  Spec => []ActivationHeldBack
<1>1. Init => ActivatedInv /\ ActivationHeldBack
  BY DEF Init, ActivatedInv, ActivationHeldBack, NoJob, Always
<1>2. ActivatedInv /\ ActivationHeldBack /\ BaseInv /\ [Next]_vars => (ActivatedInv /\ ActivationHeldBack)'
  BY ActivatedStep, HeldBackStep
<1> QED
  BY <1>1, <1>2, BaseInit, BaseStep, PTL DEF Spec

-----------------------------------------------------------------------------
(* The hub reflects the backups.                                           *)

LEMMA CopyStep ==
    ASSUME BaseInv, CopyInv, [Next]_vars
    PROVE  CopyInv'
<1>1. ASSUME TakeBackup PROVE CopyInv'
  <2>1. /\ UNCHANGED <<kind, copy>> /\ Len(backups') = Len(backups) + 1
        /\ \A n \in 1..Len(backups) : backups'[n] = backups[n]
    BY <1>1, TakeBackupShape DEF TakeBackup, BaseInv
  <2>2. Len(backups) \in Nat
    BY BackupsType, CleanupAssumption DEF BaseInv
  <2> SUFFICES ASSUME copy.from # NoCopy.from
               PROVE  \E type \in Types, n \in 1..Len(backups') :
                        /\ copy.from = <<type, n>> /\ copy.label = backups'[n].label
                        /\ Holds(backups'[n], type)
    BY <2>1 DEF CopyInv, Holds
  <2>3. PICK type \in Types, n \in 1..Len(backups) :
            copy.from = <<type, n>> /\ Holds(backups[n], type) /\ copy.label = backups[n].label
    BY DEF CopyInv
  <2>4. n \in 1..Len(backups') /\ backups'[n] = backups[n]
    BY <2>1, <2>2
  <2> QED
    BY <2>3, <2>4
<1>2. ASSUME NEW i \in 1..Len(Order), VeleroRestores(i) PROVE CopyInv'
  <2> DEFINE k == Order[i]
             b == backups[jobs[k].backup]
  <2>1. k \in Keys /\ jobs[k].state = "new" /\ UNCHANGED <<kind, backups>>
    BY <1>2, VeleroShape DEF VeleroRestores
  <2>2. jobs[k].backup \in 1..Len(backups) /\ TypeOf(k) \in Types
    BY <2>1, JobBackup, TypeOfKey DEF BaseInv
  <2>3. CASE UNCHANGED copy
    BY <2>1, <2>3 DEF CopyInv, Holds
  <2>4. CASE /\ Holds(b, TypeOf(k))
             /\ copy' = [label |-> b.label, from |-> <<TypeOf(k), jobs[k].backup>>, kept |-> FALSE]
    BY <2>1, <2>2, <2>4 DEF CopyInv, Holds
  <2> QED
    BY <1>2, <2>3, <2>4, VeleroShape
<1>3. ASSUME copy'.from = NoCopy.from \/ (copy'.from = copy.from /\ copy'.label = copy.label),
             UNCHANGED <<kind, backups>>
      PROVE  CopyInv'
  BY <1>3 DEF CopyInv, Holds
<1>4. ASSUME ChangeCopy PROVE CopyInv'
  <2>1. UNCHANGED <<kind, backups>>
    BY <1>4 DEF ChangeCopy
  <2>2. copy'.from = NoCopy.from \/ (copy'.from = copy.from /\ copy'.label = copy.label)
    BY <1>4, NoCopyType DEF ChangeCopy, Copies, BaseInv, TypeOK
  <2> QED
    BY <1>3, <2>1, <2>2
<1>5. ASSUME InitVeleroRestores \/ CleanupOnRestore \/ CreateRestore \/ Activate \/ UNCHANGED vars
      PROVE  CopyInv'
  <2>1. copy' \in {copy, NoCopy} /\ UNCHANGED <<kind, backups>>
    BY <1>5 DEF vars, InitVeleroRestores, CleanupOnRestore, CreateRestore, Activate
  <2> QED
    BY <1>3, <2>1
<1> QED
  BY <1>1, <1>2, <1>4, <1>5 DEF Next

LEMMA PhaseStep ==
    ASSUME BaseInv, PhaseInv, [Next]_vars
    PROVE  PhaseInv'
<1>1. rst \in RestoreStates
  BY DEF BaseInv, TypeOK, RestoreStates
<1>2. ASSUME InitVeleroRestores \/ CreateRestore PROVE PhaseInv'
  <2>1. rst'.phase \in {"", "InProgress"}
    BY <1>1, <1>2 DEF InitVeleroRestores, CreateRestore, RestoreStates
  <2> QED
    BY <2>1 DEF PhaseInv
<1>3. ASSUME NEW i \in 1..Len(Order), VeleroRestores(i) PROVE PhaseInv'
  <2>1. UNCHANGED rst /\ \E key \in Keys : jobs[key].state = "new"
    BY <1>3, VeleroShape DEF VeleroRestores
  <2> QED
    BY <2>1 DEF PhaseInv
<1>4. ASSUME CleanupOnRestore PROVE PhaseInv'
  <2>1. rst' = [rst EXCEPT !.phase = Concluded] /\ rst.phase \in {"InProgress", "EnabledError"}
        /\ UNCHANGED <<jobs, tracked>> /\ (Some("failed") \/ ~Some("new"))
    BY <1>4 DEF CleanupOnRestore
  <2>2. rst'.phase = Concluded /\ tracked["Resources"] # 0
    BY <1>1, <2>1 DEF RestoreStates, BaseInv, TrackInv
  <2>3. Concluded \in {"Enabled", "Finished"} => ~Some("new")
    BY <2>1, ConcludedWhat
  <2> QED
    BY <2>1, <2>2, <2>3 DEF PhaseInv, Some
<1>5. ASSUME Activate PROVE PhaseInv'
  <2>1. rst' = [rst EXCEPT !.mc = "latest"] /\ UNCHANGED <<jobs, tracked>>
    BY <1>5 DEF Activate
  <2>2. rst'.phase = rst.phase /\ rst'.cleanup = rst.cleanup
    BY <1>1, <2>1 DEF RestoreStates
  <2> QED
    BY <2>1, <2>2 DEF PhaseInv
<1>6. ASSUME UNCHANGED <<rst, jobs, tracked>> PROVE PhaseInv'
  BY <1>6 DEF PhaseInv
<1> QED
  BY <1>2, <1>3, <1>4, <1>5, <1>6 DEF Next, vars, TakeBackup, ChangeCopy

(* What clean-up leaves within its reach is from the backup just restored: *)
(* whatever type of backup the object came from, some part of clean-up     *)
(* looks at objects like it.                                               *)
LEMMA LeftIsCurrent ==
    ASSUME BaseInv, CopyInv, CleanupOnRestore, ~Removed, rst.cleanup # "None",
           copy.from # NoCopy.from, WithinReach,
           rst.mc = "latest" => tracked["ManagedClusters"] # 0
    PROVE  \E type \in Types :
             /\ tracked[type] # 0
             /\ copy.from = <<type, tracked[type]>>
             /\ Holds(backups[tracked[type]], type) /\ copy.label = backups[tracked[type]].label
<1>1. PICK t \in Types, n \in 1..Len(backups) :
        copy.from = <<t, n>> /\ Holds(backups[n], t) /\ copy.label = backups[n].label
  BY DEF CopyInv
<1> SUFFICES ASSUME tracked[t] # n PROVE FALSE
  <2>1. n # 0
    BY BackupsType, CleanupAssumption DEF BaseInv
  <2> QED
    BY <1>1, <2>1
<1> DEFINE m == tracked["Resources"]
           label == copy.label
<1>2. m # 0 /\ \A type \in Always : tracked[type] = m
  BY DEF BaseInv, TrackInv, CleanupOnRestore
<1>3. \A type \in Types : FromAnother(type)
  BY <1>1 DEF FromAnother
<1>4. kind \in AllKinds /\ rst.mc \in {"skip", "latest"}
  BY BackupsType DEF BaseInv, TypeOK
<1>5. /\ kind # "core" /\ ~copy.kept /\ kind \notin backups[m].lost
      /\ kind \in {"cluster", "hive"} \/ label = "activation" => rst.mc = "latest"
      /\ kind \in {"cluster", "hive"} => ~ClusterLabel(label)
  BY DEF WithinReach
<1> HIDE DEF m, label
<1>6. /\ label # Gone
      /\ kind = "secret" => label # "none"
      /\ kind = "other" => ClusterLabel(label)
  <2>1. t \in {"Credentials", "Resources", "ResourcesGeneric", "ManagedClusters"}
    BY DEF Types
  <2> QED
    BY <1>1, <1>4, <2>1, HoldsWhat DEF label
<1>7. "Credentials" \in Types /\ "Credentials" \in Always /\ "ResourcesGeneric" \in Types
      /\ "ResourcesGeneric" \in Always /\ "Resources" \in Types /\ "ManagedClusters" \in Types
      /\ tracked["Resources"] = m
  BY DEF Types, Always, m
<1>8. CASE kind = "secret"
  <2>1. cleanupDeltaForCredentials
    BY <1>2, <1>3, <1>4, <1>5, <1>6, <1>7, <1>8 DEF cleanupDeltaForCredentials, label
  <2> QED
    BY <2>1 DEF Removed
<1>9. CASE kind = "resource" /\ ~ClusterLabel(label)
  <2>1. kind \in getResourcesByBackupType("Resources", backups[m].lost) \ {"core"}
    BY <1>5, <1>9 DEF getResourcesByBackupType, resourcesToBackup
  <2>2. deleteDynamicResourcesForBackup("Resources")
    BY <1>3, <1>5, <1>6, <1>7, <1>9, <2>1
      DEF deleteDynamicResourcesForBackup, deleteDynamicResource, label
  <2> QED
    BY <1>2, <1>7, <2>2 DEF Removed, cleanupDeltaForResourcesBackup
<1>10. CASE kind \in {"resource", "other"} /\ ClusterLabel(label)
  <2>1. kind \in getResourcesByBackupType("ResourcesGeneric", backups[m].lost) \ {"core"}
    BY <1>10 DEF getResourcesByBackupType, AllKinds
  <2>2. tracked["ResourcesGeneric"] = m
    BY <1>2, <1>7
  <2>3. deleteDynamicResourcesForBackup("ResourcesGeneric")
    BY <1>3, <1>5, <1>6, <1>7, <1>10, <2>1, <2>2
      DEF deleteDynamicResourcesForBackup, deleteDynamicResource, label
  <2>4. rst.mc = "skip" => copy.label # "activation"
    BY <1>5 DEF label
  <2> QED
    BY <1>2, <1>7, <2>2, <2>3, <2>4 DEF Removed, cleanupDeltaForResourcesBackup
<1>11. CASE kind \in {"cluster", "hive"}
  <2>1. tracked["ManagedClusters"] = m /\ tracked["ManagedClusters"] # 0
    BY <1>5, <1>11 DEF BaseInv, TrackInv, m
  <2>2. kind \in getResourcesByBackupType("ManagedClusters", backups[m].lost) \ {"core"}
    BY <1>5, <1>11 DEF getResourcesByBackupType, resourcesToBackup
  <2>3. deleteDynamicResourcesForBackup("ManagedClusters")
    BY <1>3, <1>5, <1>6, <1>7, <1>11, <2>1, <2>2
      DEF deleteDynamicResourcesForBackup, deleteDynamicResource, label
  <2> QED
    BY <2>1, <2>3 DEF Removed, cleanupDeltaForClustersBackup
<1> QED
  BY <1>4, <1>5, <1>6, <1>8, <1>9, <1>10, <1>11 DEF AllKinds

ReflectInv == CopyInv /\ PhaseInv /\ Reflects

LEMMA CleanupReflects ==
    ASSUME BaseInv, CopyInv, CleanupOnRestore
    PROVE  Reflects'
<1>1. /\ UNCHANGED <<kind, backups, tracked, jobs>>
      /\ rst' = [rst EXCEPT !.phase = Concluded]
      /\ copy' = NoCopy \/ copy' = copy
      /\ Concluded # "Error" /\ Removed /\ copy' = copy => missed' \/ copy = NoCopy
  BY DEF CleanupOnRestore
<1>2. rst \in RestoreStates
  BY DEF BaseInv, TypeOK, RestoreStates
<1>3. rst'.phase = Concluded /\ rst'.mc = rst.mc /\ rst'.cleanup = rst.cleanup
  BY <1>1, <1>2 DEF RestoreStates
<1> SUFFICES ASSUME Completed', ~missed', rst'.cleanup # "None", copy'.from # NoCopy.from,
                    WithinReach'
             PROVE  \E type \in Types :
                      /\ tracked[type] # 0
                      /\ copy'.from = <<type, tracked[type]>>
                      /\ Holds(backups[tracked[type]], type)
                      /\ copy'.label = backups[tracked[type]].label
  BY <1>1 DEF Reflects, Holds
<1>4. Concluded # "Error" /\ (rst.mc = "latest" => tracked["ManagedClusters"] # 0)
  BY <1>1, <1>3 DEF Completed
<1>5. ~Removed /\ copy' = copy
  BY <1>1, <1>4 DEF NoCopy
<1>6. WithinReach
  BY <1>1, <1>3, <1>5 DEF WithinReach
<1> QED
  BY <1>3, <1>4, <1>5, <1>6, LeftIsCurrent

LEMMA TakeBackupReflects ==
    ASSUME BaseInv, ReflectInv, TakeBackup
    PROVE  Reflects'
<1>1. UNCHANGED <<kind, copy, rst, tracked, jobs, missed>> /\ \A n \in 1..Len(backups) : backups'[n] = backups[n]
  BY TakeBackupShape DEF TakeBackup, BaseInv
<1> SUFFICES ASSUME Completed', ~missed, rst.cleanup # "None", copy.from # NoCopy.from, WithinReach'
             PROVE  \E type \in Types :
                      /\ tracked[type] # 0
                      /\ copy.from = <<type, tracked[type]>>
                      /\ Holds(backups'[tracked[type]], type)
                      /\ copy.label = backups'[tracked[type]].label
  BY <1>1 DEF Reflects, Holds
<1>2. Completed
  BY <1>1 DEF Completed
<1>3. ASSUME NEW type \in Types, tracked[type] # 0
      PROVE  tracked[type] \in 1..Len(backups)
  <2>1. tracked[type] \in 0..MaxBackups /\ tracked["Resources"] \in 0..MaxBackups
    BY DEF BaseInv, TypeOK, Types
  <2>2. tracked[type] = tracked["Resources"]
    BY <1>3 DEF BaseInv, TrackInv, Types, Always
  <2>3. tracked["Resources"] <= Len(backups) /\ Len(backups) \in 0..MaxBackups
    BY BackupsType DEF BaseInv, TrackInv
  <2> QED
    BY <1>3, <2>1, <2>2, <2>3, CleanupAssumption
<1>4. tracked["Resources"] # 0 /\ "Resources" \in Types
  BY <1>2 DEF ReflectInv, PhaseInv, Completed, Types
<1>5. backups'[tracked["Resources"]] = backups[tracked["Resources"]]
  BY <1>1, <1>3, <1>4
<1>6. WithinReach
  BY <1>1, <1>5 DEF WithinReach
<1>7. PICK type \in Types :
        /\ tracked[type] # 0
        /\ copy.from = <<type, tracked[type]>>
        /\ Holds(backups[tracked[type]], type) /\ copy.label = backups[tracked[type]].label
  BY <1>2, <1>6 DEF ReflectInv, Reflects
<1>8. backups'[tracked[type]] = backups[tracked[type]]
  BY <1>1, <1>3, <1>7
<1> QED
  BY <1>7, <1>8

LEMMA ReflectStep ==
    ASSUME BaseInv, ReflectInv, [Next]_vars
    PROVE  ReflectInv'
<1>1. CopyInv' /\ PhaseInv'
  BY CopyStep, PhaseStep DEF ReflectInv
<1>2. rst \in RestoreStates
  BY DEF BaseInv, TypeOK, RestoreStates
<1>3. ASSUME InitVeleroRestores \/ CreateRestore PROVE Reflects'
  <2>1. rst'.phase \in {"", "InProgress"}
    BY <1>2, <1>3 DEF InitVeleroRestores, CreateRestore, RestoreStates
  <2> QED
    BY <2>1 DEF Reflects, Completed
<1>4. ASSUME NEW i \in 1..Len(Order), VeleroRestores(i) PROVE Reflects'
  <2>1. UNCHANGED rst /\ \E key \in Keys : jobs[key].state = "new"
    BY <1>4, VeleroShape DEF VeleroRestores
  <2> QED
    BY <2>1 DEF ReflectInv, PhaseInv, Reflects, Completed
<1>5. ASSUME Activate PROVE Reflects'
  <2>1. rst' = [rst EXCEPT !.mc = "latest"] /\ UNCHANGED tracked /\ tracked["ManagedClusters"] = 0
    BY <1>5 DEF Activate, BaseInv, TrackInv
  <2>2. rst'.mc = "latest"
    BY <1>2, <2>1 DEF RestoreStates
  <2> QED
    BY <2>1, <2>2 DEF Reflects, Completed
<1>6. ASSUME ChangeCopy PROVE Reflects'
  <2>1. copy'.from = NoCopy.from \/ copy'.kept
    BY <1>6, NoCopyType DEF ChangeCopy, Copies, BaseInv, TypeOK
  <2> QED
    BY <2>1 DEF Reflects, WithinReach
<1>7. ASSUME UNCHANGED vars PROVE Reflects'
  BY <1>7 DEF ReflectInv, Reflects, Completed, WithinReach, Holds, vars
<1> QED
  BY <1>1, <1>3, <1>4, <1>5, <1>6, <1>7, CleanupReflects, TakeBackupReflects DEF Next, ReflectInv

(* After a Restore that cleans up, what the hub holds from a backup within *)
(* clean-up's reach is as the backups just restored have it, unless a list *)
(* or the deletion of this very clean-up failed: any number of backups and *)
(* Restores before it, and of their clean-ups failing, do not matter.      *)
THEOREM HubReflectsBackups == Spec => []Reflects
<1>1. Init => ReflectInv
  BY DEF Init, ReflectInv, CopyInv, PhaseInv, Reflects, NoJob
<1>2. ReflectInv => Reflects
  BY DEF ReflectInv
<1> QED
  BY <1>1, <1>2, BaseInit, BaseStep, ReflectStep, PTL DEF Spec

-----------------------------------------------------------------------------
(* What is part of the backups, and what is excluded from them.            *)

(* cleanupOnRestore removes part of the currently restored backups only    *)
(* when a Velero restore of the Restore has failed, wholly or in part.     *)
LostByFailure ==
    [][Removes /\ PartOfRestore({"new", "done", "partial", "failed"})
         => Some("failed") \/ Some("partial")]_vars

(* Where no Velero restore went wrong, whatever was to be restored is.     *)
LEMMA CleanupAfterAll ==
    ASSUME CleanupOnRestore, PartOfRestore({"new", "done", "partial", "failed"}),
           ~Some("failed"), ~Some("partial")
    PROVE  PartOfRestore({"done"})
<1>1. ~Some("new")
  BY DEF CleanupOnRestore
<1>2. \A key \in Keys :
        jobs[key].state \in {"new", "done", "partial", "failed"} => jobs[key].state \in {"done"}
  BY <1>1 DEF Some
<1> QED
  BY <1>2 DEF PartOfRestore

LEMMA LossesHaveCause ==
    ASSUME BaseInv, BroughtInv, [Next]_vars, Removes,
           PartOfRestore({"new", "done", "partial", "failed"})
    PROVE  Some("failed") \/ Some("partial")
<1> SUFFICES ASSUME ~Some("failed"), ~Some("partial") PROVE FALSE
  OBVIOUS
<1>1. CleanupOnRestore /\ Removed
  BY OnlyCleanupRemoves
<1>2. PICK key \in Keys : Brings(key)
  BY <1>1, CleanupAfterAll DEF PartOfRestore, Brings
<1> QED
  BY <1>1, <1>2, BroughtIsKept

LEMMA BroughtInit == Init => BroughtInv
BY DEF Init, BroughtInv, Brings, NoJob

(* The clean-up that a finished sync starts removes part of the backups    *)
(* being restored only after a failure: for any kinds, labels, backups and *)
(* Restores, and whatever an earlier clean-up did.                         *)
THEOREM LossFollowsFailure == Spec => LostByFailure
<1>1. BaseInv /\ BroughtInv /\ [Next]_vars =>
        [Removes /\ PartOfRestore({"new", "done", "partial", "failed"})
           => Some("failed") \/ Some("partial")]_vars
  BY LossesHaveCause
<1> QED
  BY <1>1, BroughtInit, BaseInit, BaseStep, BroughtStep, PTL DEF Spec, LostByFailure

(* Where Velero restores do not fail, clean-up keeps to what its comment   *)
(* says: it removes only what is not part of the restored backups.  (With  *)
(* a failing one it does not; the run failed_restore_cleanup shows it.)    *)
THEOREM BackedUpIsKept ==
    ASSUME Outcomes \subseteq {"done"}
    PROVE  Spec => KeepsBackedUp
<1>1. ASSUME BaseInv PROVE ~Some("failed") /\ ~Some("partial")
  <2>1. \A key \in Keys : jobs[key].state \in {"none", "new", "done"}
    BY <1>1 DEF BaseInv, TypeOK
  <2> QED
    BY <2>1 DEF Some
<1>2. BaseInv /\ BroughtInv /\ [Next]_vars =>
        [Removes => ~PartOfRestore({"new", "done", "partial", "failed"})]_vars
  BY <1>1, LossesHaveCause
<1> QED
  BY <1>2, BroughtInit, BaseInit, BaseStep, BroughtStep, PTL DEF Spec, KeepsBackedUp

(* Objects with velero.io/exclude-from-backup survive every clean-up,      *)
(* CleanupAll included, unless they are secrets or configmaps:             *)
(* deleteDynamicResourcesForBackup looks at the label and the clean-up of  *)
(* the credentials does not.                                               *)
THEOREM ExcludedIsKept ==
    ASSUME "secret" \notin Kinds
    PROVE  Spec => KeepsExcluded
<1>1. ASSUME BaseInv, [Next]_vars, Removes PROVE ~copy.kept
  <2>1. kind # "secret"
    BY <1>1 DEF BaseInv, TypeOK
  <2>2. Removed
    BY <1>1, OnlyCleanupRemoves
  <2> QED
    BY <2>1, <2>2
      DEF Removed, cleanupDeltaForCredentials, cleanupDeltaForResourcesBackup,
          cleanupDeltaForClustersBackup, deleteDynamicResourcesForBackup, deleteDynamicResource
<1>2. BaseInv /\ [Next]_vars => [Removes => ~copy.kept]_vars
  BY <1>1
<1> QED
  BY <1>2, BaseInit, BaseStep, PTL DEF Spec, KeepsExcluded

=============================================================================
