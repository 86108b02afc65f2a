---------------------------- MODULE DeltaCleanup -----------------------------
(***************************************************************************)
(* What the backups hold, what a Restore brings to a hub and what its      *)
(* clean-up removes from it.  Every selector in the code looks at one      *)
(* object at a time, so the model follows a single object - of any kind,   *)
(* chosen at the start - from the active hub through the backups to the    *)
(* restored hub, while its labels change, Velero restores and calls of the *)
(* clean-up fail and one Restore follows another.  (The objects of the     *)
(* local cluster, which clean-up passes over, are not followed.)           *)
(***************************************************************************)
EXTENDS Naturals, Sequences

CONSTANTS
    Kinds,        \* the kinds of object to follow
    Lost,         \* kinds whose discovery may fail when a backup is planned
    Outcomes,     \* how a Velero restore may end
    Cleanups,     \* values of cleanupBeforeRestore
    MaxBackups,   \* bounds on the number of backups and of Restores
    MaxRestores

(* secret: also configmaps.  resource: a kind of an included API group.    *)
(* hive: of a *.hive.openshift.io group.  cluster: one of                  *)
(* backupManagedClusterResources.  other: any other API group.  core: the  *)
(* core group.                                                             *)
AllKinds == {"secret", "resource", "hive", "cluster", "other", "core"}

ASSUME CleanupAssumption ==
    /\ Kinds \subseteq AllKinds
    /\ Lost \subseteq {"resource", "hive"}
    /\ Outcomes \subseteq {"done", "partial", "failed"}
    /\ Cleanups \subseteq {"None", "CleanupRestored", "CleanupAll"}
    /\ MaxBackups \in Nat /\ MaxRestores \in Nat

VARIABLES
    kind,      \* of the object; never changes
    backups,   \* the backups taken, all types at once
    copy,      \* the object on the other hub
    rst,       \* the Restore there
    tracked,   \* for each type the backup of the Velero restore in its status
    jobs,      \* its latest Velero restores
    missed,    \* the latest clean-up failed to remove the object
    created,   \* number of Restores so far
    activated  \* one of them asked for the managed clusters

vars == <<kind, backups, copy, rst, tracked, jobs, missed, created, activated>>

Types == {"Credentials", "Resources", "ResourcesGeneric", "ManagedClusters"}

Keys == Types \cup {"CredentialsActive", "ResourcesGenericActive"}

(* "user" stands for the labels of user and Hive credentials, "backup" and *)
(* "activation" for the values of the cluster-backup label.                *)
Labels == {"none", "user", "backup", "activation"}

ClusterLabel(label) == label \in {"backup", "activation"}

LabelsOf(k) == IF k = "secret" THEN Labels ELSE Labels \ {"user"}

Gone == "gone"

TypeOf(key) ==
    CASE key = "CredentialsActive" -> "Credentials"
      [] key = "ResourcesGenericActive" -> "ResourcesGeneric"
      [] OTHER -> key

-----------------------------------------------------------------------------
(* Backups.                                                                *)

(* getResourcesToBackup: a group whose discovery fails is passed over.     *)
resourcesToBackup(lost) == {"resource", "hive"} \ lost

(* getResourcesByBackupType: the kinds a backup includes; for the generic  *)
(* resources the kinds it does not exclude.  A definition whose name ends  *)
(* in _Mutant is a plausible wrong version of the one after it; it is used *)
(* only to show that a property would notice the mistake.                  *)
getResourcesByBackupType_Mutant(type, lost) ==
    CASE type = "Credentials" -> {"secret"}
      [] type = "Resources" -> resourcesToBackup(lost) \ {"hive"}
      [] type = "ResourcesGeneric" -> AllKinds \ {"secret"}
      [] type = "ManagedClusters" -> {"cluster"} \cup (resourcesToBackup(lost) \cap {"hive"})

getResourcesByBackupType(type, lost) ==
    CASE type = "Credentials" -> {"secret"}
      [] type = "Resources" -> resourcesToBackup(lost) \ {"hive"}
      [] type = "ResourcesGeneric" ->
            AllKinds \ ({"secret", "cluster"} \cup (resourcesToBackup(lost) \cap {"hive"}))
      [] type = "ManagedClusters" -> {"cluster"} \cup (resourcesToBackup(lost) \cap {"hive"})

(* The label selectors of setResourcesBackupInfo and its siblings.         *)
Labelled(type, label) ==
    CASE type = "Credentials" -> label # "none"
      [] type = "Resources" -> ~ClusterLabel(label)
      [] type = "ResourcesGeneric" -> ClusterLabel(label)
      [] type = "ManagedClusters" -> TRUE

(* The backup of this type, taken as b, holds the object.                  *)
Holds(b, type) ==
    /\ b.label # Gone
    /\ kind \in getResourcesByBackupType(type, b.lost)
    /\ Labelled(type, b.label)

(* The object is there with any label, or not, when the backup is taken.   *)
TakeBackup ==
    /\ Len(backups) < MaxBackups
    /\ \E lost \in SUBSET (Lost \cap {kind}), label \in LabelsOf(kind) \cup {Gone} :
         backups' = Append(backups, [lost |-> lost, label |-> label])
    /\ UNCHANGED <<kind, copy, rst, tracked, jobs, missed, created, activated>>

-----------------------------------------------------------------------------
(* The Restore.                                                            *)

NoJob == [backup |-> 0, state |-> "none"]

NoCopy == [label |-> Gone, from |-> <<"", 0>>, kept |-> FALSE]

(* Which part of its backup a Velero restore takes.                        *)
Selected_Mutant(key, label) ==
    CASE key \in {"CredentialsActive", "ResourcesGenericActive"} -> label = "activation"
      [] OTHER -> TRUE

Selected(key, label) ==
    CASE key \in {"Credentials", "ResourcesGeneric"} -> label # "activation"
      [] key \in {"CredentialsActive", "ResourcesGenericActive"} -> label = "activation"
      [] OTHER -> TRUE

NewBackupsAvailable == tracked["Resources"] < Len(backups)

OnlyManagedClusters == rst.phase # "" /\ ~NewBackupsAvailable

RestoreKeys ==
    {key \in Keys :
        /\ rst.mc = "skip" => key \in Types \ {"ManagedClusters"}
        /\ OnlyManagedClusters => key \in Keys \ {"Credentials", "Resources", "ResourcesGeneric"}}

(* initVeleroRestores: at the start, and in sync mode for new backups or   *)
(* when the managed clusters are asked for.                                *)
InitVeleroRestores ==
    LET n == Len(backups)
    IN  /\ n > 0
        /\ \/ rst.phase = ""
           \/ rst.phase \in {"Enabled", "EnabledError"} /\ NewBackupsAvailable
           \/ /\ rst.phase \in {"Enabled", "EnabledError"}
              /\ rst.mc = "latest" /\ tracked["ManagedClusters"] = 0
        /\ jobs' = [key \in Keys |->
              IF key \in RestoreKeys THEN [backup |-> n, state |-> "new"]
              ELSE IF OnlyManagedClusters THEN jobs[key] ELSE NoJob]
        /\ tracked' = [type \in Types |-> IF type \in RestoreKeys THEN n ELSE tracked[type]]
        /\ rst' = [rst EXCEPT !.phase = "InProgress"]
        /\ UNCHANGED <<kind, backups, copy, missed, created, activated>>

Order ==
    <<"Credentials", "Resources", "ResourcesGeneric", "ResourcesGenericActive",
      "CredentialsActive", "ManagedClusters">>

Some(state) == \E key \in Keys : jobs[key].state = state

(* External: Velero carries out one restore after the other and stamps     *)
(* what it restores with the name of the backup.  At most one of them goes *)
(* wrong.                                                                  *)
VeleroRestores(i) ==
    LET key == Order[i]
        type == TypeOf(key)
        b == backups[jobs[key].backup]
        takes == Holds(b, type) /\ Selected(key, b.label)
        restored == [label |-> b.label, from |-> <<type, jobs[key].backup>>, kept |-> FALSE]
    IN  /\ jobs[key].state = "new"
        /\ \A j \in 1..(i - 1) : jobs[Order[j]].state # "new"
        /\ \E outcome \in Outcomes :
             /\ outcome # "done" => ~Some("failed") /\ ~Some("partial")
             /\ jobs' = [jobs EXCEPT ![key].state = outcome]
             /\ \/ takes /\ outcome # "failed" /\ copy' = restored
                \/ (takes => outcome # "done") /\ UNCHANGED copy
        /\ UNCHANGED <<kind, backups, rst, tracked, missed, created, activated>>

-----------------------------------------------------------------------------
(* Clean-up.                                                               *)

(* The object came from another backup; CleanupAll does not ask whether it *)
(* came from one at all.                                                   *)
FromAnother(type) ==
    /\ copy.from # <<type, tracked[type]>>
    /\ rst.cleanup = "CleanupRestored" => copy.from # NoCopy.from

(* cleanupDeltaForCredentials.                                             *)
cleanupDeltaForCredentials ==
    /\ tracked["Credentials"] # 0
    /\ kind = "secret" /\ copy.label \notin {"none", Gone}
    /\ rst.mc = "skip" => copy.label # "activation"
    /\ FromAnother("Credentials")

(* deleteDynamicResource leaves what is kept out of backups, or belongs to *)
(* the MultiClusterHub.  It is not called for credentials.                 *)
deleteDynamicResource == ~copy.kept

(* deleteDynamicResourcesForBackup, for the kinds the backup of the type   *)
(* was taken with; of generic resources those in the core group are passed *)
(* over.                                                                   *)
deleteDynamicResourcesForBackup_Mutant(type) ==
    /\ kind \in getResourcesByBackupType(type, backups[tracked[type]].lost) \ {"core"}
    /\ copy.label # Gone /\ deleteDynamicResource
    /\ FromAnother(type)

deleteDynamicResourcesForBackup(type) ==
    /\ kind \in getResourcesByBackupType(type, backups[tracked[type]].lost) \ {"core"}
    /\ copy.label # Gone /\ deleteDynamicResource
    /\ ClusterLabel(copy.label) <=> type = "ResourcesGeneric"
    /\ FromAnother(type)

(* cleanupDeltaForResourcesBackup and cleanupDeltaForClustersBackup.       *)
cleanupDeltaForResourcesBackup_Mutant ==
    tracked["Resources"] # 0 /\ deleteDynamicResourcesForBackup("Resources")

cleanupDeltaForResourcesBackup ==
    /\ tracked["Resources"] # 0
    /\ \/ deleteDynamicResourcesForBackup("Resources")
       \/ /\ tracked["ResourcesGeneric"] # 0
          /\ rst.mc = "skip" => copy.label # "activation"
          /\ deleteDynamicResourcesForBackup("ResourcesGeneric")

cleanupDeltaForClustersBackup ==
    tracked["ManagedClusters"] # 0 /\ deleteDynamicResourcesForBackup("ManagedClusters")

(* cleanupDeltaResources asks for the removal of the object.               *)
Removed ==
    /\ rst.cleanup # "None"
    /\ \/ cleanupDeltaForCredentials
       \/ cleanupDeltaForResourcesBackup
       \/ cleanupDeltaForClustersBackup

(* setRestorePhase: a failed Velero restore counts even while others run,  *)
(* if it is listed before them.                                            *)
Concluded_Mutant ==
    IF Some("failed") THEN "EnabledError"
    ELSE IF rst.sync /\ rst.mc = "skip" THEN "Enabled"
    ELSE IF Some("partial") THEN "FinishedWithErrors" ELSE "Finished"

Concluded ==
    IF Some("failed") THEN (IF rst.sync THEN "EnabledError" ELSE "Error")
    ELSE IF rst.sync /\ rst.mc = "skip" THEN "Enabled"
    ELSE IF Some("partial") THEN "FinishedWithErrors" ELSE "Finished"

(* cleanupOnRestore; there is no clean-up in Error.  A failing list or     *)
(* deletion is only logged, and the object stays.                          *)
CleanupOnRestore ==
    /\ rst.phase \in {"InProgress", "EnabledError"}
    /\ Some("failed") \/ ~Some("new")
    /\ rst' = [rst EXCEPT !.phase = Concluded]
    /\ IF Concluded # "Error" /\ Removed
       THEN \/ copy' = NoCopy /\ missed' = FALSE
            \/ UNCHANGED copy /\ missed' = TRUE
       ELSE UNCHANGED copy /\ missed' = FALSE
    /\ UNCHANGED <<kind, backups, tracked, jobs, created, activated>>

-----------------------------------------------------------------------------
(* The users of the two hubs.                                              *)

(* On the hub that restores the user makes an object of his own, or labels *)
(* one with velero.io/exclude-from-backup, or the installer as its own.    *)
ChangeCopy ==
    /\ \/ /\ copy.label = Gone
          /\ \E label \in LabelsOf(kind) : copy' = [NoCopy EXCEPT !.label = label]
       \/ /\ copy.label # Gone /\ ~copy.kept
          /\ copy' = [copy EXCEPT !.kept = TRUE]
    /\ UNCHANGED <<kind, backups, rst, tracked, jobs, missed, created, activated>>

(* A Restore in place of the one before, which is not under way.           *)
CreateRestore ==
    /\ created < MaxRestores /\ rst.phase # "InProgress"
    /\ created' = created + 1
    /\ rst' \in [phase: {""}, mc: {"skip", "latest"}, sync: BOOLEAN,
                 cleanup: Cleanups]
    /\ activated' = (activated \/ rst'.mc = "latest")
    /\ tracked' = [type \in Types |-> 0] /\ jobs' = [key \in Keys |-> NoJob]
    /\ UNCHANGED <<kind, backups, copy, missed>>

Activate ==
    /\ rst.phase = "Enabled" /\ rst.mc = "skip"
    /\ rst' = [rst EXCEPT !.mc = "latest"]
    /\ activated' = TRUE
    /\ UNCHANGED <<kind, backups, copy, tracked, jobs, missed, created>>

Init ==
    /\ kind \in Kinds
    /\ backups = <<>>
    /\ copy = NoCopy
    /\ rst = [phase |-> "Finished", mc |-> "skip", sync |-> FALSE, cleanup |-> "None"]
    /\ tracked = [type \in Types |-> 0] /\ jobs = [key \in Keys |-> NoJob]
    /\ missed = FALSE /\ created = 0 /\ activated = FALSE

Next ==
    \/ TakeBackup
    \/ InitVeleroRestores
    \/ \E i \in 1..Len(Order) : VeleroRestores(i)
    \/ CleanupOnRestore
    \/ ChangeCopy \/ CreateRestore \/ Activate

Spec == Init /\ [][Next]_vars

-----------------------------------------------------------------------------
(* Properties.                                                             *)

Copies == [label: Labels \cup {Gone}, from: {<<"", 0>>} \cup (Types \X (1..MaxBackups)), kept: BOOLEAN]

TypeOK ==
    /\ kind \in Kinds
    /\ backups \in Seq([lost: SUBSET Lost, label: Labels \cup {Gone}]) /\ Len(backups) <= MaxBackups
    /\ copy \in Copies
    /\ rst \in [phase: {"", "InProgress", "Enabled", "EnabledError", "Error", "Finished",
                        "FinishedWithErrors"},
                mc: {"skip", "latest"}, sync: BOOLEAN,
                cleanup: Cleanups \cup {"None"}]
    /\ tracked \in [Types -> 0..MaxBackups]
    /\ jobs \in [Keys -> [backup: 0..MaxBackups, state: {"none", "new"} \cup Outcomes]]
    /\ missed \in BOOLEAN /\ created \in 0..MaxRestores /\ activated \in BOOLEAN
    /\ rst.phase \in {"Enabled", "EnabledError"} => rst.sync

(* The types of backup share nothing: an object is in at most one of them, *)
(* so that no two of their Velero restores or clean-ups contend for it.    *)
BackedUpOnce ==
    \A n \in 1..Len(backups), t, u \in Types :
        Holds(backups[n], t) /\ Holds(backups[n], u) => t = u

(* The Velero restores that the Restore tracks were to bring the object.   *)
PartOfRestore(states) ==
    \E key \in Keys :
        /\ jobs[key].state \in states
        /\ jobs[key].backup = tracked[TypeOf(key)]
        /\ LET b == backups[jobs[key].backup]
           IN  Holds(b, TypeOf(key)) /\ Selected(key, b.label)

Removes == copy.label # Gone /\ copy'.label = Gone

(* Clean-up never removes what a completed Velero restore of the Restore   *)
(* has brought, whatever the object was before and however its labels      *)
(* moved it from one type of backup to another.                            *)
KeepsRestored == [][Removes => ~PartOfRestore({"done"})]_vars

(* Clean-up removes only what is not part of the currently restored        *)
(* backups, even if Velero could not restore it.                           *)
KeepsBackedUp == [][Removes => ~PartOfRestore({"new", "done", "partial", "failed"})]_vars

Completed ==
    /\ rst.phase \in {"Enabled", "Finished"}
    /\ \A key \in Keys : jobs[key].state \in {"none", "done"}
    /\ rst.mc = "latest" => tracked["ManagedClusters"] # 0

(* Clean-up stays away from objects of the core group, of a kind whose     *)
(* discovery failed for the backup, without the managed clusters from      *)
(* their data, and always from those of their data with a cluster-backup   *)
(* label.                                                                  *)
WithinReach ==
    /\ kind # "core" /\ ~copy.kept
    /\ kind \notin backups[tracked["Resources"]].lost
    /\ kind \in {"cluster", "hive"} \/ copy.label = "activation" => rst.mc = "latest"
    /\ kind \in {"cluster", "hive"} => ~ClusterLabel(copy.label)

(* After a clean-up, unless it failed to remove the object, the hub        *)
(* reflects the backups: an object it holds from some backup is there as   *)
(* in the backups just restored, even if its labels have moved it to       *)
(* another type of backup since, and earlier clean-ups have failed.        *)
Reflects ==
    Completed /\ ~missed /\ rst.cleanup # "None" /\ copy.from # NoCopy.from /\ WithinReach
        => \E type \in Types :
             /\ tracked[type] # 0
             /\ copy.from = <<type, tracked[type]>>
             /\ Holds(backups[tracked[type]], type) /\ copy.label = backups[tracked[type]].label

(* No activation data reaches a hub before a Restore asks for the managed  *)
(* clusters.                                                               *)
ActivationHeldBack ==
    copy.from # NoCopy.from /\ (kind \in {"cluster", "hive"} \/ copy.label = "activation") => activated

(* Objects with velero.io/exclude-from-backup, or labelled as those of the *)
(* installer, are never removed.                                           *)
KeepsExcluded == [][Removes => ~copy.kept]_vars

=============================================================================
