# A TLA+ model of the cluster backup operator

The operator backs up and restores an Open Cluster Management hub with Velero. It consists of two
Kubernetes controllers: one turns a `BackupSchedule` into a set of Velero `Schedule`s, the other turns a
`Restore` into a set of Velero `Restore`s, follows them, and reports one phase for all of them. Both are
reconcile loops over cached, eventually consistent data; both share a storage location with other hubs.
Most of what can go wrong is between two passes, between two writes of one pass, or between two hubs. That
is what this project models, checks with TLC and, in part, proves with TLAPS.

## Inventory

| Part | Source | State | Operations | Hard because |
|---|---|---|---|---|
| Restore controller | `controllers/restore_controller.go`, `restore.go` | the `Restore` (phase, tracked restore names, completion time), its Velero restores, work queue and timer | `Reconcile`: guards, early status update, `initVeleroRestores`, `cleanupOnRestore`, `cleanupOrphanedVeleroRestores`, status update | writes of one pass are not atomic; caches lag; the status is written last; Velero moves on in between |
| Backup selection, sync mode | `restore.go` | the Velero backups on the hub | `getVeleroBackupName`, `retrieveRestoreDetails`, `isNewBackupAvailable` | backups of a cycle arrive one by one and may disappear |
| Admission webhook | `api/v1beta1/restore_webhook.go` | none | `validateSyncMode` on create and update | it reads the status that the controller writes |
| BackupSchedule controller | `schedule_controller.go`, `schedule.go` | the `BackupSchedule` (phase), its five Velero schedules | `Reconcile`: validation, pause, collision check, create, delete, update, status | loops over five objects that may stop half-way; incomplete lists |
| Collision detection | `schedule.go` | latest backup and restore markers in the storage location | `scheduleOwnsLatestStorageBackups`, `isRestoreHubAfterSchedule`, `thisHubRestoredAfterBackup` | clocks and sync delays of two hubs; failover and failback |
| Pausing | `utils.go` | `Spec.Paused` of the Velero schedules | `updateBackupSchedulePhaseWhenPaused`, `pauseVeleroSchedule` | some may be paused and some not, while the phase says otherwise |
| Restore markers | `restore_post.go`, `backup.go` | `acm-restore-clusters` backups | `recordClustersRestoreOperation`, `deleteOlderRestoreClustersBackups` | started and deleted by Velero, later |
| Post-restore tasks, delta cleanup | `restore_post.go` | hub resources, import secrets | `executePostRestoreTasks`, `cleanupDeltaResources` | at least once, not exactly once |
| Finalizers, InternalHubComponent | `restore.go`, `restore_controller.go` | finalizers of two kinds of resource | `addResourcesFinalizer`, `removeResourcesFinalizer`, `finalizeRestore` | last-one-out decided from a cached list |
| Exclusion on one hub | `restore.go`, `schedule.go` | phases of all Restores and of the BackupSchedule | `isOtherResourcesRunning`, `isRestoreRunning` | each looks at a cached list before it has a phase itself |
| Preparation for backup | `pre_backup.go` | ManagedServiceAccounts, tokens, labels | `prepareForBackup` | token rotation inside a time window |
| Backup contents | `backup.go` | none | `getResourcesToBackup`, `set*BackupInfo` | one partition of all objects, cut once for backup, once for restore and once for clean-up, while labels change in between |
| Start-up | `main.go`, `pkg/tlsconfig` | none | flags, TLS, manager | library configuration |

How they interact: the two controllers exclude each other by looking at each other's phases
(`isOtherResourcesRunning`, `isRestoreRunning`); the Restore controller's post-restore task leaves a marker
in the storage location that the schedule controller of every hub reads; Velero executes schedules,
backups and restores and reports through their status; the API server's informers feed both caches and both
work queues.

What makes each part correct:

* Restore: Finished means that what counts has completed and that the spec is covered; a final phase is
  final and nothing is created after it; clusters are activated after credentials and PVCs; every Restore
  ends; a sync Restore follows new backups and never moves back without need.
* BackupSchedule: Enabled means a complete set of one creation; pausing and collisions stop every Velero
  schedule; a collision has a cause, is noticed, and ends only with a new BackupSchedule.
* One hub: at most one Restore is under way and not next to running schedules; what is deleted goes, and the
  InternalHubComponent not before the Restores.
* Tokens: a backup taken at any moment lets every cluster be imported as long as the backup lives.
* Contents and clean-up: an object is in one type of backup; clean-up does not remove what was restored;
  afterwards, unless a removal failed, the hub reflects the backups; activation data waits for the activation.

The hazards behind these properties are listed, line by line, in `PROJECT.json`.

## Modules

| Module | Models |
|---|---|
| `RestoreReconciler` | the Restore controller with one Restore, Velero, the user, the informers and the operator pod |
| `MCRestore` | constant values of its runs |
| `RestoreReconcilerProofs` | its theorems |
| `RestoreSyncProofs` | its theorems about when a sync restore is Enabled and what a Finished Restore has restored |
| `RestoreContract` | what the status of a Restore promises: the abstract specification |
| `RestoreContractProofs` | the theorem that `RestoreReconciler` implements it |
| `ScheduleReconciler` | the BackupSchedule controller with one BackupSchedule and the storage location that another hub shares |
| `MCSchedule` | constant values of its runs |
| `ScheduleReconcilerProofs` | its theorems |
| `HubNamespace`, `MCHub` | both controllers on one hub: several Restores, a BackupSchedule, the InternalHubComponent, finalizers |
| `HubNamespaceProofs` | its theorems |
| `ManagedServiceAccounts`, `MCServiceAccounts` | the tokens of imported clusters, from `prepareForBackup` to the choice of a token after a restore |
| `ManagedServiceAccountsProofs` | its theorems about types and annotations |
| `TokenRotationProofs` | its theorem about the rotation of two tokens |
| `DeltaCleanup`, `MCCleanup` | one object through backups, Restores and clean-up |
| `DeltaCleanupProofs` | its theorems |

### RestoreReconciler

A pass of `Reconcile` is cut exactly where it writes to the API server, because that is where others can
act: `Begin` (reads and guards) → `MarkStarted` (early status update) → `Plan` (`initVeleroRestores` up to
its loop) → `Create` (one iteration of the loop, `processRestoreWait` included) → `Cleanup`
(`cleanupOnRestore`, `cleanupOrphanedVeleroRestores`) → `WriteStatus` (or `Refused`). `job` holds the
pass's local variables: the in-memory Restore, what the list at its start showed, the keys left in the loop.

* `restore` is the resource in the API server, `cached` and `fresh` its copy in the informer cache; `vr`
  and `vrSeen` are the same for the Velero restores. A kind that is not in `Lagging` is cached without
  delay. A write of a copy whose resourceVersion is out of date (`job.stale`) is refused.
* A backup is a type and a cycle, a Velero restore a type, a cycle and the `-active` suffix: the name the
  code builds carries just that. `tracked` stands for the four `Status.Velero*RestoreName` fields.
* Phases are those of the API; Velero phases which the code never tells apart are merged (see the comment
  on `VeleroPhases`). Of the last message only what a decision reads is kept (`bslMsg`).
* `setRestorePhase` returns a set of results, because the list it walks has no order and the first New,
  InProgress or Failed restore decides.
* Velero, the policy that creates PVCs, the storage location and other resources of the namespace are
  external, and are modelled by what the code can observe of them. Velero copies the schedule name of the
  backup to `Spec.ScheduleName` of its restore when it picks the restore up; until then the field is empty.
  `isPVCInitializationStep` leaves the PVC step once it meets the name of the managed-clusters schedule there
  (restore_controller.go:363-370). `ScheduleNames` says which values a phase allows; as a Failed restore may have
  been refused before the field was filled in, the step is a set of Booleans.
* `posts` counts the passes whose `executePostRestoreTasks` ran to its end. It returns early, without
  activation, when the local cluster or the managed clusters cannot be listed (restore_post.go:71-84); that is
  the disturbance `taskError`, and the final phase is written all the same.

Disturbances, each enabled by a name in `Faults` and together bounded by `MaxFaults`: failed creations,
refused updates, failed lists, operator restarts, loss of the storage location, deletion of backups and of
Velero restores, another active resource, edits by the user, post-restore tasks that end early.

Left out: the deletion of a Restore and its finalizers (restore_controller.go:137-165, in `HubNamespace`),
`cleanupExpiredValidationBackups`, the hub resources that delta cleanup removes (in `DeltaCleanup`), user
filters and labels on Velero restores, the periodic resync of the informers (ten hours, far beyond the
horizon of any property; with it, stalls last that long rather than for ever). The deletion of a Velero
restore is immediate. Backup cycles are more than the five minutes of `siblingBackupNameWindow`
apart.

### ScheduleReconciler

`Begin` decides what the pass does, then one step per Velero schedule that it pauses (`Pause`), creates
(`Create`), deletes (`Delete`) or updates (`Update`), then `WriteStatus`. Which item of the list comes first
matters for the collision check, and is any of them.

* `sched`/`seen` and `spec`,`phase`/`cached` are API server and cache, as above. `old` marks schedules of a
  deleted BackupSchedule of the same name, which the owner index still lists until the garbage collector
  has removed them.
* `settings` stands for the cron expression and the TTL, both copied to the Velero schedules.
* The storage location is what the collision check reads of it: whose resources backup started last
  (`latest`), and the marker of each hub. `made` is the local creation time, which for a marker of the other
  hub is the time of its sync; `start` is Velero's start time. `pending` is an initial backup that Velero has
  not started: it has no start time and sorts before all others.
* `now` is a clock whose unit is longer than the five seconds after which schedules are no longer new.
* `prior` and `contested` are history variables: no action reads them.
* A failure of `prepareForBackup` counts as `prepareError` in the collision check, and in
  `initVeleroSchedules` as an error in the first iteration.
* `OwnRestore` is the end of a Restore of the managed clusters on this hub. It needs a schedule that is
  paused or in collision, as `isBackupScheduleRunning` demands, and takes more than a unit of time.
* Deletion of an older marker is only requested by the code (`deleteBackup` creates a DeleteBackupRequest)
  and happens later.

Left out: the drift of the hub's resource list (`getSchedulesWithUpdatedResources`), the contents of the
backup templates, `Status.VeleroSchedule*` copies, and ManagedServiceAccounts (only whether
`verifyMSAOption` lets the pass go on, in `valid`).

### RestoreContract

The contract has three variables: the phase, the pieces of work the status stands for, and how far each has
come. Work starts only before a final phase, ends, or is forgotten; a report may not follow a final one, and
may say Finished only if all the work it counts is done. `RestoreReconciler` maps its variables to it:
`Counted` is what `getLatestVeleroRestores` would take of all possible Velero restores, `WorkOf` merges the
Velero phases. `KeepsContract` is the abstract specification under this mapping.

### HubNamespace

One worker per controller. `Begin` → `ProtectHub` → `ProtectOwn` (`addResourcesFinalizer`) → `Check`
(`isOtherResourcesRunning`) → `Work` → `WriteStatus` for a live Restore, `Begin` (`finalizeRestore`) →
`Release` → `Drop` (`removeResourcesFinalizer`) for a deleted one, `Expire` when the InternalHubComponent is
being deleted. What a pass does with its Velero restores is one step, `Work`, because `RestoreReconciler` has
its detail; so are the Velero schedules in `ScheduleApply`.

* `log` is the list of Restores as written, up to `MaxLag` writes of which the cache has not seen: the last
  entry is the API server, the first what a pass reads. Every write compares the copy it started from. A
  Restore has a `uid`, and the BackupSchedule a `rev`, so that the copy of a deleted one does not pass for an
  equal one created since: the API server refuses such a write, and `OneInProgress` depends on it.
* The Velero restores of a Restore are none, open, done, deleted but not gone or, for the managed clusters of
  a sync Restore, activating and activated. The activation waits, in Started and with an empty
  `VeleroManagedClustersRestoreName`, until credentials and PVCs are there (restore_controller.go:301-307,
  739-799; `Waits`), for any number of passes, and the name is set by the pass that creates the restore.
  A name of a Restore is used again only after the Velero restores of its predecessor are gone.
* Restores may be created while the InternalHubComponent is being deleted; `Expire` deletes them
  (restore_controller.go:162-164).
* A collision is a choice of the schedule pass (`ScheduleReconciler` has the reasons), bounded by `MaxActs`.
* The webhook (`validateSyncMode`) stands before every update of a Restore, but not before status updates.
* `addResourcesFinalizer` reads an InternalHubComponent from the API server; a conflict is logged and the
  Restore goes on without a finalizer.
* A list that fails repeats the pass where BackupSchedules are looked for or finalizers removed, and counts
  as no other Restore in `isOtherResourcesRunning` and `isRestoreRunning`.

### ManagedServiceAccounts

A pass is `StartPass` → `Prepare` per imported cluster → `Annotate`, or `verifyMSAOption`, or `CleanupPass`.
`StartPass` looks at the schedule, the component and the CRD for both checks of the code
(schedule_controller.go:326, pre_backup.go:172), so nothing is switched between the two. A schedule that asks
for accounts which it cannot have ends in `verifyMSAOption`: its clean-up gets no mapping of clusters
(schedule.go:494) and so removes add-ons, works and secrets, but no account, and its errors are only logged. One
that does not ask for them comes to `CleanupPass`, which removes the accounts too. `disabled` and `edited` are
history variables. The unit of time is
the five minutes after which a pass is due; a token is its age and its validity, so an endless rotation has
finitely many states and every moment of it is checked. `Window` is the fifteen minutes of
`shouldGeneratePairToken`. Issuing and reporting tokens is the managed-serviceaccount add-on, which works
while the component is enabled: a new token when a fifth of the validity is left. `Tick` waits for a pass, and for the add-on, within the unit:
`RestoreFindsToken` cannot hold without it, since a pass that is late by more than `Window` misses the pair.

### DeltaCleanup

All selectors of the code look at one object at a time, so the model follows one object, of any of six kinds
that stand for the classes of API groups the code tells apart (secrets and config maps, included groups,
Hive, the listed managed-cluster kinds, any other group, the core group). `backups` records with which labels
the object was there, if at all, and whether discovery of its group failed, when each backup was planned.
`copy` is the object on the restored hub with the type and number of the backup that Velero stamped it with.
`Removed` says what `cleanupDeltaResources` asks to be removed. It may not happen: failing lists, deletions and a
failing search for the local cluster are only logged (restore_post.go:380-398, 509-513, 536, 916-918), the phase
is written as if all had gone, and nothing tries again before the next clean-up. In the model every clean-up may
fail, and `missed` records that the last one did. `kept` stands for both labels that `deleteDynamicResource`
looks at, `velero.io/exclude-from-backup` and `installer.name=multiclusterhub` (restore_post.go:849). Excluded
namespaces, the local cluster (838), `clusterimageset` and `hiveconfig`, which clean-up always passes over, and
old backups without OrLabelSelectors are left out, and a backup is not
deleted while a Restore refers to it (a deleted one only takes its type out of the clean-up).

## Runs

All runs but `service_accounts` have `CHECK_DEADLOCK FALSE`: a Restore that is finished, and a schedule that
is paused or in collision, really stop.

Bounds. One backup cycle where nothing is about newer backups, two where something is: the code only ever
compares a type's tracked cycle with the latest one. `restore_sync` has backups of credentials and resources
only, the two types that sync mode looks at. One Velero worker, as Velero has. One or two disturbances of a
Restore, chosen per question from the kinds that bear on it, because each property is about the reaction to
one of them at any point of any pass, and a second one tests the reaction to the reaction. For the schedules
`N` is 1 or 2 instead of 5: one where only the storage matters, two where some may be paused, deleted or
created and others not. `MaxTime` 1 is a time before and one after the other hub acts, `MaxTime` 2 allows
a failover and a failback at different times, and up to five disturbances a failback (a foreign backup, an edit, a Restore with its marker) with one failure in it.
On a hub, two Restores are the least that can be in each other's way, and every property there is about
pairs; four acts let both be created and deleted, or one activated and the component deleted. A lag of one
write is the least with which both may overlook each other. For tokens, two imported clusters and a Hive
cluster; validities 14 and 20 are longer than two windows, as real ones are, and short enough to go around
many times; one edit and one failure, because each disturbs one rotation and the state space is a cycle that
returns to the undisturbed one. For clean-up, two backups (the old and the current) and two Restores (one
that leaves something and one that cleans it).

| Run | Instance | Checks |
|---|---|---|
| `restore_activate` | one-time Restores, with and without managed clusters; a refused update, a restart or another active resource | `FinishedSound`, `FinishedIsComplete`, `ActivationGate`, `NoCreateAfterTerminal`, `EventuallyDone`, `KeepsContract` |
| `restore_settings` | by-name, latest, skip-all and invalid specs; both caches lag; every Velero outcome; eight kinds of disturbance, two at a time | `TypeOK`, `TerminalIsFinal` |
| `restore_sync` | a passive hub in sync; a second cycle arrives type by type, backups disappear, the storage is lost | `EnabledSound`, `SyncNeverRollsBack`, `SyncCatchesUp` |
| `restore_sync_activate` | a sync Restore edited to activate; failing Velero restores, refused updates, restarts | `EnabledSound`, `FinishedIsComplete`, `ActivationGate` |
| `schedule_collision` | pauses, failovers and failbacks, failing preparations, restarts | `TypeOK`, `CollisionHasCause`, `CollisionNoticed` |
| `schedule_live` | two Velero schedules, edits of the cron expression included, fifteen kinds of disturbance, two at a time, the other hub's backups and restores among them | `SameDueTime`, `EventuallyEnabled`, `CollisionStopsBackups`, `CollisionNeverResumes` |
| `schedule_lagging` | both caches lag; edits, manual deletions, refused pauses, rejected schedules | `PausedStopsBackups` |
| `hub_namespace` | two sync Restores created, activated, deleted; the InternalHubComponent deleted; failing lists, restarts | `HubHeld`, `DeletedGoesAway`, `HubDeletionClears` |
| `hub_lagging` | two Restores and a BackupSchedule, the list of Restores one write behind or, for the BackupSchedule, failing | `TypeOK`, `OneInProgress`, `OverlapEnds` |
| `service_accounts` | two imported clusters and a Hive cluster, one edit, one failed call or restart | `TypeOK`, `AnnotationSound`, `RestoreFindsToken`, `DisabledCleansUp`, `ValidityApplied` |
| `cleanup` | all kinds, labels, outcomes and clean-up options; two backups, two Restores; failing discovery of an included group, failing removals | `TypeOK`, `BackedUpOnce`, `Reflects`, `ActivationHeldBack`, `KeepsRestored` |

Each property of a passing run has a mutant: a plausible wrong version of one definition (the operators
ending in `_Mutant`, `_Untimed`, `_Doubled` and `_Validity`) under which TLC finds the property violated.

### Disagreements

One run shows a behaviour of the code that a comment and the documentation rule out; `PROJECT.json` quotes
the lines.

| Run | Violates | What happens |
|---|---|---|
| `failed_restore_cleanup` | `KeepsBackedUp` | in sync mode a failed Velero restore starts the clean-up, which removes what the previous sync had restored although it is part of the new backup |

The passing runs leave out, in each case, exactly the disturbance that breaks the property. Putting it back
shows the following; each line changes the constants of one configuration and keeps only the property named.

| Configuration | With | Violates | What happens |
|---|---|---|---|
| `restore_activate` | `Faults = {"crash"}` | `FinishedCoversSpec` | a restart in the middle of the creation loop: the next pass does not create the rest, and Finished is reported without it, against restore.go:384 "All Velero restores have run successfully" (restore_controller.go:276) |
| `restore_activate` | `Faults = {"bsl"}` | `FinishedIsComplete` | the recovery from a storage error reports Finished without clean-up, post-restore tasks and completion time, against restore_controller.go:413-414 (restore_controller.go:240) |
| `restore_activate` | `Faults = {"taskError"}` | `FinishedIsComplete` | the local cluster or the managed clusters cannot be listed: the clusters are not activated, and Finished is reported (restore_post.go:71-84) |
| `restore_activate` | `Lagging = {"veleroRestore"}`, `Faults = {}` | `FinishedSound` | a list without the restores just created: the next pass tracks only some of them (restore_controller.go:764) |
| `restore_activate` | `Faults = {"listError"}` | `FinishedSound` | a failing list of backups counts as nothing to do (restore.go:843) |
| `restore_activate` | `Faults = {"createError"}` | `EventuallyDone` | a failed creation leaves a pass that neither finishes nor asks for another (restore_controller.go:808) |
| `restore_activate` | `Faults = {"createError"}` | `FinishedCoversSpec` | a failed creation next to one that succeeds is never repeated (restore_controller.go:754) |
| `restore_activate` | `Faults = {"updateError"}`, `{"listError"}`, `{"restoreGone"}`, `{"edit"}` or `{"bsl"}`, or a cache that lags | `FinishedCoversSpec` | a list or status that is incomplete, a reported recovery or a changed spec: what is left to restore is not planned, and Finished follows (restore_controller.go:276) |
| `restore_activate` | `Lagging = {"restore"}`, `Faults = {"restoreGone"}` | `NoCreateAfterTerminal` | a stale copy of a finished Restore is processed, and what has been deleted since is restored again (restore_controller.go:167) |
| `restore_sync` | `Faults = {"updateError"}` | `SyncCatchesUp` | after a refused status update the resources restore is never tracked (restore.go:513) |
| `restore_sync` | `Faults = {"crash"}`, `{"updateError"}` or `{"restoreGone"}`, `Faults = {"edit"}` with `Specs <- SyncSpecs`, or a cache that lags | `EnabledSound` | a lost status update: the next pass tracks the restore that exists, New as it is, creates nothing, and leaves Enabled (restore.go:287) |
| `restore_sync` | `Outcomes = {"Completed", "Failed"}`, `Faults = {"backupGone"}` | `EnabledSound` | a newer backup disappears and the pass goes back to an older restore that had failed: it exists, so it is tracked and nothing is created (restore.go:513) |
| `restore_activate` | `Faults = {"restoreGone"}` | `ActivationGate` | the activation credentials are deleted while the loop goes on to the managed clusters |
| `restore_activate` | `Faults = {"listError"}` | `FinishedIsComplete` | a failing list of backups ends the pass as Finished, without post-restore tasks (restore.go:843) |
| `restore_sync_activate` | `Faults = {"edit", "backupGone"}` | `ActivationGate` | without a credentials backup the PVC gate is skipped (restore.go:890) |
| `schedule_live` | `Specs <- PlainSpecs`, `Lagging = {"veleroSchedule"}`, `Faults = {"foreignBackup"}`, `MaxFaults = 1` | `CollisionStopsBackups` | a refused update while pausing is not retried once the collision is reported, against utils.go:531 "pause schedules, so we don't generate new backups" (utils.go:535) |
| `restore_sync_activate` | `Specs <- SyncSpecs`, `InitialBackups` without credentials, `Faults = {"edit"}`, `MaxFaults = 1` | `ActivationGate` | a sync Restore in EnabledError for want of a credentials backup is activated: the plan for managed clusters only does not miss it (restore.go:890) |
| `schedule_live` | `Lagging = {"veleroSchedule"}`, `Faults = {"scheduleGone"}` | `SameDueTime` | a creation loop starts from an empty cached list while a Velero schedule is there, and the set is mixed (schedule_controller.go:234) |
| `schedule_live` | `Specs <- PlainSpecs`, `Lagging = {"backupSchedule"}`, `Faults = {"foreignBackup"}`, `MaxFaults = 1` | `CollisionNeverResumes` | a pass that reads the phase from before the collision resumes the schedules (schedule_controller.go:283) |
| `schedule_collision` | `Faults = {"foreignBackup", "crash", "statusError"}`, `MaxFaults = 3` | `CollisionNoticed` | the fallback of the status update drops the phase, and nothing triggers another pass (utils.go:555) |
| `schedule_collision` | `Faults = {"edit", "restore", "ownRestore", "foreignBackup", "foreignRestore", "markerQueued"}`, `MaxFaults = 6` | `CollisionHasCause` | a marker that Velero has not started has no place in the order: a failback counts as a collision, against schedule.go:633-635 (restore_controller.go:631) |
| `hub_namespace` | `Kinds = {"once"}`, `Acts = {"createRestore"}`, `MaxActs = 2` | `OneExecuting` | a Restore is ignored while its Velero restores run on, and the other begins: README.md:436 says "only one is allowed to be executing at any moment in time" (restore.go:452) |
| `hub_namespace` | `Kinds = {"once"}`, `Acts = {"createRestore", "deleteRestore"}`, `MaxActs = 2` | `LastRestoreReleasesHub` | a Restore that never got its finalizer goes without releasing the InternalHubComponent, which keeps its own (restore.go:1112) |
| `hub_namespace` | `Acts = {"createRestore", "deleteRestore", "activate"}` | `DeletedAlwaysGoes` | a Restore deleted while it is being activated can lose its finalizer no more: the webhook refuses the update (restore_webhook.go:144) |
| `hub_namespace` | `MaxLag = 1` | `NoMutualBlame`, `HubHeld` | two Restores are ignored, each for the other, by passes that read lists from before the other was (the list is always a cached one, so nothing rules this out); a second pass for a Restore that is gone takes the one that is left for it and releases the component |
| `hub_lagging` | `"listError"` in `Acts` | `OneInProgress` | a failing list counts as no other Restore (restore.go:415) |
| `service_accounts` | `Acts = {"component"}`, `Faults = {}` | `DisabledRemovesAccounts` | the accounts stay when the component is disabled, against pre_backup.go:182 "This covers: component disabled": a schedule that asks for them never gets there (schedule.go:494) |
| `service_accounts` | `Validities = {14, 80}`, `Faults = {}` | `AnnotationSound` | the validity is lowered to less than a fifth: the token is renewed for less than the annotations still promise |
| `service_accounts` | `MaxActs = 3`, `Acts = {"useMSA", "validity"}`, `Faults = {"cleanup"}` | `AnnotationSound` | an account whose deletion failed keeps the status of its old token when a shorter one is issued (pre_backup.go:271) |
| `service_accounts` | `MaxActs = 3`, `Acts = {"component", "validity"}`, `Faults = {}` | `AnnotationSound` | the same without a failure: the component is disabled, the validity lowered, the component enabled (schedule.go:494) |
| `service_accounts` | `MaxGap = 4` | `RestoreFindsToken` | a late pass misses the window of the pair (pre_backup.go:481) |
| `service_accounts` | `MaxActs = 2`, `Acts = {"useMSA"}`, `Faults = {"cleanup"}` | `RestoreFindsToken` | switched off while a deletion fails, and on again, the pair may be in phase with the first token |
| `service_accounts` | `MaxActs = 2`, `Acts = {"component"}`, `Faults = {}`, without `~disabled` in the property | `RestoreFindsToken` | both accounts survive a disabled component, and their tokens come back in phase (schedule.go:494) |
| `service_accounts` | `Acts = {"validity"}`, without `~edited` in the property | `RestoreFindsToken` | an edited validity can bring both tokens into phase, for ever |
| `service_accounts` | `MaxFaults = 2` | `RestoreFindsToken` | the pair is one pass later; holds with `Slack = 5` |
| `cleanup` | `Lost = {"hive"}` | `ActivationHeldBack` | Hive kinds whose discovery failed are not excluded from the generic backup, and reach a passive hub (backup.go:460) |
| `cleanup` | `KeepsExcluded` added | `KeepsExcluded` | secrets with `velero.io/exclude-from-backup` are removed, against docs/architecture.md:294 (restore_post.go:355) |
| `cleanup` | without `~missed` in the property | `Reflects` | a failing list or deletion is only logged: Finished, or Enabled, is reported over objects of older backups (restore_post.go:380-398, 509-513, 536, 916) |
| `cleanup` | without the last conjunct of `WithinReach` | `Reflects` | managed-cluster data with a cluster-backup label is not cleaned up: neither the clusters' nor the generic clean-up selects it (restore_post.go:468) |

Further differences met while reading, without a property of their own: sync mode does not look for new
backups of generic resources (restore_controller.go:677); Enabled is reported, with the message that the
restores have run to completion, while one is finalizing (restore.go:370); the age of a marker of the other
hub is that of its local copy (schedule.go:614); an incomplete cached list leads to the deletion of a
complete set of schedules (schedule_controller.go:234), again and again if the cache keeps lagging, which is
why `EventuallyEnabled` is checked without such a lag; README.md and docs/architecture.md still say that the
Velero schedules are deleted on a collision, where the code pauses them (utils.go:534).

### Fairness

`FairSpec` assumes weak fairness of the reconcile worker, of pending timers, of the informers, of Velero,
of the garbage collector and of the PVC policy: each is a loop that keeps running. A lost storage location
comes back and Restores end; both are assumptions about the hub without which nothing could be promised.
Nothing is assumed of the user, of the other hub, or of any disturbance. In `HubNamespace` a pass for each
queued Restore is strongly fair (`SF` on `Begin(r)`): the work queue is first-in first-out, so a queued
name is not overtaken for ever while the worker is busy with others. `ManagedServiceAccounts` assumes only
that passes follow each other. For the Velero restores fairness is
on the whole (one worker works off its queue), for Velero schedules per schedule.

## Proofs

TLAPS proves the following for every value of the constants that satisfies the named assumptions
(`ConstantsAssumption`, `ScheduleAssumption`, `HubAssumption`, `MSAAssumption`, `CleanupAssumption`): any
number of cycles, specs, schedules, Restores, clusters, backups and faults. Most of the further hypotheses
are needed: the second table above has instances that violate the property without them. The inductive
invariants were first checked by TLC on the instances of the runs or larger ones.

Restore controller (`RestoreReconcilerProofs`):

* `TypeCorrect`: `TypeOK`. Lemmas establish the types of the helpers; then there is one step per action.
* `TerminalStaysFinal`: `TerminalIsFinal`, with any caches lagging and any faults. `TerminalIsFinal` is not
  inductive alone: it needs `CopyInv`, that a copy which claims to be current is current, and that a pass
  with a current copy of a finished Restore never comes to write. Only the resourceVersion check protects
  the others.
* `FinishedIsSound`: `FinishedSound`, if no cache lags and no list of backups fails. The inductive `SoundInv`
  adds that a pass that is about to write Finished computed it from restores which have all completed, and
  that completed restores stay so.
* `NoLateCreate`: `NoCreateAfterTerminal` under the same assumptions, from the same invariant.
* `FinishedWithTasks`: `FinishedIsComplete` with any cache lagging, if the storage location is not lost and no
  list fails, that of the local cluster and the managed clusters after the restore included; specs may be edited where all of them ask for sync. `CompleteInv` follows the decision through
  the pass: a pass that has something to restore (`Admitted`) ends in Finished only through `Cleanup`, which
  stamps the time and runs the tasks before the status is written (`Decided`, `Undecided`).
* `GateIsKept`: `ActivationGate` with any cache lagging, if Velero restores are not deleted by others.
  `GateInv` says that the creation loop holds ManagedClusters only together with the activation credentials,
  or after them and with the PVCs there. The gate reads a list of Velero restores that may be old; `SightInv`
  says why that is enough: Velero moves restores only on, the operator deletes one only after its backup is
  gone, and the loop comes only to restores whose backups were there when it was planned, so one that the
  list shows as worked on has been. Where specs are edited, backups must not disappear and a Credentials
  backup must exist: the plan that only activates does not miss one.
* `NeverRollsBack`: `SyncNeverRollsBack` without any hypothesis. `RollInv` relates what a pass plans to what
  its copy tracks and to the backups that existed: it takes the most recent backup, and a copy that is not
  current cannot be written.
* `EnabledIsSound` (`RestoreSyncProofs`): `EnabledSound`, if no cache lags and no status update is lost (no
  restart, refused update, edit, or Velero restore deleted by others), and no Velero restore fails where
  backups may disappear. Enabled is sticky: `setRestorePhase` does not look again, so what a pass tracks
  without creating it must rest already. `SyncInv` says so: a Velero restore that is not tracked is done or
  older than the one of its type that is (`Covered`), a copy that is Enabled tracks only restores that rest,
  and the creation loop only comes to types for which tracking what exists is harmless (`LoopSound`).
* `FinishedHasAll` (`RestoreSyncProofs`): `FinishedCoversSpec`, if no cache lags and no pass is torn by a restart,
  an error or an edit; backups may disappear, other resources may block the Restore, post-restore tasks may end early, and the storage location
  may be lost where no managed clusters are restored (with them, the recovery reports Finished without the
  second pass). A Restore may take several passes that create, each of which plans from the backups of its own
  moment. `CoverInv`: of every type that has a Velero restore the status names one (`Anchors`); what the
  creation loop is to bring is there or still on its list (`LoopCovers`); without managed clusters only the
  first pass that creates looks for backups, so after it all that is asked for is there, and with them every pass looks until the
  restore of the managed clusters is there, which the loop creates last (`Covering`). `SoundInv` adds that they have completed.

Contract (`RestoreContractProofs`):

* `ContractIsKept`: `Spec => KeepsContract` under the assumptions of `FinishedIsSound`, the refinement.
  `SoundInv` holds before and after every step; a status update is a `Report` or, for a final phase, a
  stutter (`TerminalIsFinal`); `Create` is a `Start` because nothing is created after a final phase
  (`NoCreateAfterTerminal`); Velero's steps are `End` or stutters; deletions are `Forget`.

BackupSchedule controller (`ScheduleReconcilerProofs`):

* `TypeCorrect`: `TypeOK`, through `TypeInv`, which adds that a pass that creates or updates schedules works
  with a valid cron expression.
* `CollisionIsFinal`: `CollisionNeverResumes`, if the cache of BackupSchedules does not lag, even if that of
  the Velero schedules does. The inductive `CollisionInv` says that while a collision is reported the cached
  copy shows it and no pass is under way.
* `OneDueTime`: `SameDueTime`, in fact in every phase, if the cache of Velero schedules does not lag. `SameInv`:
  a creation loop starts only when no Velero schedule is there, and nothing else creates one.
* `CollisionIsCaused`: `CollisionHasCause`, with any cache lagging, if Velero starts markers at once. `CauseInv`:
  while the other hub has not been active since the last restore here, the marker of that restore is newer
  than anything the other hub left, so it sorts first (`CollidesIsContested`) and is not deleted.

One hub (`HubNamespaceProofs`):

* `TypeCorrect`: `TypeOK`.
* `OneRestoreInProgress`: `OneInProgress` for every `MaxLag`, while no list fails. The check of a pass may be
  arbitrarily old, so why can no two Restores get past it? `VisibleInv`: any state of the API server, however
  old, that shows some other unfinished Restore also shows the one that is under way, because that one was
  written when no other was; `ClearedInv`: a pass that found no other has none beside it that is under way,
  as long as its own write can still succeed. `HistoryInv`, `ConvexInv` and `PassInv` are about the log: a
  Restore that was finished stays so, and between two states of a Restore there is no other of its name.
* `HubIsHeld`: `HubHeld`, with a current list. `HeldInv`: before a Restore gets its finalizer the component has
  its own, and it is released only for the last Restore.

Tokens (`ManagedServiceAccountsProofs`):

* `TypeCorrect`: `TypeOK`, ages included.
* `AnnotationsSoundUnedited`: `AnnotationSound` until the validity is edited, whatever fails. `PromiseInv` says
  that the status of an account and the annotations outlive no token; a renewal does not shorten the life of
  the token because the validity is the same (`UneditedInv`).
* `AnnotationsSound`: `AnnotationSound` through any edits, if no validity exceeds five times another (a token is
  renewed when a fifth is left), clean-up does not fail, and until the component is first disabled: from then on
  accounts survive without a token (`ValidityInv`, `PairedInv`, `EnabledInv`).
* `RestoreAlwaysFindsToken` (`TokenRotationProofs`): `RestoreFindsToken` under `RotationLaw`: until the validity is edited
  or the component disabled, a backup holds a token from the time the first one is as old as `Slack`, and the
  token that is picked on the restored hub is valid. With `MaxGap` the time between passes and `Late` the delay that failing calls cause, it says: delayed passes still fall into
  the window of the pair (`MaxGap + Late <= Window`); a new token is annotated within the slack
  (`2 * MaxGap + Late < Slack`); the window ends before the first token is renewed; and accounts that a failing
  clean-up left behind when the schedule stopped asking for them are not put to use again. With passes every five minutes and a window of fifteen, the
  first three hold for two failing calls, `Slack = 5` and validities of 55 minutes or more. `RotationInv` follows the two rotations: records of an older token are
  recognised by their age and a token without records is young (`AccountAt`); the pair is not there yet, has
  no token yet, or its token and the first are apart by more than half a validity and not by much more
  (`PairAt`). As both have one validity and are renewed at the same age, they stay apart. The hypotheses
  are needed: a late pass, a second failing call with the same `Slack`, and a second switch next to a failing
  clean-up violate the property (second table).

Contents and clean-up (`DeltaCleanupProofs`):

* `TypeCorrect` and `InOneBackup` (`BackedUpOnce`, from the selectors alone), without hypothesis.
* `RestoredIsKept`: `KeepsRestored`. `BroughtInv`: what a completed Velero restore brings is on the hub with the
  stamp of that backup, and clean-up of a type passes over its own stamp (`BaseInv`: the jobs belong to the
  backups that the Restore tracks).
* `HeldBack`: `ActivationHeldBack` where discovery does not lose the Hive kinds (`ActivatedInv`).
* `HubReflectsBackups`: `Reflects`, any removal of any clean-up being allowed to fail: while the last one did not,
  the hub reflects the backups, whatever earlier ones left behind. `ReflectInv`: where the copy comes from, and
  what a clean-up that did not fail has left of it.
* `LossFollowsFailure`: clean-up removes part of the backups being restored only when a Velero restore of the
  Restore has failed, wholly or in part (`LostByFailure`), without hypothesis. So `BackedUpIsKept`:
  `KeepsBackedUp` where every Velero restore completes; `failed_restore_cleanup` shows the only cause there is.
* `ExcludedIsKept`: `KeepsExcluded` for every kind but secrets and config maps, the exception that the table
  of disagreements names.

Only model-checked:

* every liveness property (`EventuallyDone`, `SyncCatchesUp`, `EventuallyEnabled`, `CollisionStopsBackups`,
  `CollisionNoticed`, `PausedStopsBackups`, `DeletedGoesAway`, `HubDeletionClears`, `OverlapEnds`,
  `DisabledCleansUp`, `ValidityApplied`): fairness and ENABLED are out of the prover's reach;
* `FinishedCoversSpec` for a sync Restore that is edited to activate: it holds in `restore_sync_activate` with
  `Faults = {"edit", "blocked"}`, but between the edit and its pass nothing covers the new spec, so `CoverInv`
  would need a case for each plan of the sync mode.

## Not modelled

* `postRestoreActivation`: one loop over the managed clusters that keeps no state between passes; its
  decisions are about names, labels and URLs. The choice of the token, which depends on time, is modelled.
* The labelling of Hive, assisted-installer and bare-metal secrets (pre_backup.go:889-1234): idempotent
  additions of a label. `DeltaCleanup` lets the label be anything at each backup.
* The user's filters and optional properties on Velero restores, excluded namespaces, sibling backups less
  than five minutes apart, `cleanupExpiredValidationBackups`, `getSchedulesWithUpdatedResources`.
* The schedule controllers of two hubs on one storage location: `ScheduleReconciler` has one, and lets the
  other hub write anything at any time, which covers safety on this hub but not that both stop.
* Start-up, TLS and flags (`main.go`, `pkg/`), generated code and manifests.

## Worth proving next

1. `FinishedCoversSpec` for sync Restores that are edited to activate.
2. `HubNamespace`: `HubHeld` under the weakest condition on the age of a list.
