------------------------------ MODULE MCRestore ------------------------------
(* Values of the constants of RestoreReconciler for its TLC runs.          *)
EXTENDS RestoreReconciler

SpecOf(sync, mc, creds, res, cleanup) ==
    [sync |-> sync, mc |-> mc, creds |-> creds, res |-> res, cleanup |-> cleanup]

(* Passive data, then managed clusters, in one Restore.                    *)
ActivateAll == SpecOf(FALSE, latest, latest, latest, "CleanupRestored")

(* Passive data only.                                                      *)
PassiveOnly == SpecOf(FALSE, skip, latest, latest, "None")

(* Nothing at all, and an unknown cleanup option.                          *)
SkipAll == SpecOf(FALSE, skip, skip, skip, "None")
BadCleanup == SpecOf(FALSE, skip, latest, latest, "invalid")

(* Managed clusters without credentials, by the name of a backup.          *)
ClustersByName == SpecOf(FALSE, 1, skip, skip, "None")

(* Managed clusters and nothing else, from the latest backup.              *)
ClustersOnly == SpecOf(FALSE, latest, skip, skip, "None")

(* A passive hub in sync, and its activation.                              *)
SyncPassive == SpecOf(TRUE, skip, latest, latest, "None")
SyncActivate == SpecOf(TRUE, latest, latest, latest, "None")

Full(c) == {<<t, c>> : t \in BackupTypes}

OneCycle == {Full(1)}
NoBackups == {}

OneTimeSpecs == {ActivateAll, PassiveOnly}
SyncSpecs == {SyncPassive, SyncActivate}
SyncPassiveSpecs == {SyncPassive}
SettingsSpecs ==
    {[ClustersOnly EXCEPT !.cleanup = "CleanupRestored"], ClustersByName, SkipAll, BadCleanup}
ClustersOneCycle == {{<<"ManagedClusters", 1>>}}
Pair(c) == {<<"Credentials", c>>, <<"Resources", c>>}
PairOneCycle == {Pair(1)}
SecondPair == Pair(2)

=============================================================================
