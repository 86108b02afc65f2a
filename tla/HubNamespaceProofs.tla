-------------------------- MODULE HubNamespaceProofs -------------------------
(***************************************************************************)
(* Theorems about HubNamespace, for any number of Restores, of writes by   *)
(* the user and of writes the cache may be behind.                         *)
(***************************************************************************)
EXTENDS HubNamespace, FiniteSetTheorems, SequenceTheorems, TLAPS

-----------------------------------------------------------------------------
(* The inductive invariants.                                               *)

(* What the cache may show, now or later.                                  *)
Entries == {log[i] : i \in 1..Len(log)}

Live(obj) == obj.there /\ obj.phase \notin Terminal

Active(obj) == obj.there /\ obj.phase \in {"InProgress", "Enabled"}

(* No two Restores have the same uid for long: it is that of a write of    *)
(* the user.  A Restore that is finished in an old state of the API server *)
(* is finished in the present one, or it is another Restore.               *)
HistoryInv ==
    \A v \in Entries, r \in RestoreNames :
        /\ v[r].there <=> v[r].uid # 0
        /\ v[r].uid <= acts
        /\ /\ v[r].there /\ v[r].uid = rst[r].uid /\ v[r].phase \in Terminal
           => rst[r].phase \in Terminal

(* While a Restore is there, the cache shows no other of its name between  *)
(* two of its states.                                                      *)
ConvexInv ==
    \A i, j \in 1..Len(log), r \in RestoreNames :
        i <= j /\ log[i][r].uid # 0 /\ log[i][r].uid = rst[r].uid => log[j][r].uid = rst[r].uid

(* The pass in progress works on a Restore that was there; as long as it   *)
(* still is, the cache shows no other of its name.                         *)
PassInv ==
    pc # "idle" =>
        /\ job.base.there /\ job.base.uid # 0 /\ job.base.uid <= acts
        /\ job.obj.there /\ job.obj.uid = job.base.uid
        /\ rst[job.name].uid = job.base.uid =>
              \A v \in Entries : v[job.name].uid = job.base.uid
        /\ pc # "write" => job.obj = job.base
        /\ pc \in {"work", "write"} => job.base.phase \notin Terminal

(* The name of the pass is that of a Restore that is still unfinished.     *)
Unfinished ==
    rst[job.name].uid = job.base.uid /\ rst[job.name].phase \notin Terminal

(* A pass that went on after the check of the others has none beside it    *)
(* that is under way, although its list may be old.                        *)
ClearedInv ==
    pc \in {"work", "write"} /\ job.obj.phase \notin Terminal /\ Unfinished =>
        \A q \in RestoreNames \ {job.name} : ~Active(rst[q])

(* Whoever sees another unfinished Restore sees the one that is under way. *)
VisibleInv ==
    \A q \in RestoreNames : Active(rst[q]) =>
        \A v \in Entries, r \in RestoreNames \ {q} : Live(v[r]) => Live(v[q])

ExclusionInv ==
    HistoryInv /\ ConvexInv /\ PassInv /\ ClearedInv /\ VisibleInv /\ OneInProgress

-----------------------------------------------------------------------------
(* The log of the Restores.                                                *)

LEMMA NoRestoreType == NoRestore \in Restores
BY HubAssumption DEF NoRestore, Restores, Terminal

LEMMA NoJobType == NoJob \in Jobs
<1>1. (CHOOSE r \in RestoreNames : TRUE) \in RestoreNames
  BY HubAssumption
<1> QED
  BY <1>1, NoRestoreType DEF NoJob, Jobs, NoHub, Hubs

(* The first and the last entry of the log are Restores by name.           *)
LEMMA LogType ==
    ASSUME TypeOK
    PROVE  /\ log \in Seq(Objects) /\ Len(log) \in Nat /\ Len(log) >= 1 /\ Len(log) <= MaxLag + 1
           /\ rst \in Objects /\ View \in Objects
           /\ rst \in Entries /\ View \in Entries
           /\ \A v \in Entries : v \in Objects
<1>1. log \in Seq(Objects) /\ Len(log) \in 1..(MaxLag + 1)
  BY DEF TypeOK
<1>2. Len(log) \in Nat /\ 1 \in 1..Len(log) /\ Len(log) \in 1..Len(log)
  BY <1>1, HubAssumption
<1>3. \A i \in 1..Len(log) : log[i] \in Objects
  BY <1>1, ElementOfSeq
<1> QED
  BY <1>1, <1>2, <1>3, HubAssumption DEF rst, View, Entries

(* A write adds one entry, or replaces the only one.                       *)
LEMMA PutShape ==
    ASSUME TypeOK, NEW s \in Objects, NEW queued, Put(s, queued)
    PROVE  /\ log' \in Seq(Objects) /\ Len(log') \in 1..(MaxLag + 1)
           /\ rst' = s
           /\ \A j \in 1..Len(log') : j # Len(log') => j \in 1..Len(log) /\ log'[j] = log[j]
           /\ Entries' \subseteq Entries \cup {s}
<1> USE LogType, HubAssumption
<1>1. CASE MaxLag = 0
  <2>1. log' = <<s>>
    BY <1>1 DEF Put
  <2>2. Len(log') = 1 /\ log'[1] = s /\ log' \in Seq(Objects)
    BY <2>1
  <2> QED
    BY <2>2 DEF rst, Entries
<1>2. CASE MaxLag # 0
  <2>1. log' = Append(log, s) /\ Len(log) <= MaxLag
    BY <1>2 DEF Put, CanWrite
  <2>2. /\ log' \in Seq(Objects) /\ Len(log') = Len(log) + 1 /\ log'[Len(log) + 1] = s
        /\ \A j \in 1..Len(log) : log'[j] = log[j]
    BY <2>1, AppendProperties
  <2>3. Len(log') \in 1..(MaxLag + 1) /\ rst' = s
    BY <2>1, <2>2 DEF rst
  <2>4. \A j \in 1..Len(log') : j # Len(log') => j \in 1..Len(log) /\ log'[j] = log[j]
    BY <2>2
  <2> QED
    BY <2>2, <2>3, <2>4 DEF Entries
<1> QED
  BY <1>1, <1>2

(* The cache takes the next entry.                                         *)
LEMMA DeliverShape ==
    ASSUME TypeOK, Deliver
    PROVE  /\ log' \in Seq(Objects) /\ Len(log') \in 1..(MaxLag + 1)
           /\ rst' = rst
           /\ Len(log') = Len(log) - 1
           /\ \A j \in 1..Len(log') : log'[j] = log[j + 1]
           /\ Entries' \subseteq Entries
<1> USE LogType, HubAssumption
<1>1. log' = Tail(log) /\ Len(log) > 1
  BY DEF Deliver
<1>2. log' \in Seq(Objects) /\ Len(log') = Len(log) - 1
      /\ \A j \in 1..Len(log') : log'[j] = log[j + 1]
  BY <1>1, HeadTailProperties
<1>3. Len(log') \in 1..(MaxLag + 1) /\ rst' = rst
  BY <1>1, <1>2 DEF rst
<1> QED
  BY <1>2, <1>3 DEF Entries

(* A restart reads everything anew.                                        *)
LEMMA RestartShape ==
    ASSUME TypeOK, log' = <<rst>>
    PROVE  /\ log' \in Seq(Objects) /\ Len(log') = 1 /\ log'[1] = rst
           /\ rst' = rst
           /\ Entries' \subseteq Entries
<1> USE LogType, HubAssumption
<1>1. log' \in Seq(Objects) /\ Len(log') = 1 /\ log'[1] = rst
  OBVIOUS
<1> QED
  BY <1>1 DEF rst, Entries

-----------------------------------------------------------------------------
(* Type correctness.                                                       *)

(* What is asked of log.                                                   *)
LogOK == log \in Seq(Objects) /\ Len(log) \in 1..(MaxLag + 1)

(* Deletion leaves a Restore, or none.                                     *)
LEMMA DeletedType ==
    ASSUME NEW obj \in Restores
    PROVE  Deleted(obj) \in Restores
BY NoRestoreType DEF Deleted, Restores

(* A write of one Restore and the events it causes.                        *)
LEMMA PutType ==
    ASSUME TypeOK, NEW r \in RestoreNames, NEW obj \in Restores, Put([rst EXCEPT ![r] = obj], queue)
    PROVE  LogOK' /\ queue' \subseteq RestoreNames
<1>1. [rst EXCEPT ![r] = obj] \in Objects
  BY LogType DEF Objects
<1>2. LogOK'
  BY <1>1, PutShape DEF LogOK
<1>3. queue' \subseteq RestoreNames
  BY DEF TypeOK, Put, Changed
<1> QED
  BY <1>2, <1>3

(* What the user and the cluster do is counted.                            *)
LEMMA ActType ==
    ASSUME TypeOK, NEW kind, Act(kind)
    PROVE  /\ acts' \in 0..MaxActs /\ acts' = acts + 1 /\ acts' > acts
           /\ acts \in Nat /\ acts + 1 \in 0..MaxActs
BY HubAssumption DEF TypeOK, Act

LEMMA BeginType ==
    ASSUME TypeOK, NEW r \in RestoreNames, Begin(r)
    PROVE  TypeOK'
<1> DEFINE read == [name |-> r, obj |-> View[r], base |-> View[r], component |-> hub]
<1>1. read \in Jobs
  BY LogType DEF TypeOK, Jobs, Objects
<1>2. UNCHANGED <<log, hub, schVars, acts>> /\ queue' \subseteq RestoreNames
  BY DEF TypeOK, Begin
<1>3. CASE ~View[r].there
  BY <1>1, <1>2, <1>3, NoJobType DEF TypeOK, Begin, Return, LogOK, schVars
<1>4. CASE View[r].there /\ View[r].deleting /\ velero[r] # "none"
  <2>1. Return /\ timers' \subseteq RestoreNames /\ velero' \in [RestoreNames -> VeleroStates]
    BY <1>4 DEF TypeOK, Begin, finalizeRestore, VeleroStates
  <2> QED
    BY <2>1, <1>2, NoJobType DEF TypeOK, Return, LogOK, schVars
<1>5. CASE View[r].there /\ View[r].deleting /\ velero[r] = "none"
  <2>1. pc' = "release" /\ job' = read /\ UNCHANGED <<velero, timers>>
    BY <1>5 DEF Begin, finalizeRestore
  <2> QED
    BY <2>1, <1>1, <1>2 DEF TypeOK, LogOK, schVars
<1>6. CASE View[r].there /\ ~View[r].deleting
  <2>1. /\ pc' \in {"expire", "protectHub", "check"}
        /\ job' = read /\ UNCHANGED <<velero, timers>>
    BY <1>6 DEF Begin
  <2> QED
    BY <2>1, <1>1, <1>2 DEF TypeOK, LogOK, schVars
<1>7. View[r].there \in BOOLEAN /\ View[r].deleting \in BOOLEAN
  BY LogType DEF Objects, Restores
<1> QED
  BY <1>3, <1>4, <1>5, <1>6, <1>7

LEMMA ProtectHubType ==
    ASSUME TypeOK, ProtectHub
    PROVE  TypeOK'
<1>1. hub' \in Hubs /\ pc' \in {"protectOwn", "check"}
  BY DEF TypeOK, ProtectHub, Hubs
<1> QED
  BY <1>1 DEF TypeOK, ProtectHub, restoreVars, schVars, LogOK

LEMMA ProtectOwnType ==
    ASSUME TypeOK, ProtectOwn
    PROVE  TypeOK'
<1> DEFINE protected == [job.obj EXCEPT !.fin = TRUE]
<1>1. protected \in Restores /\ job.name \in RestoreNames
  BY DEF TypeOK, Restores, Jobs
<1>2. LogOK' /\ queue' \subseteq RestoreNames
  BY <1>1, PutType DEF TypeOK, ProtectOwn, LogOK
<1>3. job' \in Jobs
  <2>1. [job EXCEPT !.obj = protected, !.base = protected] \in Jobs
    BY <1>1 DEF TypeOK, Jobs
  <2> QED
    BY <2>1 DEF TypeOK, ProtectOwn, LogOK
<1> QED
  BY <1>2, <1>3 DEF TypeOK, ProtectOwn, schVars, LogOK

LEMMA ExpireType ==
    ASSUME TypeOK, Expire
    PROVE  TypeOK'
<1>1. job.name \in RestoreNames /\ Deleted(rst[job.name]) \in Restores
  BY LogType, DeletedType DEF TypeOK, Jobs, Objects
<1>2. [rst EXCEPT ![job.name] = Deleted(@)] = [rst EXCEPT ![job.name] = Deleted(rst[job.name])]
  OBVIOUS
<1>3. LogOK' /\ queue' \subseteq RestoreNames
  BY <1>1, <1>2, PutType DEF TypeOK, Expire, LogOK
<1> QED
  BY <1>3, NoJobType DEF TypeOK, Expire, Return, schVars, LogOK

(* The check changes the phase and whom the message blames.                *)
LEMMA CheckJob ==
    ASSUME NEW other
    PROVE  [job EXCEPT !.obj.phase = "FinishedWithErrors", !.obj.blames = other] =
           [job EXCEPT !.obj = [job.obj EXCEPT !.phase = "FinishedWithErrors", !.blames = other]]
OBVIOUS

LEMMA BlamedType ==
    ASSUME TypeOK, NEW other \in isOtherResourcesRunning(job.name)
    PROVE  other \subseteq RestoreNames
BY DEF isOtherResourcesRunning, isOtherRestoresRunning, Listed

LEMMA CheckType ==
    ASSUME TypeOK, Check
    PROVE  TypeOK'
<1>1. /\ UNCHANGED <<restoreVars, hub, timers, schVars>>
      /\ pc' \in {"idle", "write", "work"}
      /\ queue' = queue \/ queue' = queue \cup {job.name}
      /\ acts' = acts \/ \E kind \in Acts : Act(kind)
  BY DEF Check, Act, Return
<1>2. ASSUME NEW other \in isOtherResourcesRunning(job.name)
      PROVE  [job EXCEPT !.obj.phase = "FinishedWithErrors", !.obj.blames = other] \in Jobs
  <2>1. [job.obj EXCEPT !.phase = "FinishedWithErrors", !.blames = other] \in Restores
    BY <1>2, BlamedType DEF TypeOK, Restores, Terminal, Jobs
  <2> QED
    BY <2>1, <1>2, CheckJob DEF TypeOK, Jobs, LogOK
<1>3. job' \in Jobs
  BY <1>2, NoJobType DEF TypeOK, Check, Return
<1>4. acts' \in 0..MaxActs
  BY <1>1, ActType DEF TypeOK
<1>5. queue' \subseteq RestoreNames
  BY <1>1 DEF TypeOK, Jobs
<1> QED
  BY <1>1, <1>3, <1>4, <1>5 DEF TypeOK, restoreVars, schVars

(* The rest of the pass changes the phase and whether the managed clusters *)
(* are named.                                                              *)
WorkObj(named, phase) == [job.obj EXCEPT !.named = named, !.phase = phase]

LEMMA WorkJob ==
    ASSUME TypeOK, Work
    PROVE  \E named \in BOOLEAN, phase \in {"InProgress", "Enabled"} \cup Terminal :
              job' = [job EXCEPT !.obj = WorkObj(named, phase)]
<1>1. job.obj \in Restores /\ job.obj.named \in BOOLEAN
  BY DEF TypeOK, Jobs, Restores
<1>2. CASE Creates(job.obj, velero[job.name])
           /\ job' = [job EXCEPT !.obj.named = @ \/ job.obj.kind = "activate",
                    !.obj.phase = IF job.obj.kind = "passive" /\ @ = "Enabled"
                                  THEN @ ELSE "InProgress"]
  <2> DEFINE named == job.obj.named \/ job.obj.kind = "activate"
             phase == IF job.obj.kind = "passive" /\ job.obj.phase = "Enabled"
                      THEN "Enabled" ELSE "InProgress"
  <2>1. job' = [job EXCEPT !.obj = WorkObj(named, phase)]
    BY <1>1, <1>2 DEF WorkObj, TypeOK, Jobs, Restores
  <2>2. named \in BOOLEAN /\ phase \in {"InProgress", "Enabled"}
    BY <1>1
  <2> QED
    BY <2>1, <2>2
<1>3. ASSUME NEW p \in Reported(job.obj, velero[job.name]), job' = [job EXCEPT !.obj.phase = p]
      PROVE  \E named \in BOOLEAN, phase \in {"InProgress", "Enabled"} \cup Terminal :
                job' = [job EXCEPT !.obj = WorkObj(named, phase)]
  <2>1. p \in {"InProgress", "Enabled"} \cup Terminal
    BY <1>3 DEF Reported, Terminal
  <2>2. job' = [job EXCEPT !.obj = WorkObj(job.obj.named, p)]
    BY <1>1, <1>3 DEF WorkObj, TypeOK, Jobs, Restores
  <2> QED
    BY <2>1, <2>2, <1>1
<1>4. CASE job' = [job EXCEPT !.obj.phase = "InProgress"]
  <2>1. job' = [job EXCEPT !.obj = WorkObj(job.obj.named, "InProgress")]
    BY <1>1, <1>4 DEF WorkObj, TypeOK, Jobs, Restores
  <2> QED
    BY <2>1, <1>1
<1> QED
  BY <1>2, <1>3, <1>4 DEF Work

LEMMA WorkType ==
    ASSUME TypeOK, Work
    PROVE  TypeOK'
<1>1. job' \in Jobs
  <2>1. PICK named \in BOOLEAN, phase \in {"InProgress", "Enabled"} \cup Terminal :
            job' = [job EXCEPT !.obj = WorkObj(named, phase)]
    BY WorkJob
  <2>2. WorkObj(named, phase) \in Restores
    BY DEF WorkObj, TypeOK, Jobs, Restores
  <2> QED
    BY <2>1, <2>2 DEF TypeOK, Jobs
<1>2. queue' \subseteq RestoreNames /\ velero' \in [RestoreNames -> VeleroStates]
  BY DEF TypeOK, Jobs, Work, VeleroStates
<1> QED
  BY <1>1, <1>2 DEF TypeOK, Work, schVars

LEMMA WriteStatusType ==
    ASSUME TypeOK, WriteStatus
    PROVE  TypeOK'
<1>1. job.name \in RestoreNames /\ job.obj \in Restores
  BY DEF TypeOK, Jobs
<1>2. LogOK' /\ queue' \subseteq RestoreNames
  BY <1>1, PutType DEF TypeOK, WriteStatus, LogOK
<1>3. timers' \subseteq RestoreNames
  BY <1>1 DEF TypeOK, WriteStatus
<1> QED
  BY <1>2, <1>3, NoJobType DEF TypeOK, WriteStatus, Return, schVars, LogOK

(* What becomes of the InternalHubComponent.                               *)
LEMMA HubType ==
    ASSUME NEW h \in Hubs
    PROVE  /\ NoHub \in Hubs
           /\ [h EXCEPT !.fin = FALSE] \in Hubs
           /\ [h EXCEPT !.deleting = TRUE] \in Hubs
BY DEF Hubs, NoHub

LEMMA ReleaseType ==
    ASSUME TypeOK, Release
    PROVE  TypeOK'
<1>1. /\ UNCHANGED <<restoreVars, timers, schVars>>
      /\ pc' \in {"idle", "drop"}
      /\ queue' = queue \/ queue' = queue \cup {job.name} \/ queue' = queue \cup Listed
      /\ acts' = acts \/ \E kind \in Acts : Act(kind)
      /\ job' = job \/ job' = NoJob
  BY DEF Release, Act, Return
<1>2. acts' \in 0..MaxActs
  BY <1>1, ActType DEF TypeOK
<1>3. queue' \subseteq RestoreNames
  BY <1>1 DEF TypeOK, Jobs, Listed
<1>4. hub' \in Hubs
  <2>1. hub' = hub \/ hub' = NoHub \/ hub' = [hub EXCEPT !.fin = FALSE]
    BY DEF Release
  <2> QED
    BY <2>1, HubType DEF TypeOK
<1> QED
  BY <1>1, <1>2, <1>3, <1>4, NoJobType DEF TypeOK, restoreVars, schVars

LEMMA DropType ==
    ASSUME TypeOK, Drop
    PROVE  TypeOK'
<1>1. job.name \in RestoreNames
  BY DEF TypeOK, Jobs
<1>2. LogOK' /\ queue' \subseteq RestoreNames
  BY <1>1, PutType, NoRestoreType DEF TypeOK, Drop, LogOK
<1> QED
  BY <1>2, NoJobType DEF TypeOK, Drop, Return, schVars, LogOK

LEMMA ScheduleType ==
    ASSUME TypeOK, ScheduleWorker
    PROVE  TypeOK'
<1>1. CASE ScheduleBegin
  <2>1. /\ UNCHANGED <<restoreVars, hub, sch, running, schTimer, workVars>>
        /\ schQueued' = FALSE
        /\ acts' = acts \/ \E kind \in Acts : Act(kind)
    BY <1>1 DEF ScheduleBegin, Act
  <2>2. acts' \in 0..MaxActs
    BY <2>1, ActType DEF TypeOK
  <2>3. \/ UNCHANGED <<schPc, schJob>>
        \/ \E point \in {"write", "pause", "run"}, target \in SchedulePhases :
              schPc' = point /\ schJob' = [base |-> sch, target |-> target]
    BY <1>1 DEF ScheduleBegin, SchedulePhases
  <2>4. /\ schPc' \in {"idle", "pause", "run", "write"}
        /\ schJob' \in [base: BackupSchedules, target: SchedulePhases]
    BY <2>3 DEF TypeOK
  <2> QED
    BY <2>1, <2>2, <2>4 DEF TypeOK, restoreVars, workVars
<1>2. CASE ScheduleApply
  BY <1>2 DEF TypeOK, ScheduleApply, restoreVars, workVars
<1>3. CASE ScheduleWrite
  <2>1. NoSchJob \in [base: BackupSchedules, target: SchedulePhases]
    BY HubAssumption DEF NoSchJob, NoSchedule, BackupSchedules, SchedulePhases
  <2>2. sch' \in BackupSchedules
    BY <1>3 DEF TypeOK, ScheduleWrite, BackupSchedules
  <2>3. schTimer' \in BOOLEAN /\ schQueued' \in BOOLEAN
    BY <1>3 DEF TypeOK, ScheduleWrite
  <2> QED
    BY <1>3, <2>1, <2>2, <2>3 DEF TypeOK, ScheduleWrite, restoreVars, workVars
<1> QED
  BY <1>1, <1>2, <1>3 DEF ScheduleWorker

(* The queues, Velero, the user and the cluster.                           *)
LEMMA EnvironmentType ==
    ASSUME TypeOK, Environment
    PROVE  TypeOK'
<1> USE DEF restoreVars, schVars, workVars
<1>1. ASSUME NEW r \in RestoreNames, RequeueAfter(r) PROVE TypeOK'
  BY <1>1 DEF TypeOK, RequeueAfter
<1>2. ASSUME NEW r \in RestoreNames, VeleroStep(r) PROVE TypeOK'
  BY <1>2 DEF TypeOK, VeleroStep, VeleroStates
<1>3. CASE Deliver
  <2>1. queue' \subseteq RestoreNames
    BY <1>3 DEF TypeOK, Deliver, Changed
  <2> QED
    BY <1>3, <2>1, DeliverShape DEF TypeOK, Deliver
<1>4. CASE ScheduleRequeueAfter
  BY <1>4 DEF TypeOK, ScheduleRequeueAfter
<1>5. CASE SchedulesCollected
  BY <1>5 DEF TypeOK, SchedulesCollected
<1>6. ASSUME NEW r \in RestoreNames, NEW kind \in Kinds, CreateRestore(r, kind) PROVE TypeOK'
  <2>1. acts' \in 0..MaxActs
    BY <1>6, ActType DEF CreateRestore
  <2>2. [NoRestore EXCEPT !.there = TRUE, !.kind = kind, !.uid = acts'] \in Restores
    BY <2>1, NoRestoreType, HubAssumption DEF Restores
  <2>3. LogOK' /\ queue' \subseteq RestoreNames
    BY <1>6, <2>2, PutType DEF CreateRestore
  <2> QED
    BY <1>6, <2>1, <2>3 DEF TypeOK, CreateRestore, LogOK
<1>7. ASSUME NEW r \in RestoreNames, DeleteRestore(r) PROVE TypeOK'
  <2>1. acts' \in 0..MaxActs
    BY <1>7, ActType DEF DeleteRestore
  <2>2. Deleted(rst[r]) \in Restores
    BY LogType, DeletedType DEF Objects
  <2>3. LogOK' /\ queue' \subseteq RestoreNames
    BY <1>7, <2>2, PutType DEF DeleteRestore
  <2> QED
    BY <1>7, <2>1, <2>3 DEF TypeOK, DeleteRestore, LogOK
<1>8. ASSUME NEW r \in RestoreNames, Activate(r) PROVE TypeOK'
  <2>1. acts' \in 0..MaxActs
    BY <1>8, ActType DEF Activate
  <2>2. [rst[r] EXCEPT !.kind = "activate"] \in Restores
    <3>1. rst[r] \in Restores
      BY LogType DEF Objects
    <3> QED
      BY <3>1 DEF Restores
  <2>3. LogOK' /\ queue' \subseteq RestoreNames
    BY <1>8, <2>2, PutType DEF Activate
  <2> QED
    BY <1>8, <2>1, <2>3 DEF TypeOK, Activate, LogOK
<1>9. CASE ChangeSchedule
  <2>1. acts' \in 0..MaxActs
    BY <1>9, ActType DEF ChangeSchedule
  <2>2. NoSchedule \in BackupSchedules
    BY HubAssumption DEF NoSchedule, BackupSchedules, SchedulePhases
  <2>3. ASSUME NEW p \in BOOLEAN
        PROVE  [NoSchedule EXCEPT !.there = TRUE, !.paused = p, !.rev = acts'] \in BackupSchedules
    BY <2>1, <2>2, <2>3 DEF BackupSchedules
  <2>4. [sch EXCEPT !.paused = ~@, !.rev = acts'] \in BackupSchedules
    BY <2>1 DEF TypeOK, BackupSchedules
  <2>5. sch' \in BackupSchedules
    BY <1>9, <2>2, <2>3, <2>4 DEF ChangeSchedule
  <2> QED
    BY <1>9, <2>1, <2>5 DEF TypeOK, ChangeSchedule
<1>10. CASE DeleteHub
  <2>1. acts' \in 0..MaxActs
    BY <1>10, ActType DEF DeleteHub
  <2>2. hub' \in Hubs
    BY <1>10, HubType DEF TypeOK, DeleteHub, DeletedHub
  <2>3. queue' \subseteq RestoreNames
    BY <1>10 DEF TypeOK, DeleteHub, Listed
  <2> QED
    BY <1>10, <2>1, <2>2, <2>3 DEF TypeOK, DeleteHub
<1>11. CASE OperatorRestart
  <2>1. acts' \in 0..MaxActs
    BY <1>11, ActType DEF OperatorRestart
  <2>2. LogOK'
    BY <1>11, RestartShape, HubAssumption DEF OperatorRestart, LogOK
  <2>3. NoSchJob \in [base: BackupSchedules, target: SchedulePhases]
    BY HubAssumption DEF NoSchJob, NoSchedule, BackupSchedules, SchedulePhases
  <2>4. sch.there \in BOOLEAN
    BY DEF TypeOK, BackupSchedules
  <2> QED
    BY <1>11, <2>1, <2>2, <2>3, <2>4, NoJobType DEF TypeOK, OperatorRestart, LogOK
<1> QED
  BY <1>1, <1>2, <1>3, <1>4, <1>5, <1>6, <1>7, <1>8, <1>9, <1>10, <1>11 DEF Environment

(* Every step of the two controllers and of their environment keeps the    *)
(* types: no pass writes a phase, a name or a time outside of its range.   *)
LEMMA TypeStep == TypeOK /\ [Next]_vars => TypeOK'
<1> SUFFICES ASSUME TypeOK, [Next]_vars PROVE TypeOK'
  OBVIOUS
<1>1. CASE RestoreWorker
  BY <1>1, BeginType, ProtectHubType, ProtectOwnType, ExpireType, CheckType, WorkType,
     WriteStatusType, ReleaseType, DropType DEF RestoreWorker
<1>2. CASE ScheduleWorker
  BY <1>2, ScheduleType
<1>3. CASE Environment
  BY <1>3, EnvironmentType
<1>4. CASE UNCHANGED vars
  BY <1>4 DEF TypeOK, vars
<1> QED
  BY <1>1, <1>2, <1>3, <1>4 DEF Next

LEMMA TypeInit == Init => TypeOK
<1> SUFFICES ASSUME Init PROVE TypeOK
  OBVIOUS
<1> DEFINE none == [r \in RestoreNames |-> NoRestore]
<1>1. none \in Objects
  BY NoRestoreType DEF Objects
<1>2. log \in Seq(Objects) /\ Len(log) = 1
  BY <1>1 DEF Init
<1>3. NoSchedule \in BackupSchedules /\ "" \in SchedulePhases
  BY HubAssumption DEF NoSchedule, BackupSchedules, SchedulePhases
<1>4. hub \in Hubs
  BY DEF Init, Hubs
<1>5. velero \in [RestoreNames -> VeleroStates]
  BY DEF Init, VeleroStates
<1>6. schJob \in [base: BackupSchedules, target: SchedulePhases]
  BY <1>3 DEF Init, NoSchJob
<1>7. Len(log) \in 1..(MaxLag + 1) /\ acts \in 0..MaxActs
  BY <1>2, HubAssumption DEF Init
<1> QED
  BY <1>2, <1>3, <1>4, <1>5, <1>6, <1>7, NoJobType DEF Init, TypeOK

(* The state of the namespace keeps its type, whatever the number of       *)
(* Restores, of writes by the user and of writes the cache lags behind.    *)
THEOREM TypeCorrect == Spec => []TypeOK
BY TypeInit, TypeStep, PTL DEF Spec

-----------------------------------------------------------------------------
(* One Restore under way.                                                  *)

(* A write of Restore r: a new Restore, none, or the one there is, and     *)
(* then it does not leave a final phase.                                   *)
Succeeds(r, obj) ==
    /\ obj.there <=> obj.uid # 0
    /\ \/ obj.uid = 0
       \/ obj.uid = acts + 1 /\ acts' = acts + 1
       \/ obj.uid = rst[r].uid /\ (rst[r].phase \in Terminal => obj.phase \in Terminal)

(* The writes of everybody but WriteStatus start no Restore.               *)
Quiet(r, obj) == Succeeds(r, obj) /\ (Active(obj) => Active(rst[r]))

LEMMA WrittenType ==
    ASSUME TypeOK, NEW r \in RestoreNames, NEW obj \in Restores, Put([rst EXCEPT ![r] = obj], queue)
    PROVE  /\ rst' = [rst EXCEPT ![r] = obj] /\ rst' \in Objects
           /\ rst'[r] = obj /\ \A q \in RestoreNames \ {r} : rst'[q] = rst[q]
           /\ \A j \in 1..Len(log') : j # Len(log') => j \in 1..Len(log) /\ log'[j] = log[j]
           /\ log'[Len(log')] = rst' /\ Len(log') \in Nat
           /\ Entries' \subseteq Entries \cup {rst'}
<1>1. [rst EXCEPT ![r] = obj] \in Objects
  BY LogType DEF Objects
<1>2. rst \in Objects
  BY LogType
<1> QED
  BY <1>1, <1>2, PutShape, HubAssumption DEF Objects, rst

(* The uids of the entries are numbers, and those of the API server's too. *)
LEMMA UidType ==
    ASSUME TypeOK
    PROVE  /\ acts \in Nat
           /\ \A v \in Entries, r \in RestoreNames : v[r].uid \in Nat /\ v[r].there \in BOOLEAN
           /\ \A r \in RestoreNames : rst[r].uid \in Nat /\ rst[r].there \in BOOLEAN
           /\ \A i \in 1..Len(log), r \in RestoreNames : log[i][r].uid \in Nat
           /\ job.base.uid \in Nat
<1>1. \A v \in Entries, r \in RestoreNames : v[r] \in Restores
  BY LogType DEF Objects
<1>2. \A obj \in Restores : obj.uid \in Nat /\ obj.there \in BOOLEAN
  <2>1. \A obj \in Restores : obj.uid \in 0..MaxActs /\ obj.there \in BOOLEAN
    BY DEF Restores
  <2> QED
    BY <2>1, HubAssumption
<1>3. \A i \in 1..Len(log) : log[i] \in Entries
  BY DEF Entries
<1> QED
  BY <1>1, <1>2, <1>3, LogType, HubAssumption DEF TypeOK, Jobs

(* A write keeps what the entries of the log say about each other.         *)
LEMMA HistoryPut ==
    ASSUME TypeOK, TypeOK', HistoryInv, ConvexInv, acts' = acts \/ acts' = acts + 1,
           NEW r \in RestoreNames, NEW obj \in Restores, Put([rst EXCEPT ![r] = obj], queue),
           Succeeds(r, obj)
    PROVE  HistoryInv' /\ ConvexInv'
<1>1. \A q \in RestoreNames :
        /\ rst'[q].there <=> rst'[q].uid # 0
        /\ rst'[q].uid <= acts'
        /\ \/ rst'[q].uid = 0 \/ rst'[q].uid = acts + 1
           \/ /\ rst'[q].uid = rst[q].uid
              /\ rst[q].phase \in Terminal => rst'[q].phase \in Terminal
  <2>1. \A q \in RestoreNames : rst[q].uid <= acts /\ (rst[q].there <=> rst[q].uid # 0)
    BY LogType DEF HistoryInv
  <2> QED
    BY <2>1, WrittenType, UidType DEF Succeeds
<1>2. HistoryInv'
  <2> SUFFICES ASSUME NEW v \in Entries', NEW q \in RestoreNames
               PROVE  /\ v[q].there <=> v[q].uid # 0
                      /\ v[q].uid <= acts'
                      /\ v[q].there /\ v[q].uid = rst'[q].uid /\ v[q].phase \in Terminal
                         => rst'[q].phase \in Terminal
    BY DEF HistoryInv
  <2>1. CASE v = rst'
    BY <1>1, <2>1
  <2>2. CASE v \in Entries
    <3>1. /\ v[q].there <=> v[q].uid # 0
          /\ v[q].uid <= acts
          /\ v[q].there /\ v[q].uid = rst[q].uid /\ v[q].phase \in Terminal
             => rst[q].phase \in Terminal
      BY <2>2 DEF HistoryInv
    <3>2. v[q].uid \in Nat /\ acts \in Nat
      BY <2>2, UidType
    <3> QED
      BY <3>1, <3>2, <1>1
  <2> QED
    BY <2>1, <2>2, WrittenType
<1>3. ConvexInv'
  <2> SUFFICES ASSUME NEW i \in 1..Len(log'), NEW j \in 1..Len(log'), NEW q \in RestoreNames,
                      i <= j, log'[i][q].uid # 0, log'[i][q].uid = rst'[q].uid
               PROVE  log'[j][q].uid = rst'[q].uid
    BY DEF ConvexInv
  <2>1. CASE j = Len(log')
    BY <2>1, WrittenType
  <2>2. CASE j # Len(log')
    <3>1. /\ i \in 1..Len(log) /\ j \in 1..Len(log)
          /\ log'[i] = log[i] /\ log'[j] = log[j]
      BY <2>2, WrittenType
    <3>2. log[i] \in Entries
      BY <3>1 DEF Entries
    <3>3. log[i][q].uid <= acts /\ log[i][q].uid \in Nat /\ acts \in Nat
      BY <3>2, UidType DEF HistoryInv
    <3>4. log[i][q].uid = rst[q].uid /\ rst'[q].uid = rst[q].uid
      BY <3>1, <3>3, <1>1
    <3> QED
      BY <3>1, <3>4 DEF ConvexInv
  <2> QED
    BY <2>1, <2>2
<1> QED
  BY <1>2, <1>3

(* A write that starts no Restore keeps the exclusion of the others.       *)
LEMMA SharedPut ==
    ASSUME TypeOK, VisibleInv, OneInProgress,
           NEW r \in RestoreNames, NEW obj \in Restores, Put([rst EXCEPT ![r] = obj], queue),
           Active(obj) => Active(rst[r])
    PROVE  VisibleInv' /\ OneInProgress'
<1>1. \A q \in RestoreNames : Active(rst'[q]) => Active(rst[q])
  BY WrittenType
<1>2. VisibleInv'
  <2> SUFFICES ASSUME NEW q \in RestoreNames, Active(rst'[q]),
                      NEW v \in Entries', NEW p \in RestoreNames \ {q}, Live(v[p])
               PROVE  Live(v[q])
    BY DEF VisibleInv, Active, Live
  <2>1. CASE v = rst'
    BY <2>1 DEF Active, Live, Terminal
  <2>2. CASE v \in Entries
    BY <2>2, <1>1 DEF VisibleInv
  <2> QED
    BY <2>1, <2>2, WrittenType
<1>3. OneInProgress'
  BY <1>1 DEF OneInProgress, InProgress, Active
<1> QED
  BY <1>2, <1>3

(* Nor does it disturb the pass in progress.                               *)
LEMMA PassPut ==
    ASSUME TypeOK, PassInv, ClearedInv, HistoryInv, acts' = acts \/ acts' = acts + 1,
           UNCHANGED <<pc, job>>,
           NEW r \in RestoreNames, NEW obj \in Restores, Put([rst EXCEPT ![r] = obj], queue),
           Quiet(r, obj)
    PROVE  PassInv' /\ ClearedInv'
<1> SUFFICES ASSUME pc # "idle" PROVE PassInv' /\ ClearedInv'
  BY DEF PassInv, ClearedInv
<1>1. job.name \in RestoreNames /\ job.base.uid \in Nat /\ acts \in Nat
  BY UidType DEF TypeOK, Jobs
<1>2. ASSUME rst'[job.name].uid = job.base.uid
      PROVE  /\ rst[job.name].uid = job.base.uid
             /\ rst[job.name].phase \in Terminal => rst'[job.name].phase \in Terminal
  BY <1>1, <1>2, WrittenType DEF Quiet, Succeeds, PassInv
<1>3. PassInv'
  <2>1. ASSUME rst'[job.name].uid = job.base.uid, NEW v \in Entries'
        PROVE  v[job.name].uid = job.base.uid
    BY <1>2, <2>1, WrittenType DEF PassInv
  <2> QED
    BY <1>1, <2>1 DEF PassInv
<1>4. ClearedInv'
  <2>1. \A q \in RestoreNames : Active(rst'[q]) => Active(rst[q])
    BY WrittenType DEF Quiet
  <2> SUFFICES ASSUME pc \in {"work", "write"}, job.obj.phase \notin Terminal, Unfinished',
                      NEW q \in RestoreNames \ {job.name}
               PROVE  ~Active(rst'[q])
    BY DEF ClearedInv, Active
  <2>2. Unfinished
    BY <1>2 DEF Unfinished
  <2> QED
    BY <2>1, <2>2 DEF ClearedInv
<1> QED
  BY <1>3, <1>4

(* What only drops entries of the log keeps what is said of them.          *)
LEMMA SharedShrink ==
    ASSUME TypeOK, HistoryInv, VisibleInv, OneInProgress, acts' = acts \/ acts' = acts + 1,
           rst' = rst, Entries' \subseteq Entries
    PROVE  HistoryInv' /\ VisibleInv' /\ OneInProgress'
<1>1. HistoryInv'
  <2> SUFFICES ASSUME NEW v \in Entries, NEW q \in RestoreNames
               PROVE  /\ v[q].there <=> v[q].uid # 0
                      /\ v[q].uid <= acts'
                      /\ v[q].there /\ v[q].uid = rst'[q].uid /\ v[q].phase \in Terminal
                         => rst'[q].phase \in Terminal
    BY DEF HistoryInv
  <2> QED
    BY UidType DEF HistoryInv
<1>2. VisibleInv'
  BY DEF VisibleInv
<1>3. OneInProgress'
  BY DEF OneInProgress, InProgress
<1> QED
  BY <1>1, <1>2, <1>3

LEMMA PassShrink ==
    ASSUME TypeOK, PassInv, ClearedInv, acts' = acts \/ acts' = acts + 1,
           rst' = rst, Entries' \subseteq Entries, UNCHANGED <<pc, job>>
    PROVE  PassInv' /\ ClearedInv'
<1>1. PassInv'
  BY UidType DEF PassInv
<1>2. ClearedInv'
  BY DEF ClearedInv, Unfinished
<1> QED
  BY <1>1, <1>2

LEMMA ConvexDeliver ==
    ASSUME TypeOK, ConvexInv, Deliver
    PROVE  ConvexInv'
<1> SUFFICES ASSUME NEW i \in 1..Len(log'), NEW j \in 1..Len(log'), NEW q \in RestoreNames,
                    i <= j, log'[i][q].uid # 0, log'[i][q].uid = rst'[q].uid
             PROVE  log'[j][q].uid = rst'[q].uid
  BY DEF ConvexInv
<1>1. /\ i + 1 \in 1..Len(log) /\ j + 1 \in 1..Len(log) /\ i + 1 <= j + 1
      /\ log'[i] = log[i + 1] /\ log'[j] = log[j + 1] /\ rst' = rst
  BY DeliverShape, LogType
<1> QED
  BY <1>1 DEF ConvexInv

LEMMA ConvexRestart ==
    ASSUME TypeOK, log' = <<rst>>
    PROVE  ConvexInv'
BY RestartShape DEF ConvexInv

(* Between passes nothing is said of the pass.                             *)
LEMMA IdlePass ==
    ASSUME pc' = "idle"
    PROVE  PassInv' /\ ClearedInv'
BY DEF PassInv, ClearedInv

LEMMA LogUnchanged ==
    ASSUME UNCHANGED log
    PROVE  rst' = rst /\ Entries' = Entries /\ View' = View
BY DEF rst, Entries, View

LEMMA ConvexUnchanged ==
    ASSUME ConvexInv, UNCHANGED log
    PROVE  ConvexInv'
BY DEF ConvexInv, rst

(* A pass begins with what the cache shows.                                *)
LEMMA BeginExclusion ==
    ASSUME TypeOK, TypeOK', ExclusionInv, NEW r \in RestoreNames, Begin(r)
    PROVE  ExclusionInv'
<1>1. UNCHANGED <<log, acts>>
  BY DEF Begin
<1>2. HistoryInv' /\ VisibleInv' /\ OneInProgress' /\ ConvexInv'
  BY <1>1, LogUnchanged, SharedShrink, ConvexUnchanged DEF ExclusionInv
<1>3. pc' \notin {"work", "write"}
  BY DEF Begin, finalizeRestore, Return
<1>4. CASE pc' = "idle"
  BY <1>2, <1>4, IdlePass DEF ExclusionInv
<1>5. CASE pc' # "idle"
  <2>1. View[r].there /\ job' = [name |-> r, obj |-> View[r], base |-> View[r], component |-> hub]
    BY <1>5 DEF Begin, finalizeRestore, Return
  <2>2. View[r].uid # 0 /\ View[r].uid <= acts
    BY <2>1, LogType DEF ExclusionInv, HistoryInv
  <2>3. ASSUME rst[r].uid = View[r].uid, NEW v \in Entries PROVE v[r].uid = View[r].uid
    <3>1. PICK j \in 1..Len(log) : v = log[j]
      BY <2>3 DEF Entries
    <3>2. 1 \in 1..Len(log) /\ 1 <= j
      BY LogType
    <3> QED
      BY <2>2, <2>3, <3>1, <3>2 DEF ExclusionInv, ConvexInv, View
  <2>4. PassInv'
    BY <1>1, <1>3, <2>1, <2>2, <2>3, LogUnchanged DEF PassInv
  <2> QED
    BY <1>2, <1>3, <2>4 DEF ExclusionInv, ClearedInv
<1> QED
  BY <1>4, <1>5

(* The finalizer on the way to the check.                                  *)
LEMMA ProtectOwnExclusion ==
    ASSUME TypeOK, TypeOK', ExclusionInv, ProtectOwn
    PROVE  ExclusionInv'
<1> DEFINE protected == [job.obj EXCEPT !.fin = TRUE]
<1>1. pc = "protectOwn" /\ pc' = "check" /\ acts' = acts
  BY DEF ProtectOwn
<1>2. CASE UNCHANGED <<log, job>>
  <2>1. PassInv'
    BY <1>1, <1>2, LogUnchanged DEF ExclusionInv, PassInv
  <2>2. ClearedInv'
    BY <1>1 DEF ClearedInv
  <2> QED
    BY <1>1, <1>2, <2>1, <2>2, LogUnchanged, SharedShrink, ConvexUnchanged DEF ExclusionInv
<1>3. CASE /\ Current /\ Put([rst EXCEPT ![job.name] = protected], queue)
           /\ job' = [job EXCEPT !.obj = protected, !.base = protected]
  <2>1. job.obj = job.base /\ job.name \in RestoreNames /\ job.obj \in Restores /\ rst[job.name] = job.base
    BY <1>1, <1>3 DEF ExclusionInv, PassInv, TypeOK, Jobs, Current
  <2>2. /\ protected \in Restores
        /\ protected.there = job.base.there /\ protected.uid = job.base.uid
        /\ protected.phase = job.base.phase
    BY <2>1 DEF Restores
  <2>3. job.base.there /\ job.base.uid # 0 /\ job.base.uid <= acts
    BY <1>1 DEF ExclusionInv, PassInv
  <2>4. Quiet(job.name, protected)
    BY <2>1, <2>2, <2>3 DEF Quiet, Succeeds, Active
  <2>5. HistoryInv' /\ ConvexInv' /\ VisibleInv' /\ OneInProgress'
    BY <1>1, <1>3, <2>1, <2>2, <2>4, HistoryPut, SharedPut DEF ExclusionInv, Quiet
  <2>6. job'.name = job.name /\ job'.obj = protected /\ job'.base = protected
    BY <1>3 DEF TypeOK, Jobs
  <2>7. ASSUME NEW v \in Entries' PROVE v[job.name].uid = protected.uid
    <3>1. rst'[job.name] = protected /\ Entries' \subseteq Entries \cup {rst'}
      BY <1>3, <2>1, <2>2, WrittenType
    <3>2. \A w \in Entries : w[job.name].uid = job.base.uid
      BY <1>1, <2>1 DEF ExclusionInv, PassInv
    <3> QED
      BY <2>2, <2>7, <3>1, <3>2
  <2>8. PassInv'
    BY <1>1, <2>2, <2>3, <2>6, <2>7 DEF PassInv
  <2> QED
    BY <1>1, <2>5, <2>8 DEF ExclusionInv, ClearedInv
<1> QED
  BY <1>2, <1>3 DEF ProtectOwn

(* Deleting a Restore, in the pass or by the user.                         *)
LEMMA DeletedQuiet ==
    ASSUME TypeOK, HistoryInv, NEW r \in RestoreNames
    PROVE  Deleted(rst[r]) \in Restores /\ Quiet(r, Deleted(rst[r]))
<1>1. rst[r] \in Restores /\ (rst[r].there <=> rst[r].uid # 0)
  BY LogType DEF HistoryInv, Objects
<1>2. CASE rst[r].fin
  <2>1. Deleted(rst[r]) = [rst[r] EXCEPT !.deleting = TRUE]
    BY <1>2 DEF Deleted
  <2>2. /\ Deleted(rst[r]).there = rst[r].there /\ Deleted(rst[r]).uid = rst[r].uid
        /\ Deleted(rst[r]).phase = rst[r].phase
    BY <1>1, <2>1 DEF Restores
  <2> QED
    BY <1>1, <2>2, DeletedType DEF Quiet, Succeeds, Active
<1>3. CASE ~rst[r].fin
  <2>1. Deleted(rst[r]) = NoRestore
    BY <1>3 DEF Deleted
  <2>2. ~NoRestore.there /\ NoRestore.uid = 0
    BY DEF NoRestore
  <2> QED
    BY <2>1, <2>2, NoRestoreType DEF Quiet, Succeeds, Active
<1> QED
  BY <1>2, <1>3

LEMMA ExpireExclusion ==
    ASSUME TypeOK, TypeOK', ExclusionInv, Expire
    PROVE  ExclusionInv'
<1>1. pc' = "idle" /\ acts' = acts /\ job.name \in RestoreNames
  BY DEF Expire, Return, TypeOK, Jobs
<1>2. PassInv' /\ ClearedInv'
  BY <1>1, IdlePass
<1>3. CASE UNCHANGED log
  BY <1>1, <1>2, <1>3, LogUnchanged, SharedShrink, ConvexUnchanged DEF ExclusionInv
<1>4. CASE Put([rst EXCEPT ![job.name] = Deleted(rst[job.name])], queue)
  BY <1>1, <1>2, <1>4, DeletedQuiet, HistoryPut, SharedPut DEF ExclusionInv, Quiet
<1> QED
  BY <1>3, <1>4 DEF Expire

(* A Restore that goes on after the check was seen by whoever is under     *)
(* way, or it sees the other.                                              *)
LEMMA CheckClears ==
    ASSUME TypeOK, ExclusionInv, pc = "check", Unfinished, isOtherResourcesRunning(job.name) = {},
           NEW q \in RestoreNames \ {job.name}
    PROVE  ~Active(rst[q])
<1> SUFFICES ASSUME Active(rst[q]) PROVE FALSE
  OBVIOUS
<1>1. job.name \in RestoreNames /\ View \in Entries
  BY LogType DEF TypeOK, Jobs
<1>2. View[job.name].uid = job.base.uid /\ job.base.uid # 0
  BY <1>1 DEF ExclusionInv, PassInv, Unfinished
<1>3. Live(View[job.name])
  BY <1>1, <1>2 DEF ExclusionInv, HistoryInv, Unfinished, Live
<1>4. Live(View[q])
  BY <1>1, <1>3 DEF ExclusionInv, VisibleInv
<1>5. q \in isOtherRestoresRunning(job.name)
  BY <1>4 DEF isOtherRestoresRunning, Listed, Live
<1> QED
  BY <1>5 DEF isOtherResourcesRunning

LEMMA CheckExclusion ==
    ASSUME TypeOK, TypeOK', ExclusionInv, Check, "listError" \notin Acts
    PROVE  ExclusionInv'
<1>1. UNCHANGED <<log, acts>> /\ pc = "check"
  BY DEF Check, restoreVars, Act
<1>2. HistoryInv' /\ VisibleInv' /\ OneInProgress' /\ ConvexInv'
  BY <1>1, LogUnchanged, SharedShrink, ConvexUnchanged DEF ExclusionInv
<1>3. CASE Return
  BY <1>2, <1>3, IdlePass DEF Return, ExclusionInv
<1>4. ASSUME NEW other, job.obj.phase \notin Terminal, pc' = "write",
             job' = [job EXCEPT !.obj.phase = "FinishedWithErrors", !.obj.blames = other]
      PROVE  ExclusionInv'
  <2>1. /\ job'.name = job.name /\ job'.base = job.base
        /\ job'.obj.there = job.obj.there /\ job'.obj.uid = job.obj.uid
        /\ job'.obj.phase = "FinishedWithErrors"
    BY <1>4 DEF TypeOK, Jobs, Restores
  <2>2. PassInv'
    BY <1>1, <1>4, <2>1, LogUnchanged DEF ExclusionInv, PassInv
  <2>3. ClearedInv'
    BY <2>1 DEF ClearedInv, Terminal
  <2> QED
    BY <1>2, <2>2, <2>3 DEF ExclusionInv
<1>5. CASE /\ job.obj.phase \notin Terminal /\ isOtherResourcesRunning(job.name) = {}
           /\ pc' = "work" /\ UNCHANGED job
  <2>1. PassInv'
    BY <1>1, <1>5, LogUnchanged DEF ExclusionInv, PassInv
  <2>2. ClearedInv'
    BY <1>1, <1>5, LogUnchanged, CheckClears DEF ClearedInv, Unfinished
  <2> QED
    BY <1>2, <2>1, <2>2 DEF ExclusionInv
<1> QED
  BY <1>3, <1>4, <1>5 DEF Check, Act

LEMMA WorkExclusion ==
    ASSUME TypeOK, TypeOK', ExclusionInv, Work
    PROVE  ExclusionInv'
<1>1. UNCHANGED <<log, acts>> /\ pc = "work" /\ pc' = "write"
  BY DEF Work
<1>2. HistoryInv' /\ VisibleInv' /\ OneInProgress' /\ ConvexInv'
  BY <1>1, LogUnchanged, SharedShrink, ConvexUnchanged DEF ExclusionInv
<1>3. PICK named \in BOOLEAN, phase \in {"InProgress", "Enabled"} \cup Terminal :
          job' = [job EXCEPT !.obj = WorkObj(named, phase)]
  BY WorkJob
<1>4. /\ job'.name = job.name /\ job'.base = job.base
      /\ job'.obj.there = job.obj.there /\ job'.obj.uid = job.obj.uid
  BY <1>3 DEF WorkObj, TypeOK, Jobs, Restores
<1>5. PassInv'
  BY <1>1, <1>4, LogUnchanged DEF ExclusionInv, PassInv
<1>6. job.obj.phase \notin Terminal
  BY <1>1 DEF ExclusionInv, PassInv
<1>7. ClearedInv'
  BY <1>1, <1>4, <1>6, LogUnchanged DEF ExclusionInv, ClearedInv, Unfinished
<1> QED
  BY <1>2, <1>5, <1>7 DEF ExclusionInv

(* The status update: if it starts the Restore, the other Restores are not *)
(* under way, and every list that could still be read shows this one.      *)
LEMMA WriteStatusExclusion ==
    ASSUME TypeOK, TypeOK', ExclusionInv, WriteStatus
    PROVE  ExclusionInv'
<1>1. /\ pc = "write" /\ pc' = "idle" /\ acts' = acts
      /\ job.name \in RestoreNames /\ job.obj \in Restores
  BY DEF WriteStatus, Return, TypeOK, Jobs
<1>2. PassInv' /\ ClearedInv'
  BY <1>1, IdlePass
<1>3. CASE UNCHANGED log
  BY <1>1, <1>2, <1>3, LogUnchanged, SharedShrink, ConvexUnchanged DEF ExclusionInv
<1>4. CASE Current /\ Put([rst EXCEPT ![job.name] = job.obj], queue)
  <2>1. /\ rst[job.name] = job.base /\ Unfinished
        /\ job.obj.there /\ job.obj.uid = job.base.uid /\ job.base.uid # 0
        /\ \A v \in Entries : v[job.name].uid = job.base.uid
    BY <1>1, <1>4 DEF ExclusionInv, PassInv, Current, Unfinished
  <2>2. Succeeds(job.name, job.obj)
    BY <2>1 DEF Succeeds, Unfinished
  <2>3. HistoryInv' /\ ConvexInv'
    BY <1>1, <1>4, <2>2, HistoryPut DEF ExclusionInv
  <2>4. CASE ~Active(job.obj)
    BY <1>1, <1>2, <1>4, <2>3, <2>4, SharedPut DEF ExclusionInv
  <2>5. CASE Active(job.obj)
    <3>1. \A q \in RestoreNames \ {job.name} : ~Active(rst[q])
      BY <1>1, <2>1, <2>5 DEF ExclusionInv, ClearedInv, Active, Terminal
    <3>2. \A q \in RestoreNames : Active(rst'[q]) => q = job.name
      BY <1>1, <1>4, <3>1, WrittenType
    <3>3. OneInProgress'
      BY <3>2 DEF OneInProgress, InProgress, Active
    <3>4. ASSUME NEW v \in Entries' PROVE Live(v[job.name])
      <4>1. CASE v = rst'
        BY <1>1, <1>4, <2>5, <4>1, WrittenType DEF Active, Live, Terminal
      <4>2. CASE v \in Entries
        BY <1>1, <2>1, <4>2 DEF ExclusionInv, HistoryInv, Unfinished, Live
      <4> QED
        BY <1>1, <1>4, <3>4, <4>1, <4>2, WrittenType
    <3>5. VisibleInv'
      BY <3>2, <3>4 DEF VisibleInv
    <3> QED
      BY <1>2, <2>3, <3>3, <3>5 DEF ExclusionInv
  <2> QED
    BY <2>4, <2>5
<1> QED
  BY <1>3, <1>4 DEF WriteStatus

LEMMA DropExclusion ==
    ASSUME TypeOK, TypeOK', ExclusionInv, Drop
    PROVE  ExclusionInv'
<1>1. pc' = "idle" /\ acts' = acts /\ job.name \in RestoreNames
  BY DEF Drop, Return, TypeOK, Jobs
<1>2. PassInv' /\ ClearedInv'
  BY <1>1, IdlePass
<1>3. CASE UNCHANGED log
  BY <1>1, <1>2, <1>3, LogUnchanged, SharedShrink, ConvexUnchanged DEF ExclusionInv
<1>4. CASE Put([rst EXCEPT ![job.name] = NoRestore], queue)
  <2>1. ~NoRestore.there /\ NoRestore.uid = 0
    BY DEF NoRestore
  <2>2. Quiet(job.name, NoRestore)
    BY <2>1 DEF Quiet, Succeeds, Active
  <2> QED
    BY <1>1, <1>2, <1>4, <2>2, NoRestoreType, HistoryPut, SharedPut DEF ExclusionInv, Quiet
<1> QED
  BY <1>3, <1>4 DEF Drop

(* Steps that leave the log alone and either the pass or its end.          *)
LEMMA StillExclusion ==
    ASSUME TypeOK, ExclusionInv, UNCHANGED log, acts' = acts \/ acts' = acts + 1,
           UNCHANGED <<pc, job>> \/ pc' = "idle"
    PROVE  ExclusionInv'
BY LogUnchanged, SharedShrink, PassShrink, IdlePass, ConvexUnchanged DEF ExclusionInv

(* Steps of the pass before the check and after the release.               *)
LEMMA MoveExclusion ==
    ASSUME TypeOK, ExclusionInv, UNCHANGED <<log, acts, job>>,
           pc \notin {"idle", "write"}, pc' \in {"protectOwn", "check", "drop"}
    PROVE  ExclusionInv'
<1>1. HistoryInv' /\ VisibleInv' /\ OneInProgress' /\ ConvexInv'
  BY LogUnchanged, SharedShrink, ConvexUnchanged DEF ExclusionInv
<1>2. PassInv' /\ ClearedInv'
  BY LogUnchanged DEF ExclusionInv, PassInv, ClearedInv
<1> QED
  BY <1>1, <1>2 DEF ExclusionInv

LEMMA RestoreExclusion ==
    ASSUME TypeOK, TypeOK', ExclusionInv, RestoreWorker, "listError" \notin Acts
    PROVE  ExclusionInv'
<1>1. CASE ProtectHub
  BY <1>1, MoveExclusion DEF ProtectHub, restoreVars
<1>2. CASE Release
  <2>1. UNCHANGED <<log, acts>> /\ pc = "release"
    BY <1>2 DEF Release, restoreVars, Act
  <2>2. pc' = "idle" \/ (pc' = "drop" /\ UNCHANGED job)
    BY <1>2 DEF Release, Return
  <2> QED
    BY <2>1, <2>2, MoveExclusion, StillExclusion
<1> QED
  BY <1>1, <1>2, BeginExclusion, ProtectOwnExclusion, ExpireExclusion, CheckExclusion,
     WorkExclusion, WriteStatusExclusion, DropExclusion DEF RestoreWorker

(* A write of the user that starts no Restore.                             *)
LEMMA UserExclusion ==
    ASSUME TypeOK, TypeOK', ExclusionInv, acts' = acts + 1, UNCHANGED <<pc, job>>,
           NEW r \in RestoreNames, NEW obj \in Restores, Put([rst EXCEPT ![r] = obj], queue),
           Quiet(r, obj)
    PROVE  ExclusionInv'
BY HistoryPut, SharedPut, PassPut DEF ExclusionInv, Quiet

LEMMA EnvironmentExclusion ==
    ASSUME TypeOK, TypeOK', ExclusionInv, Environment
    PROVE  ExclusionInv'
<1> USE DEF restoreVars, schVars, workVars
<1>1. ASSUME NEW r \in RestoreNames, RequeueAfter(r) \/ VeleroStep(r) PROVE ExclusionInv'
  BY <1>1, StillExclusion DEF RequeueAfter, VeleroStep
<1>2. CASE Deliver
  <2>1. UNCHANGED <<acts, pc, job>>
    BY <1>2 DEF Deliver
  <2> QED
    BY <1>2, <2>1, DeliverShape, SharedShrink, PassShrink, ConvexDeliver DEF ExclusionInv
<1>3. CASE ScheduleRequeueAfter \/ SchedulesCollected
  BY <1>3, StillExclusion DEF ScheduleRequeueAfter, SchedulesCollected
<1>4. ASSUME NEW r \in RestoreNames, NEW kind \in Kinds, CreateRestore(r, kind)
      PROVE  ExclusionInv'
  <2> DEFINE obj == [NoRestore EXCEPT !.there = TRUE, !.kind = kind, !.uid = acts']
  <2>1. acts' \in 0..MaxActs /\ acts' = acts + 1 /\ acts \in Nat
    BY <1>4, ActType DEF CreateRestore
  <2>2. /\ obj \in Restores
        /\ obj.there /\ obj.uid = acts + 1 /\ obj.phase = ""
    <3>1. obj \in Restores
      BY <2>1, NoRestoreType, HubAssumption DEF Restores
    <3> QED
      BY <2>1, <3>1 DEF NoRestore
  <2>3. Quiet(r, obj)
    <3> HIDE DEF obj
    <3>1. acts + 1 # 0
      BY <2>1
    <3>2. Succeeds(r, obj)
      BY <2>1, <2>2, <3>1 DEF Succeeds
    <3>3. ~Active(obj)
      BY <2>2 DEF Active
    <3> QED
      BY <3>2, <3>3 DEF Quiet
  <2> QED
    BY <1>4, <2>1, <2>2, <2>3, UserExclusion DEF CreateRestore
<1>5. ASSUME NEW r \in RestoreNames, DeleteRestore(r) PROVE ExclusionInv'
  <2>1. acts' = acts + 1
    BY <1>5, ActType DEF DeleteRestore
  <2>2. Deleted(rst[r]) \in Restores /\ Quiet(r, Deleted(rst[r]))
    BY DeletedQuiet DEF ExclusionInv
  <2> QED
    BY <1>5, <2>1, <2>2, UserExclusion DEF DeleteRestore
<1>6. ASSUME NEW r \in RestoreNames, Activate(r) PROVE ExclusionInv'
  <2> DEFINE obj == [rst[r] EXCEPT !.kind = "activate"]
  <2>1. acts' = acts + 1
    BY <1>6, ActType DEF Activate
  <2>2. rst[r] \in Restores /\ (rst[r].there <=> rst[r].uid # 0)
    BY LogType DEF ExclusionInv, HistoryInv, Objects
  <2>3. /\ obj \in Restores
        /\ obj.there = rst[r].there /\ obj.uid = rst[r].uid /\ obj.phase = rst[r].phase
    BY <2>2 DEF Restores
  <2>4. Quiet(r, obj)
    BY <2>2, <2>3 DEF Quiet, Succeeds, Active
  <2> QED
    BY <1>6, <2>1, <2>3, <2>4, UserExclusion DEF Activate
<1>7. CASE ChangeSchedule
  <2>1. acts' = acts + 1
    BY <1>7, ActType DEF ChangeSchedule
  <2> QED
    BY <1>7, <2>1, StillExclusion DEF ChangeSchedule
<1>8. CASE DeleteHub
  <2>1. acts' = acts + 1
    BY <1>8, ActType DEF DeleteHub
  <2> QED
    BY <1>8, <2>1, StillExclusion DEF DeleteHub
<1>9. CASE OperatorRestart
  <2>1. acts' = acts + 1 /\ log' = <<rst>> /\ pc' = "idle"
    BY <1>9, ActType DEF OperatorRestart
  <2> QED
    BY <2>1, RestartShape, SharedShrink, IdlePass, ConvexRestart DEF ExclusionInv
<1> QED
  BY <1>1, <1>2, <1>3, <1>4, <1>5, <1>6, <1>7, <1>8, <1>9 DEF Environment

LEMMA ScheduleExclusion ==
    ASSUME TypeOK, ExclusionInv, ScheduleWorker
    PROVE  ExclusionInv'
<1>1. UNCHANGED <<log, pc, job>>
  BY DEF ScheduleWorker, ScheduleBegin, ScheduleApply, ScheduleWrite, restoreVars, workVars
<1>2. acts' = acts \/ acts' = acts + 1
  BY DEF ScheduleWorker, ScheduleBegin, ScheduleApply, ScheduleWrite, Act
<1> QED
  BY <1>1, <1>2, StillExclusion

LEMMA ExclusionStep ==
    ASSUME TypeOK, TypeOK', ExclusionInv, [Next]_vars, "listError" \notin Acts
    PROVE  ExclusionInv'
<1>1. CASE UNCHANGED vars
  BY <1>1, StillExclusion DEF vars
<1> QED
  BY <1>1, RestoreExclusion, ScheduleExclusion, EnvironmentExclusion DEF Next

LEMMA ExclusionInit == Init => ExclusionInv
<1> SUFFICES ASSUME Init PROVE ExclusionInv
  OBVIOUS
<1> DEFINE none == [r \in RestoreNames |-> NoRestore]
<1>1. Len(log) = 1 /\ log[1] = none /\ acts = 0 /\ pc = "idle"
  BY DEF Init
<1>2. rst = none /\ Entries = {none}
  BY <1>1 DEF rst, Entries
<1>3. \A r \in RestoreNames : none[r].uid = 0 /\ ~none[r].there
  BY DEF NoRestore
<1>4. HistoryInv
  BY <1>1, <1>2, <1>3 DEF HistoryInv
<1>5. ConvexInv
  BY <1>1, <1>2 DEF ConvexInv
<1>6. VisibleInv /\ OneInProgress
  BY <1>2, <1>3 DEF VisibleInv, OneInProgress, InProgress, Active
<1> QED
  BY <1>1, <1>4, <1>5, <1>6 DEF ExclusionInv, PassInv, ClearedInv

(* As long as the list of Restores does not fail, at most one Restore is   *)
(* under way by its phase, however far behind the list is that a pass      *)
(* looks at, whatever is created, deleted and created again meanwhile, and *)
(* wherever the operator restarts.                                         *)
THEOREM OneRestoreInProgress ==
    ASSUME "listError" \notin Acts
    PROVE  Spec => []OneInProgress
<1>1. Init => TypeOK /\ ExclusionInv
  BY TypeInit, ExclusionInit
<1>2. TypeOK /\ ExclusionInv /\ [Next]_vars => (TypeOK /\ ExclusionInv)'
  BY TypeStep, ExclusionStep
<1>3. ExclusionInv => OneInProgress
  BY DEF ExclusionInv
<1> QED
  BY <1>1, <1>2, <1>3, PTL DEF Spec

-----------------------------------------------------------------------------
(* The finalizer of the InternalHubComponent.  Here the cache is current:  *)
(* a pass that reads an old list may take another Restore for its own.     *)

LEMMA CurrentCache ==
    ASSUME TypeOK, MaxLag = 0
    PROVE  View = rst
<1>1. Len(log) \in 1..1
  BY DEF TypeOK
<1>2. Len(log) = 1
  BY <1>1
<1> QED
  BY <1>2 DEF View, rst

(* What the pass in progress knows of the component and of its Restore:    *)
(* before it gives the Restore its finalizer the component has got its own,*)
(* and before it releases the component its Restore is being deleted.      *)
PassHolds ==
    pc # "idle" =>
        /\ job.obj.there /\ job.base.there /\ job.obj.fin = job.base.fin
        /\ job.obj.deleting = job.base.deleting
        /\ pc = "protectHub" /\ job.component.fin /\ hub.there => hub.fin
        /\ pc = "protectOwn" /\ hub.there => hub.fin
        /\ pc = "release" => rst[job.name].there /\ rst[job.name].deleting

AbsentFree == \A r \in RestoreNames : ~rst[r].there => ~rst[r].fin

HeldInv == PassHolds /\ AbsentFree /\ HubHeld

(* A write that leaves no Restore with a finalizer it did not have, and    *)
(* keeps a deleted one.                                                    *)
Loose(r, obj) ==
    /\ obj.fin /\ ~obj.deleting => rst[r].fin /\ ~rst[r].deleting
    /\ ~obj.there => ~obj.fin

LEMMA LoosePut ==
    ASSUME TypeOK, HeldInv, UNCHANGED hub, NEW r \in RestoreNames, NEW obj \in Restores,
           Put([rst EXCEPT ![r] = obj], queue), Loose(r, obj)
    PROVE  AbsentFree' /\ HubHeld'
<1>1. /\ rst'[r] = obj
      /\ \A q \in RestoreNames \ {r} : rst'[q] = rst[q]
  BY WrittenType
<1> QED
  BY <1>1 DEF Loose, HeldInv, AbsentFree, HubHeld

LEMMA LooseIdle ==
    ASSUME TypeOK, HeldInv, UNCHANGED hub, pc' = "idle",
           NEW r \in RestoreNames, NEW obj \in Restores,
           Put([rst EXCEPT ![r] = obj], queue), Loose(r, obj)
    PROVE  HeldInv'
BY LoosePut DEF HeldInv, PassHolds

(* The user's writes: a Restore that is being deleted stays so.            *)
LEMMA LooseUser ==
    ASSUME TypeOK, HeldInv, UNCHANGED <<hub, pc, job>>,
           NEW r \in RestoreNames, NEW obj \in Restores,
           Put([rst EXCEPT ![r] = obj], queue), Loose(r, obj),
           rst[r].there /\ rst[r].deleting => obj.there /\ obj.deleting
    PROVE  HeldInv'
<1>1. /\ rst'[r] = obj
      /\ \A q \in RestoreNames \ {r} : rst'[q] = rst[q]
      /\ job.name \in RestoreNames
  BY WrittenType DEF TypeOK, Jobs
<1>2. PassHolds'
  BY <1>1 DEF HeldInv, PassHolds
<1> QED
  BY <1>2, LoosePut DEF HeldInv

LEMMA StillHolds ==
    ASSUME HeldInv, rst' = rst, UNCHANGED hub, UNCHANGED <<pc, job>> \/ pc' = "idle"
    PROVE  HeldInv'
BY DEF HeldInv, PassHolds, AbsentFree, HubHeld

LEMMA LooseDeleted ==
    ASSUME TypeOK, HeldInv, NEW r \in RestoreNames
    PROVE  Deleted(rst[r]) \in Restores /\ Loose(r, Deleted(rst[r]))
<1>1. rst[r] \in Restores
  BY LogType DEF Objects
<1>2. CASE rst[r].fin
  <2>1. /\ Deleted(rst[r]).there = rst[r].there
        /\ Deleted(rst[r]).fin = rst[r].fin /\ Deleted(rst[r]).deleting = TRUE
    BY <1>1, <1>2 DEF Deleted, Restores
  <2> QED
    BY <1>1, <2>1, DeletedType DEF Loose, HeldInv, AbsentFree
<1>3. CASE ~rst[r].fin
  <2>1. Deleted(rst[r]) = NoRestore /\ ~NoRestore.fin
    BY <1>3 DEF Deleted, NoRestore
  <2> QED
    BY <2>1, NoRestoreType DEF Loose
<1> QED
  BY <1>2, <1>3

(* When the list shows one Restore, it is the one that is being deleted.   *)
LEMMA LastOne ==
    ASSUME TypeOK, HeldInv, pc = "release", IsLastRestore, MaxLag = 0,
           NEW r \in RestoreNames, r # job.name
    PROVE  ~rst[r].fin
<1>1. Listed = {q \in RestoreNames : rst[q].there} /\ job.name \in RestoreNames
  BY CurrentCache DEF Listed, TypeOK, Jobs
<1>2. job.name \in Listed
  BY <1>1 DEF HeldInv, PassHolds
<1>3. IsFiniteSet(Listed)
  BY <1>1, HubAssumption, FS_Subset
<1>4. \E q : Listed = {q}
  BY <1>3, FS_Singleton DEF IsLastRestore
<1>5. ~rst[r].there
  BY <1>1, <1>2, <1>4
<1> QED
  BY <1>5 DEF HeldInv, AbsentFree

LEMMA RestoreHolds ==
    ASSUME TypeOK, HeldInv, RestoreWorker, MaxLag = 0
    PROVE  HeldInv'
<1>0. job.name \in RestoreNames /\ job.obj \in Restores /\ job.base \in Restores /\ hub \in Hubs
  BY DEF TypeOK, Jobs
<1>1. ASSUME NEW r \in RestoreNames, Begin(r) PROVE HeldInv'
  <2>1. rst' = rst /\ hub' = hub
    BY <1>1, LogUnchanged DEF Begin
  <2>2. \/ pc' = "idle"
        \/ /\ pc' \in {"expire", "protectHub", "check", "release"}
           /\ job' = [name |-> r, obj |-> rst[r], base |-> rst[r], component |-> hub]
           /\ rst[r].there
           /\ pc' = "release" => rst[r].there /\ rst[r].deleting
    BY <1>1, CurrentCache DEF Begin, finalizeRestore, Return
  <2> QED
    BY <2>1, <2>2 DEF HeldInv, PassHolds, AbsentFree, HubHeld
<1>2. CASE ProtectHub
  <2>1. rst' = rst /\ UNCHANGED job /\ pc = "protectHub" /\ pc' \in {"protectOwn", "check"}
    BY <1>2, LogUnchanged DEF ProtectHub, restoreVars
  <2>2. CASE UNCHANGED hub /\ (pc' = "protectOwn" => job.component.fin \/ ~hub.there)
    BY <2>1, <2>2 DEF HeldInv, PassHolds, AbsentFree, HubHeld
  <2>3. CASE hub' = [hub EXCEPT !.fin = TRUE]
    <3>1. hub'.fin = TRUE
      BY <1>0, <2>3 DEF Hubs
    <3> QED
      BY <2>1, <3>1 DEF HeldInv, PassHolds, AbsentFree, HubHeld
  <2> QED
    BY <1>2, <2>2, <2>3 DEF ProtectHub
<1>3. CASE ProtectOwn
  <2> DEFINE protected == [job.obj EXCEPT !.fin = TRUE]
  <2>1. pc = "protectOwn" /\ pc' = "check" /\ UNCHANGED hub
    BY <1>3 DEF ProtectOwn
  <2>2. CASE UNCHANGED <<log, job>>
    BY <2>1, <2>2, LogUnchanged DEF HeldInv, PassHolds, AbsentFree, HubHeld
  <2>3. CASE /\ Put([rst EXCEPT ![job.name] = protected], queue)
             /\ job' = [job EXCEPT !.obj = protected, !.base = protected]
             /\ ~job.obj.fin /\ Current
    <3>1. protected \in Restores /\ protected.there = job.obj.there
      BY <1>0 DEF Restores
    <3>2. job'.obj = protected /\ job'.base = protected
      BY <2>3 DEF TypeOK, Jobs
    <3>3. rst'[job.name] = protected /\ \A q \in RestoreNames \ {job.name} : rst'[q] = rst[q]
      BY <1>0, <2>3, <3>1, WrittenType
    <3>4. hub.there => hub.fin
      BY <2>1 DEF HeldInv, PassHolds
    <3>5. HubHeld'
      BY <2>1, <3>4 DEF HubHeld
    <3>6. protected.there
      BY <2>1, <2>3, <3>1 DEF HeldInv, PassHolds
    <3>7. PassHolds'
      BY <2>1, <3>2, <3>6 DEF PassHolds
    <3>8. AbsentFree'
      BY <3>3, <3>6 DEF HeldInv, AbsentFree
    <3> QED
      BY <3>5, <3>7, <3>8 DEF HeldInv
  <2> QED
    BY <1>3, <2>2, <2>3 DEF ProtectOwn
<1>4. CASE Expire
  <2>1. pc' = "idle" /\ UNCHANGED hub
    BY <1>4 DEF Expire, Return
  <2> QED
    BY <1>0, <1>4, <2>1, LogUnchanged, StillHolds, LooseDeleted, LooseIdle DEF Expire
<1>5. CASE Check
  <2>1. rst' = rst /\ UNCHANGED hub /\ pc = "check" /\ pc' \in {"idle", "work", "write"}
    BY <1>5, LogUnchanged DEF Check, restoreVars, Return
  <2>2. \/ pc' = "idle"
        \/ UNCHANGED job
        \/ \E other : job' = [job EXCEPT !.obj.phase = "FinishedWithErrors", !.obj.blames = other]
    BY <1>5 DEF Check, Return
  <2>3. ASSUME NEW other,
               job' = [job EXCEPT !.obj.phase = "FinishedWithErrors", !.obj.blames = other]
        PROVE  /\ job'.obj.there = job.obj.there /\ job'.obj.fin = job.obj.fin
               /\ job'.obj.deleting = job.obj.deleting /\ job'.base = job.base
    BY <1>0, <2>3, CheckJob DEF TypeOK, Jobs, Restores
  <2> QED
    BY <2>1, <2>2, <2>3 DEF HeldInv, PassHolds, AbsentFree, HubHeld
<1>6. CASE Work
  <2>1. rst' = rst /\ UNCHANGED hub /\ pc = "work" /\ pc' = "write"
    BY <1>6, LogUnchanged DEF Work
  <2>2. PICK named \in BOOLEAN, phase \in {"InProgress", "Enabled"} \cup Terminal :
            job' = [job EXCEPT !.obj = WorkObj(named, phase)]
    BY <1>6, WorkJob
  <2>3. /\ job'.obj.there = job.obj.there /\ job'.obj.fin = job.obj.fin
        /\ job'.obj.deleting = job.obj.deleting /\ job'.base = job.base
    BY <1>0, <2>2 DEF WorkObj, TypeOK, Jobs, Restores
  <2> QED
    BY <2>1, <2>3 DEF HeldInv, PassHolds, AbsentFree, HubHeld
<1>7. CASE WriteStatus
  <2>1. pc = "write" /\ pc' = "idle" /\ UNCHANGED hub
    BY <1>7 DEF WriteStatus, Return
  <2>2. CASE UNCHANGED log
    BY <2>1, <2>2, LogUnchanged, StillHolds
  <2>3. CASE Current /\ Put([rst EXCEPT ![job.name] = job.obj], queue)
    <3>1. Loose(job.name, job.obj)
      BY <1>0, <2>1, <2>3 DEF Loose, Current, HeldInv, PassHolds, AbsentFree
    <3> QED
      BY <1>0, <2>1, <2>3, <3>1, LooseIdle
  <2> QED
    BY <1>7, <2>2, <2>3 DEF WriteStatus
<1>8. CASE Release
  <2>1. rst' = rst /\ pc = "release" /\ (pc' = "idle" \/ (pc' = "drop" /\ UNCHANGED job))
    BY <1>8, LogUnchanged DEF Release, restoreVars, Return
  <2>2. CASE UNCHANGED hub
    BY <2>1, <2>2 DEF HeldInv, PassHolds, AbsentFree, HubHeld
  <2>3. CASE IsLastRestore
    <3>1. \A r \in RestoreNames : rst[r].fin /\ ~rst[r].deleting => FALSE
      BY <1>0, <2>1, <2>3, LastOne DEF HeldInv, PassHolds
    <3> QED
      BY <2>1, <3>1 DEF HeldInv, PassHolds, AbsentFree, HubHeld
  <2> QED
    BY <1>8, <2>2, <2>3 DEF Release
<1>9. CASE Drop
  <2>1. pc' = "idle" /\ UNCHANGED hub
    BY <1>9 DEF Drop, Return
  <2>2. Loose(job.name, NoRestore)
    BY DEF Loose, NoRestore
  <2> QED
    BY <1>0, <1>9, <2>1, <2>2, LogUnchanged, StillHolds, LooseIdle, NoRestoreType DEF Drop
<1> QED
  BY <1>1, <1>2, <1>3, <1>4, <1>5, <1>6, <1>7, <1>8, <1>9 DEF RestoreWorker

LEMMA EnvironmentHolds ==
    ASSUME TypeOK, HeldInv, Environment
    PROVE  HeldInv'
<1> USE DEF restoreVars, schVars, workVars
<1>1. ASSUME NEW r \in RestoreNames, RequeueAfter(r) \/ VeleroStep(r) PROVE HeldInv'
  BY <1>1, LogUnchanged, StillHolds DEF RequeueAfter, VeleroStep
<1>2. CASE Deliver
  BY <1>2, DeliverShape, StillHolds DEF Deliver
<1>3. CASE ScheduleRequeueAfter \/ SchedulesCollected \/ ChangeSchedule
  BY <1>3, LogUnchanged, StillHolds DEF ScheduleRequeueAfter, SchedulesCollected, ChangeSchedule
<1>4. ASSUME NEW r \in RestoreNames, NEW kind \in Kinds, CreateRestore(r, kind)
      PROVE  HeldInv'
  <2> DEFINE obj == [NoRestore EXCEPT !.there = TRUE, !.kind = kind, !.uid = acts']
  <2>1. acts' \in 0..MaxActs
    BY <1>4, ActType DEF CreateRestore
  <2>2. obj \in Restores
    BY <2>1, NoRestoreType, HubAssumption DEF Restores
  <2>3. Loose(r, obj) /\ ~rst[r].there
    BY <1>4 DEF Loose, NoRestore, CreateRestore
  <2> QED
    BY <1>4, <2>2, <2>3, LooseUser DEF CreateRestore
<1>5. ASSUME NEW r \in RestoreNames, DeleteRestore(r) PROVE HeldInv'
  BY <1>5, LooseDeleted, LooseUser DEF DeleteRestore
<1>6. ASSUME NEW r \in RestoreNames, Activate(r) PROVE HeldInv'
  <2> DEFINE obj == [rst[r] EXCEPT !.kind = "activate"]
  <2>1. rst[r] \in Restores
    BY LogType DEF Objects
  <2>2. /\ obj \in Restores /\ obj.there = rst[r].there
        /\ obj.fin = rst[r].fin /\ obj.deleting = rst[r].deleting
    BY <2>1 DEF Restores
  <2>3. Loose(r, obj)
    BY <2>2 DEF Loose, HeldInv, AbsentFree
  <2> QED
    BY <1>6, <2>2, <2>3, LooseUser DEF Activate
<1>7. CASE DeleteHub
  <2>1. rst' = rst /\ UNCHANGED <<pc, job>>
    BY <1>7, LogUnchanged DEF DeleteHub
  <2>2. hub'.there => hub.there /\ hub'.fin = hub.fin
    BY <1>7 DEF DeleteHub, DeletedHub, NoHub, TypeOK, Hubs
  <2> QED
    BY <2>1, <2>2 DEF HeldInv, PassHolds, AbsentFree, HubHeld
<1>8. CASE OperatorRestart
  BY <1>8, RestartShape, StillHolds DEF OperatorRestart
<1> QED
  BY <1>1, <1>2, <1>3, <1>4, <1>5, <1>6, <1>7, <1>8 DEF Environment

LEMMA HeldStep ==
    ASSUME TypeOK, HeldInv, [Next]_vars, MaxLag = 0
    PROVE  HeldInv'
<1>1. CASE ScheduleWorker
  BY <1>1, LogUnchanged, StillHolds
    DEF ScheduleWorker, ScheduleBegin, ScheduleApply, ScheduleWrite, restoreVars, workVars
<1>2. CASE UNCHANGED vars
  BY <1>2, LogUnchanged, StillHolds DEF vars
<1> QED
  BY <1>1, <1>2, RestoreHolds, EnvironmentHolds DEF Next

LEMMA HeldInit == Init => HeldInv
<1> SUFFICES ASSUME Init PROVE HeldInv
  OBVIOUS
<1>1. rst = [r \in RestoreNames |-> NoRestore] /\ pc = "idle"
  BY DEF Init, rst
<1>2. \A r \in RestoreNames : ~rst[r].fin
  BY <1>1 DEF NoRestore
<1> QED
  BY <1>1, <1>2 DEF HeldInv, PassHolds, AbsentFree, HubHeld

(* With a cache that shows what was written, the InternalHubComponent      *)
(* keeps its finalizer as long as a Restore that is not being deleted has  *)
(* one, whatever the order in which the two are given, taken and deleted,  *)
(* and wherever the operator restarts.                                     *)
THEOREM HubIsHeld ==
    ASSUME MaxLag = 0
    PROVE  Spec => []HubHeld
<1>1. Init => TypeOK /\ HeldInv
  BY TypeInit, HeldInit
<1>2. TypeOK /\ HeldInv /\ [Next]_vars => (TypeOK /\ HeldInv)'
  BY TypeStep, HeldStep
<1>3. HeldInv => HubHeld
  BY DEF HeldInv
<1> QED
  BY <1>1, <1>2, <1>3, PTL DEF Spec

=============================================================================
