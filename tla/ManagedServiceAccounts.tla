----------------------- MODULE ManagedServiceAccounts ------------------------
(***************************************************************************)
(* The tokens with which a restored hub imports its managed clusters.      *)
(* Each pass of the BackupSchedule controller (prepareForBackup) gives     *)
(* every imported cluster a ManagedServiceAccount, a second one - the      *)
(* pair - half a validity later, and labels and annotates the secrets the  *)
(* service-account controller makes of them, or removes all of it.         *)
(*                                                                         *)
(* The unit of time is collisionControlInterval, 5 minutes, after which a  *)
(* pass is due again.  Times are kept as ages, so the model needs no       *)
(* horizon: it checks every moment of an endless rotation.                 *)
(***************************************************************************)
EXTENDS Naturals, FiniteSets

CONSTANTS
    Clusters,     \* the managed clusters, without the local one
    Hive,         \* those of them that Hive created
    Validities,   \* values the schedule gives tokenValidity
    Window,       \* 15 minutes, in which the pair is generated
    MaxGap,       \* bound on the time between two completed passes
    Slack,        \* by how much a token may be older than half its validity
    Acts, MaxActs,     \* what the user changes, and how often
    Faults, MaxFaults  \* calls that fail, and how often

Names == {"initial", "pair"}

ASSUME MSAAssumption ==
    /\ Hive \subseteq Clusters
    /\ Validities \subseteq Nat
    /\ \E v \in Validities : \A w \in Validities : w <= v
    /\ \A v \in Validities : v > 2 * Window
    /\ {Window, MaxGap, Slack, MaxActs, MaxFaults} \subseteq Nat
    /\ Acts \subseteq {"validity", "useMSA", "component", "crd"}
    /\ Faults \subseteq {"component", "addons", "create", "update", "cleanup", "crash"}

VARIABLES
    spec,     \* what the BackupSchedule asks for: useMSA, tokenValidity
    component,\* the ClusterManagementAddOn exists
    crd,      \* the ManagedServiceAccount CRD exists
    addon,    \* clusters with a ManagedClusterAddOn made by the operator
    works,    \* <<cluster, name>> with a ManifestWork
    msa,      \* the ManagedServiceAccounts
    secret,   \* their secrets
    todo,     \* clusters the pass in progress has not prepared
    pc,       \* what it does
    gap,      \* time since the last completed pass
    edited,   \* tokenValidity was edited
    disabled, \* the component is or was switched off
    acts, faults

hubVars == <<addon, works, msa, secret>>
userVars == <<spec, component, crd, edited, disabled, acts>>
vars == <<addon, works, msa, secret, todo, pc, gap, faults, spec, component, crd, edited, disabled, acts>>

Max == CHOOSE v \in Validities : \A w \in Validities : w <= v

(* When a token, or a record of one, was issued and how long it is valid.  *)
Tokens == [age: 0..Max, total: Validities \cup {0}]

NoToken == [age |-> 0, total |-> 0]

Known(t) == t.total # 0

Left(t) == t.total - t.age

Older(t) == IF t.age < t.total THEN [t EXCEPT !.age = @ + 1] ELSE t

(* issued, status: what the service-account controller did and reported;   *)
(* token: the data of the secret; note: its two timestamp annotations;     *)
(* label: the backup label.                                                *)
Accounts ==
    [there: BOOLEAN, validity: Validities \cup {0}, issued: BOOLEAN, status: Tokens]

NoAccount == [there |-> FALSE, validity |-> 0, issued |-> FALSE, status |-> NoToken]

Secrets == [there: BOOLEAN, token: Tokens, note: Tokens, label: BOOLEAN]

NoSecret == [there |-> FALSE, token |-> NoToken, note |-> NoToken, label |-> FALSE]

Keys == Clusters \X Names

Fail(kind) == kind \in Faults /\ faults < MaxFaults /\ faults' = faults + 1

Wanted == spec.useMSA /\ component /\ crd

EndPass(ok) == pc' = "idle" /\ todo' = {} /\ gap' = IF ok THEN 0 ELSE gap

-----------------------------------------------------------------------------
(* A pass.                                                                 *)

(* A pass refuses accounts that it is asked for and cannot have            *)
(* (verifyMSAOption), or prepares them, or cleans them up if it is not     *)
(* asked (processMSAResources; without the CRD there is nothing to do).    *)
(* An error of isMSAComponentEnabled ends the pass.                        *)
StartPass ==
    /\ pc = "idle"
    /\ \/ /\ Fail("component") /\ crd
          /\ EndPass(FALSE)
       \/ /\ pc' = CASE Wanted -> "prepare"
                    [] spec.useMSA /\ ~Wanted -> "refused"
                    [] OTHER -> IF crd THEN "cleanup" ELSE "done"
          /\ todo' = IF Wanted THEN Clusters \ Hive ELSE {}
          /\ UNCHANGED <<gap, faults>>
    /\ UNCHANGED <<hubVars, userVars>>

(* The pair is generated when a token of the cluster is past half its      *)
(* validity, by no more than 15 minutes.  A definition whose name ends in  *)
(* _Mutant is a plausible wrong version of the one after it; it is used    *)
(* only to show that a property would notice the mistake.                  *)
shouldGeneratePairToken_Mutant(c) ==
    \E n \in Names :
        LET t == secret[<<c, n>>].note
        IN  /\ secret[<<c, n>>].there /\ Known(t)
            /\ t.total < t.age /\ t.age - t.total <= Window

shouldGeneratePairToken(c) ==
    \E n \in Names :
        LET t == secret[<<c, n>>].note
        IN  /\ secret[<<c, n>>].there /\ Known(t)
            /\ t.total \div 2 < t.age /\ t.age - t.total \div 2 <= Window

(* Which accounts createMSA makes for a cluster that has not got them.     *)
Generated(c) ==
    {n \in Names : crd /\ ~msa[<<c, n>>].there /\ (n = "pair" => shouldGeneratePairToken(c))}

(* createMSA for both names, and the ManagedClusterAddOn.  None of its     *)
(* errors ends the pass, so each of its writes happens or not: in failed   *)
(* are the ones that do not.  The secret an account would adopt is deleted *)
(* first.                                                                  *)
createMSA_Mutant(c, failed) ==
    LET made == Generated(c) \ {n \in Names : <<"msa", n>> \in failed}
    IN  msa' = [k \in Keys |->
           CASE k[1] = c /\ k[2] \in made ->
                  [there |-> TRUE, validity |-> spec.tokenValidity,
                   issued |-> FALSE, status |-> NoToken]
             [] OTHER -> msa[k]]

createMSA_Doubled(c, failed) ==
    LET made == Generated(c) \ {n \in Names : <<"msa", n>> \in failed}
    IN  msa' = [k \in Keys |->
           IF k[1] = c /\ k[2] \in made
           THEN [there |-> TRUE, validity |-> 2 * spec.tokenValidity,
                 issued |-> FALSE, status |-> NoToken]
           ELSE msa[k]]

createMSA(c, failed) ==
    LET made == Generated(c) \ {n \in Names : <<"msa", n>> \in failed}
    IN  msa' = [k \in Keys |->
           CASE k[1] = c /\ k[2] \in made ->
                  [there |-> TRUE, validity |-> spec.tokenValidity,
                   issued |-> FALSE, status |-> NoToken]
             [] k[1] = c /\ msa[k].there /\ <<"msa", k[2]>> \notin failed ->
                  [msa[k] EXCEPT !.validity = spec.tokenValidity]
             [] OTHER -> msa[k]]

Calls == {"addon", "msa", "work", "secret"} \X Names

Prepare(c) ==
    /\ pc = "prepare" /\ c \in todo
    /\ \/ /\ Fail("addons")
          /\ EndPass(FALSE)
          /\ UNCHANGED hubVars
       \/ /\ \E failed \in SUBSET Calls :
               /\ \/ failed = {} /\ UNCHANGED faults
                  \/ Cardinality(failed) = 1 /\ Fail("create")
               /\ addon' = IF <<"addon", "initial">> \in failed THEN addon ELSE addon \cup {c}
               /\ works' = works \cup
                    {<<c, n>> : n \in {m \in Generated(c) \cup {"initial"} : <<"work", m>> \notin failed}}
               /\ secret' = [k \in Keys |->
                    IF k[1] = c /\ k[2] \in Generated(c) /\ <<"secret", k[2]>> \notin failed
                    THEN NoSecret ELSE secret[k]]
               /\ createMSA(c, failed)
          /\ todo' = todo \ {c}
          /\ UNCHANGED <<pc, gap>>
    /\ UNCHANGED userVars

(* updateMSASecretTimestamp: the annotations repeat what the status of the *)
(* account of the same name says.                                          *)
updateMSASecretTimestamp_Validity(k) ==
    IF msa[k].there /\ Known(msa[k].status)
    THEN [msa[k].status EXCEPT !.total = msa[k].validity] ELSE secret[k].note

updateMSASecretTimestamp(k) ==
    IF msa[k].there /\ Known(msa[k].status) THEN msa[k].status ELSE secret[k].note

(* updateMSAResources; a secret whose update fails waits for the next pass.*)
Annotate ==
    /\ pc = "prepare" /\ todo = {}
    /\ \E failed \in SUBSET {k \in Keys : secret[k].there} :
         /\ \/ failed = {} /\ UNCHANGED faults
            \/ Cardinality(failed) = 1 /\ Fail("update")
         /\ secret' = [k \in Keys |->
              IF secret[k].there /\ k \notin failed
              THEN [secret[k] EXCEPT !.note = updateMSASecretTimestamp(k), !.label = TRUE]
              ELSE secret[k]]
    /\ EndPass(TRUE)
    /\ UNCHANGED <<addon, works, msa, userVars>>

(* What is left of the objects of a stage when the call of stage stop      *)
(* fails: none before it, some or all of its own, all after it.            *)
Rest(stage, stop, objects) ==
    IF stage < stop THEN {{}} ELSE IF stage = stop THEN SUBSET objects ELSE {objects}

MSAs == {k \in Keys : msa[k].there}
MSASecrets == {k \in Keys : secret[k].there}

(* cleanupMSAForImportedClusters: 1 accounts, 2 add-ons, 3 manifest works, *)
(* 4 secrets.  In kept are the accounts it does not delete.                *)
cleanupMSAForImportedClusters_Mutant(stop, kept) ==
    /\ msa' = [k \in Keys |-> IF k \in kept THEN msa[k] ELSE NoAccount]
    /\ addon' \in Rest(2, stop, addon)
    /\ works' \in Rest(3, stop, works)
    /\ UNCHANGED secret

cleanupMSAForImportedClusters(stop, kept) ==
    /\ msa' = [k \in Keys |-> IF k \in kept THEN msa[k] ELSE NoAccount]
    /\ addon' \in Rest(2, stop, addon)
    /\ works' \in Rest(3, stop, works)
    /\ \E left \in Rest(4, stop, MSASecrets) :
         secret' = [k \in Keys |-> IF k \in left THEN secret[k] ELSE NoSecret]

(* verifyMSAOption passes no mapping, so that the clean-up leaves all      *)
(* accounts; its errors are only logged, and the pass ends.                *)
verifyMSAOption ==
    /\ pc = "refused"
    /\ \/ cleanupMSAForImportedClusters(5, MSAs) /\ UNCHANGED faults
       \/ Fail("cleanup") /\ \E stop \in 2..4 : cleanupMSAForImportedClusters(stop, MSAs)
    /\ EndPass(TRUE)
    /\ UNCHANGED userVars

(* A failing list of accounts or works, or a failing deletion, is an error *)
(* that repeats the pass; a failing list of add-ons or secrets ends it as  *)
(* if it were done, and a failing deletion of an account goes unnoticed.   *)
CleanupPass ==
    /\ pc = "cleanup"
    /\ \/ /\ cleanupMSAForImportedClusters(5, {})
          /\ EndPass(TRUE) /\ UNCHANGED faults
       \/ /\ Fail("cleanup")
          /\ \/ cleanupMSAForImportedClusters(1, MSAs) /\ EndPass(FALSE)
             \/ \E k \in MSAs : cleanupMSAForImportedClusters(5, {k}) /\ EndPass(TRUE)
             \/ \E stop \in 2..4 :
                  /\ cleanupMSAForImportedClusters(stop, {})
                  /\ \E ok \in BOOLEAN : (ok => stop # 3) /\ EndPass(ok)
    /\ UNCHANGED userVars

NothingToDo ==
    /\ pc = "done"
    /\ EndPass(TRUE)
    /\ UNCHANGED <<hubVars, userVars, faults>>

(* The operator restarts in the middle of a pass.                          *)
Crash ==
    /\ pc # "idle"
    /\ Fail("crash")
    /\ EndPass(FALSE)
    /\ UNCHANGED <<hubVars, userVars>>

-----------------------------------------------------------------------------
(* External: the service-account controller and the clock.                 *)

(* While the component is enabled a token is issued for an account that    *)
(* has none, and again when a fifth of its validity is left; the status of *)
(* the account follows.                                                    *)
Due(k) ==
    /\ component /\ msa[k].there
    /\ \/ ~msa[k].issued \/ ~secret[k].there
       \/ Left(secret[k].token) * 5 <= secret[k].token.total

Issue(k) ==
    /\ Due(k)
    /\ secret' = [secret EXCEPT
         ![k].there = TRUE, ![k].token = [age |-> 0, total |-> msa[k].validity]]
    /\ msa' = [msa EXCEPT ![k].issued = TRUE]
    /\ UNCHANGED <<addon, works, todo, pc, gap, faults, userVars>>

Unreported(k) ==
    /\ component /\ msa[k].there /\ msa[k].issued
    /\ secret[k].there /\ msa[k].status # secret[k].token

Report(k) ==
    /\ Unreported(k)
    /\ msa' = [msa EXCEPT ![k].status = secret[k].token]
    /\ UNCHANGED <<addon, works, secret, todo, pc, gap, faults, userVars>>

(* The secret of a deleted account goes, if its cluster can be reached.    *)
Collect(k) ==
    /\ secret[k].there /\ ~msa[k].there
    /\ secret' = [secret EXCEPT ![k] = NoSecret]
    /\ UNCHANGED <<addon, works, msa, todo, pc, gap, faults, userVars>>

(* Passes are short and come in time, and so does the service-account      *)
(* controller: neither spans a unit of time.                               *)
Tick ==
    /\ pc = "idle" /\ gap < MaxGap
    /\ \A k \in Keys : ~Due(k) /\ ~Unreported(k)
    /\ msa' = [k \in Keys |-> [msa[k] EXCEPT !.status = Older(@)]]
    /\ secret' = [k \in Keys |-> [secret[k] EXCEPT !.token = Older(@), !.note = Older(@)]]
    /\ gap' = gap + 1
    /\ UNCHANGED <<addon, works, todo, pc, faults, userVars>>

-----------------------------------------------------------------------------
(* The user edits the BackupSchedule or the MultiClusterEngine.            *)

Act(kind) == kind \in Acts /\ acts < MaxActs /\ acts' = acts + 1

Edit ==
    /\ \/ /\ Act("validity")
          /\ \E v \in Validities \ {spec.tokenValidity} : spec' = [spec EXCEPT !.tokenValidity = v]
          /\ edited' = TRUE
          /\ UNCHANGED <<component, crd, msa, disabled>>
       \/ /\ Act("useMSA")
          /\ spec' = [spec EXCEPT !.useMSA = ~@]
          /\ UNCHANGED <<component, crd, msa, edited, disabled>>
       \/ /\ Act("component")
          /\ component' = ~component /\ disabled' = TRUE
          /\ UNCHANGED <<spec, crd, msa, edited>>
       \/ /\ Act("crd") /\ crd
          /\ crd' = FALSE /\ msa' = [k \in Keys |-> NoAccount]
          /\ UNCHANGED <<spec, component, edited, disabled>>
    /\ UNCHANGED <<addon, works, secret, todo, pc, gap, faults>>

(* The component, with its CRD, may be missing from the start.             *)
Init ==
    /\ spec \in [useMSA: {TRUE}, tokenValidity: Validities]
    /\ crd \in BOOLEAN /\ component = crd
    /\ addon = {} /\ works = {}
    /\ msa = [k \in Keys |-> NoAccount] /\ secret = [k \in Keys |-> NoSecret]
    /\ todo = {} /\ pc = "idle" /\ gap = 0
    /\ edited = FALSE /\ disabled = ~component /\ acts = 0 /\ faults = 0

Pass ==
    \/ StartPass
    \/ \E c \in Clusters : Prepare(c)
    \/ Annotate
    \/ verifyMSAOption
    \/ CleanupPass
    \/ NothingToDo

Next ==
    \/ Pass \/ Crash \/ Tick \/ Edit
    \/ \E k \in Keys : Issue(k) \/ Report(k) \/ Collect(k)

Spec == Init /\ [][Next]_vars

(* A pass follows the one before it, if only after the interval.           *)
FairSpec == Spec /\ WF_vars(Pass)

-----------------------------------------------------------------------------
(* Properties.                                                             *)

TypeOK ==
    /\ spec \in [useMSA: BOOLEAN, tokenValidity: Validities]
    /\ component \in BOOLEAN /\ crd \in BOOLEAN
    /\ addon \subseteq Clusters /\ works \subseteq Keys
    /\ msa \in [Keys -> Accounts] /\ secret \in [Keys -> Secrets]
    /\ todo \subseteq Clusters /\ pc \in {"idle", "prepare", "refused", "cleanup", "done"}
    /\ gap \in 0..MaxGap /\ edited \in BOOLEAN /\ disabled \in BOOLEAN
    /\ acts \in 0..MaxActs /\ faults \in 0..MaxFaults

(* The annotations of a secret never promise a longer life than its token  *)
(* has: a restore that trusts them does not end up with an expired token.  *)
AnnotationSound ==
    \A k \in Keys : Known(secret[k].note) => Left(secret[k].note) <= Left(secret[k].token)

Backed(c) == {n \in Names : secret[<<c, n>>].there /\ secret[<<c, n>>].label}

(* selectValidMSASecret on the hub where a backup taken now is restored a  *)
(* time d later.  The secrets are created there in any order.              *)
selectValidMSASecret(c, d) ==
    LET unexpired == {n \in Backed(c) : Left(secret[<<c, n>>].note) > d}
    IN  IF Cardinality(Backed(c)) > 1 /\ unexpired # {} THEN unexpired ELSE Backed(c)

(* Every secret of the cluster belongs to an account that is at work.      *)
Steady(c) == \A n \in Names : secret[<<c, n>>].there => msa[<<c, n>>].there /\ msa[<<c, n>>].issued

Aged(c) == \E n \in Names : secret[<<c, n>>].there /\ secret[<<c, n>>].token.age >= Slack

(* Once a token of a cluster is as old as Slack, a backup taken at any     *)
(* moment holds a token with which the cluster can be imported during the  *)
(* life of the backup, half the validity of a token, but for Slack at its  *)
(* end - and restore picks that one.  (Editing the validity, or disabling  *)
(* and enabling the component, which leaves both accounts, can bring the   *)
(* two tokens into phase, for ever.)                                       *)
RestoreFindsToken ==
    \A c \in Clusters : Steady(c) /\ ~edited /\ ~disabled =>
        /\ Aged(c) => Backed(c) # {}
        /\ \A d \in 0..(spec.tokenValidity \div 2 - Slack) :
             \A n \in selectValidMSASecret(c, d) : Left(secret[<<c, n>>].token) > d

(* What is made for the accounts goes, and so do they if nobody asks for   *)
(* them.                                                                   *)
Gone == addon = {} /\ works = {} /\ MSASecrets = {} /\ (spec.useMSA \/ MSAs = {})

(* When ManagedServiceAccounts cannot be had, or are not wanted any more,  *)
(* add-ons, works and tokens go, whatever fails on the way; the accounts   *)
(* go only when the schedule stops asking for them.                        *)
DisabledCleansUp == ~Wanted ~> Gone \/ Wanted \/ (~crd /\ ~spec.useMSA)

(* The accounts, too, go when the component is disabled, as the comment in *)
(* processMSAResources has it.                                             *)
DisabledRemovesAccounts == crd /\ ~Wanted ~> MSAs = {} \/ Wanted \/ ~crd

(* An edited validity reaches every account, although a patch that fails   *)
(* is only logged.                                                         *)
ValidityApplied ==
    \A v \in Validities :
        spec.tokenValidity = v ~>
            \/ \A k \in MSAs : msa[k].validity = v
            \/ spec.tokenValidity # v \/ ~Wanted

=============================================================================
