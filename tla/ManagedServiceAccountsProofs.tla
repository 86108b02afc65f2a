--------------------- MODULE ManagedServiceAccountsProofs ---------------------
(***************************************************************************)
(* Theorems about ManagedServiceAccounts: any clusters, validities, length *)
(* of the pair's window, edits and failing calls.                          *)
(***************************************************************************)
EXTENDS ManagedServiceAccounts, Integers, TLAPS

-----------------------------------------------------------------------------
(* The inductive invariants.                                               *)

(* Neither the annotations of a secret nor the status they are copied from *)
(* promise more than the token has.                                        *)
PromiseInv ==
    \A k \in Keys :
        /\ Known(secret[k].note) => Left(secret[k].note) <= Left(secret[k].token)
        /\ msa[k].there /\ Known(msa[k].status) /\ secret[k].there =>
             Left(msa[k].status) <= Left(secret[k].token)

(* The account of a cluster has a validity.                                *)
ValidityInv == \A k \in Keys : msa[k].there => msa[k].validity # 0

(* Until the validity is edited every account, token and record has it.    *)
UneditedAt(m, s, v) ==
    /\ m.there => m.validity = v
    /\ {m.status.total, s.note.total, s.token.total} \subseteq {0, v}

UneditedInv == \A k \in Keys : UneditedAt(msa[k], secret[k], spec.tokenValidity)

(* Without failing clean-ups no secret outlives its account while there    *)
(* are accounts at all, and an account has its secret once it is issued.   *)
PairedAt(m, s) ==
    /\ ~s.there => ~Known(s.note)
    /\ m.there /\ ~m.issued => ~s.there /\ m.status = NoToken
    /\ m.there /\ m.issued => s.there

PairedInv ==
    \A k \in Keys :
        /\ PairedAt(msa[k], secret[k])
        /\ crd /\ secret[k].there => msa[k].there

(* Until the component is switched off a pass refuses accounts only when   *)
(* there are none.                                                         *)
EnabledInv ==
    /\ ~disabled => component
    /\ pc = "refused" => disabled \/ ~crd
    /\ ~crd => \A k \in Keys : ~msa[k].there

-----------------------------------------------------------------------------
(* Tokens and the passing of time.                                         *)

LEMMA MaxType == Max \in Validities /\ Max \in Nat /\ \A v \in Validities : v \in Nat /\ v <= Max
<1>1. \E v \in Validities : \A w \in Validities : w <= v
  BY MSAAssumption
<1>2. Max \in Validities /\ \A w \in Validities : w <= Max
  BY <1>1 DEF Max
<1> QED
  BY <1>2, MSAAssumption

LEMMA ValidityNat == \A v \in Validities \cup {0} : v \in Nat
<1> SUFFICES ASSUME NEW v \in Validities \cup {0} PROVE v \in Nat
  OBVIOUS
<1>1. CASE v = 0
  BY <1>1
<1>2. CASE v \in Validities
  BY <1>2, MSAAssumption
<1> QED
  BY <1>1, <1>2

LEMMA TokenParts ==
    ASSUME NEW t \in Tokens
    PROVE  /\ t.age \in Nat /\ t.age <= Max
           /\ t.total \in Validities \cup {0} /\ t.total \in Nat /\ t.total <= Max
           /\ Left(t) \in Int /\ Left(t) = t.total - t.age /\ Left(t) <= t.total
<1>1. t.age \in 0..Max /\ t.total \in Validities \cup {0}
  BY DEF Tokens
<1>2. t.total \in Nat /\ t.total <= Max
  <2>1. CASE t.total \in Validities
    BY <2>1, MaxType
  <2>2. CASE t.total = 0
    BY <2>2, MaxType
  <2> QED
    BY <1>1, <2>1, <2>2
<1>3. t.age \in Nat /\ t.age <= Max
  BY <1>1, MaxType
<1>4. Left(t) = t.total - t.age
  BY DEF Left
<1> QED
  BY <1>1, <1>2, <1>3, <1>4

(* Two tokens keep their order while they age.                             *)
LEMMA OlderKeepsOrder ==
    ASSUME NEW s \in Tokens, NEW t \in Tokens, Left(s) <= Left(t)
    PROVE  Left(Older(s)) <= Left(Older(t))
<1>1. ASSUME NEW u \in Tokens
      PROVE  Left(Older(u)) = IF Left(u) > 0 THEN Left(u) - 1 ELSE Left(u)
  <2>1. CASE u.age < u.total
    <3>1. Older(u).age = u.age + 1 /\ Older(u).total = u.total
      BY <2>1 DEF Older, Tokens
    <3> QED
      BY <2>1, <3>1, TokenParts DEF Left
  <2>2. CASE ~(u.age < u.total)
    <3>1. Older(u) = u
      BY <2>2 DEF Older
    <3> QED
      BY <2>2, <3>1, TokenParts
  <2> QED
    BY <2>1, <2>2
<1>2. Left(s) \in Int /\ Left(t) \in Int
  BY TokenParts
<1> QED
  BY <1>1, <1>2

LEMMA OlderType ==
    ASSUME NEW t \in Tokens
    PROVE  Older(t) \in Tokens /\ Older(t).total = t.total
<1>1. CASE t.age < t.total
  <2>1. t.age + 1 \in 0..Max
    BY <1>1, TokenParts, MaxType
  <2>2. Older(t) = [t EXCEPT !.age = t.age + 1]
    BY <1>1 DEF Older
  <2> QED
    BY <2>1, <2>2 DEF Tokens
<1>2. CASE ~(t.age < t.total)
  BY <1>2 DEF Older
<1> QED
  BY <1>1, <1>2

Fresh == [there |-> TRUE, validity |-> spec.tokenValidity, issued |-> FALSE, status |-> NoToken]

LEMMA NothingType ==
    /\ NoToken \in Tokens /\ NoAccount \in Accounts /\ NoSecret \in Secrets
    /\ \A v \in Validities \cup {0} : [age |-> 0, total |-> v] \in Tokens
<1>1. 0 \in 0..Max
  BY MaxType
<1>2. NoToken \in Tokens /\ \A v \in Validities \cup {0} : [age |-> 0, total |-> v] \in Tokens
  BY <1>1 DEF Tokens, NoToken
<1> QED
  BY <1>2 DEF NoAccount, NoSecret, Accounts, Secrets

-----------------------------------------------------------------------------
(* What the actions do to an account and to its secret.                    *)

LEMMA FailBound ==
    ASSUME faults \in 0..MaxFaults, NEW x, Fail(x)
    PROVE  faults' \in 0..MaxFaults
<1>1. faults < MaxFaults /\ faults' = faults + 1 /\ MaxFaults \in Nat
  BY MSAAssumption DEF Fail
<1> QED
  BY <1>1

LEMMA ActBound ==
    ASSUME acts \in 0..MaxActs, NEW x, Act(x)
    PROVE  acts' \in 0..MaxActs
<1>1. acts < MaxActs /\ acts' = acts + 1 /\ MaxActs \in Nat
  BY MSAAssumption DEF Act
<1> QED
  BY <1>1

LEMMA EndPassType ==
    ASSUME gap \in 0..MaxGap, NEW ok, EndPass(ok)
    PROVE  pc' = "idle" /\ todo' = {} /\ gap' \in 0..MaxGap
<1>1. 0 \in 0..MaxGap
  BY MSAAssumption
<1> QED
  BY <1>1 DEF EndPass

(* createMSA makes accounts that are not there, having deleted what secret *)
(* they would adopt, and gives those that are there the validity.          *)
LEMMA PrepareShape ==
    ASSUME NEW c \in Clusters, Prepare(c), msa \in [Keys -> Accounts], secret \in [Keys -> Secrets]
    PROVE  /\ DOMAIN msa' = Keys /\ msa' = [k \in Keys |-> msa'[k]]
           /\ DOMAIN secret' = Keys /\ secret' = [k \in Keys |-> secret'[k]]
           /\ \A k \in Keys :
                /\ \/ secret'[k] = secret[k]
                   \/ secret'[k] = NoSecret /\ ~msa[k].there
                /\ \/ msa'[k] = msa[k]
                   \/ msa[k].there /\ msa'[k] = [msa[k] EXCEPT !.validity = spec.tokenValidity]
                   \/ crd /\ ~msa[k].there /\ msa'[k] = Fresh
<1>1. CASE UNCHANGED hubVars
  BY <1>1 DEF hubVars
<1>2. ASSUME NEW failed,
             secret' = [k \in Keys |->
                IF k[1] = c /\ k[2] \in Generated(c) /\ <<"secret", k[2]>> \notin failed
                THEN NoSecret ELSE secret[k]],
             createMSA(c, failed)
      PROVE  /\ DOMAIN msa' = Keys /\ msa' = [k \in Keys |-> msa'[k]]
             /\ DOMAIN secret' = Keys /\ secret' = [k \in Keys |-> secret'[k]]
             /\ \A k \in Keys :
                  /\ \/ secret'[k] = secret[k]
                     \/ secret'[k] = NoSecret /\ ~msa[k].there
                  /\ \/ msa'[k] = msa[k]
                     \/ msa[k].there /\ msa'[k] = [msa[k] EXCEPT !.validity = spec.tokenValidity]
                     \/ crd /\ ~msa[k].there /\ msa'[k] = Fresh
  <2> DEFINE made == Generated(c) \ {n \in Names : <<"msa", n>> \in failed}
             new(k) == CASE k[1] = c /\ k[2] \in made -> Fresh
                         [] k[1] = c /\ msa[k].there /\ <<"msa", k[2]>> \notin failed ->
                              [msa[k] EXCEPT !.validity = spec.tokenValidity]
                         [] OTHER -> msa[k]
  <2>1. msa' = [k \in Keys |-> new(k)]
    BY <1>2 DEF createMSA, Fresh
  <2>2. ASSUME NEW k \in Keys, k[1] = c, k[2] \in Generated(c) PROVE crd /\ ~msa[k].there
    <3>1. k = <<c, k[2]>>
      BY <2>2 DEF Keys
    <3>2. crd /\ ~msa[<<c, k[2]>>].there
      BY <2>2 DEF Generated
    <3> QED
      BY <3>1, <3>2
  <2>3. \A k \in Keys : secret'[k] = secret[k] \/ (secret'[k] = NoSecret /\ ~msa[k].there)
    BY <1>2, <2>2
  <2>4. ASSUME NEW k \in Keys
        PROVE  \/ new(k) = msa[k]
               \/ msa[k].there /\ new(k) = [msa[k] EXCEPT !.validity = spec.tokenValidity]
               \/ crd /\ ~msa[k].there /\ new(k) = Fresh
    <3>1. k[1] = c /\ k[2] \in made => crd /\ ~msa[k].there
      BY <2>2
    <3> QED
      BY <3>1
  <2> HIDE DEF new
  <2>5. \A k \in Keys : msa'[k] = new(k)
    BY <2>1
  <2> QED
    BY <1>2, <2>1, <2>3, <2>4, <2>5
<1> QED
  BY <1>1, <1>2 DEF Prepare

(* Clean-up removes or leaves; it removes all if no call fails, but for    *)
(* the accounts when verifyMSAOption calls it.                             *)
Cleaning == CleanupPass \/ verifyMSAOption

LEMMA CleanupShape ==
    ASSUME Cleaning, msa \in [Keys -> Accounts], secret \in [Keys -> Secrets]
    PROVE  /\ DOMAIN msa' = Keys /\ msa' = [k \in Keys |-> msa'[k]]
           /\ DOMAIN secret' = Keys /\ secret' = [k \in Keys |-> secret'[k]]
           /\ addon' \subseteq addon /\ works' \subseteq works
           /\ \A k \in Keys : secret'[k] \in {secret[k], NoSecret} /\ msa'[k] \in {msa[k], NoAccount}
           /\ CleanupPass /\ "cleanup" \notin Faults =>
                \A k \in Keys : secret'[k] = NoSecret /\ msa'[k] = NoAccount
           /\ verifyMSAOption => \A k \in Keys : msa[k].there => msa'[k] = msa[k]
           /\ verifyMSAOption /\ "cleanup" \notin Faults => \A k \in Keys : secret'[k] = NoSecret
<1>1. ASSUME NEW stop, NEW kept, cleanupMSAForImportedClusters(stop, kept)
      PROVE  /\ DOMAIN msa' = Keys /\ msa' = [k \in Keys |-> msa'[k]]
             /\ DOMAIN secret' = Keys /\ secret' = [k \in Keys |-> secret'[k]]
             /\ addon' \subseteq addon /\ works' \subseteq works
             /\ \A k \in Keys : secret'[k] \in {secret[k], NoSecret} /\ msa'[k] \in {msa[k], NoAccount}
  BY <1>1 DEF cleanupMSAForImportedClusters, Rest
<1>2. ASSUME NEW kept, cleanupMSAForImportedClusters(5, kept)
      PROVE  \A k \in Keys : secret'[k] = NoSecret /\ (k \notin kept => msa'[k] = NoAccount)
  <2>1. Rest(4, 5, MSASecrets) = {{}}
    BY DEF Rest
  <2> QED
    BY <1>2, <2>1 DEF cleanupMSAForImportedClusters
<1>3. \E stop, kept : cleanupMSAForImportedClusters(stop, kept)
  BY DEF Cleaning, CleanupPass, verifyMSAOption
<1>4. CleanupPass /\ "cleanup" \notin Faults => cleanupMSAForImportedClusters(5, {})
  BY DEF CleanupPass, Fail
<1>5. ASSUME verifyMSAOption
      PROVE  /\ \A k \in Keys : msa[k].there => msa'[k] = msa[k]
             /\ "cleanup" \notin Faults => cleanupMSAForImportedClusters(5, MSAs)
  <2>1. \E stop : cleanupMSAForImportedClusters(stop, MSAs)
    BY <1>5 DEF verifyMSAOption
  <2>2. "cleanup" \notin Faults => cleanupMSAForImportedClusters(5, MSAs)
    BY <1>5 DEF verifyMSAOption, Fail
  <2> QED
    BY <2>1, <2>2 DEF cleanupMSAForImportedClusters, MSAs
<1>6. CleanupPass /\ "cleanup" \notin Faults =>
        \A k \in Keys : secret'[k] = NoSecret /\ msa'[k] = NoAccount
  BY <1>2, <1>4
<1>7. verifyMSAOption /\ "cleanup" \notin Faults => \A k \in Keys : secret'[k] = NoSecret
  BY <1>2, <1>5
<1> QED
  BY <1>1, <1>3, <1>5, <1>6, <1>7

-----------------------------------------------------------------------------
(* Type correctness.                                                       *)

LEMMA PrepareType ==
    ASSUME TypeOK, NEW c \in Clusters, Prepare(c)
    PROVE  TypeOK'
<1>1. /\ msa \in [Keys -> Accounts] /\ secret \in [Keys -> Secrets]
      /\ spec.tokenValidity \in Validities /\ faults \in 0..MaxFaults /\ gap \in 0..MaxGap
      /\ todo \subseteq Clusters /\ pc = "prepare"
  BY DEF TypeOK, Prepare
<1>2. msa' \in [Keys -> Accounts] /\ secret' \in [Keys -> Secrets]
  <2>1. Fresh \in Accounts /\ NoSecret \in Secrets
    BY <1>1, NothingType DEF Fresh, Accounts
  <2>2. \A k \in Keys : [msa[k] EXCEPT !.validity = spec.tokenValidity] \in Accounts
    BY <1>1 DEF Accounts
  <2>3. \A k \in Keys : msa'[k] \in Accounts /\ secret'[k] \in Secrets
    BY <1>1, <2>1, <2>2, PrepareShape
  <2> QED
    BY <1>1, <2>3, PrepareShape
<1>3. UNCHANGED <<spec, component, crd, edited, disabled, acts>>
  BY DEF Prepare, userVars
<1>4. addon' \subseteq Clusters /\ works' \subseteq Keys
  <2>1. CASE UNCHANGED hubVars
    BY <2>1 DEF TypeOK, hubVars
  <2>2. CASE \E failed \in SUBSET Calls :
               /\ addon' = IF <<"addon", "initial">> \in failed THEN addon ELSE addon \cup {c}
               /\ works' = works \cup
                    {<<c, n>> : n \in {m \in Generated(c) \cup {"initial"} : <<"work", m>> \notin failed}}
    <3>1. Generated(c) \cup {"initial"} \subseteq Names
      BY DEF Generated, Names
    <3>2. addon' \subseteq Clusters
      BY <2>2 DEF TypeOK
    <3>3. works' \subseteq Keys
      BY <2>2, <3>1 DEF TypeOK, Keys
    <3> QED
      BY <3>2, <3>3
  <2> QED
    BY <2>1, <2>2 DEF Prepare
<1>5. faults' \in 0..MaxFaults
  BY <1>1, FailBound DEF Prepare
<1>6. todo' \subseteq Clusters /\ pc' \in {"idle", "prepare"} /\ gap' \in 0..MaxGap
  <2>1. CASE EndPass(FALSE)
    BY <1>1, <2>1, EndPassType
  <2>2. CASE todo' = todo \ {c} /\ UNCHANGED <<pc, gap>>
    BY <1>1, <2>2
  <2> QED
    BY <2>1, <2>2 DEF Prepare
<1> QED
  BY <1>2, <1>3, <1>4, <1>5, <1>6 DEF TypeOK

LEMMA AnnotateType ==
    ASSUME TypeOK, Annotate
    PROVE  TypeOK'
<1>1. /\ msa \in [Keys -> Accounts] /\ secret \in [Keys -> Secrets]
      /\ faults \in 0..MaxFaults /\ gap \in 0..MaxGap
  BY DEF TypeOK
<1>2. \A k \in Keys : updateMSASecretTimestamp(k) \in Tokens
  BY <1>1 DEF updateMSASecretTimestamp, Accounts, Secrets
<1>3. secret' \in [Keys -> Secrets]
  <2>1. \A k \in Keys : [secret[k] EXCEPT !.note = updateMSASecretTimestamp(k), !.label = TRUE] \in Secrets
    BY <1>1, <1>2 DEF Secrets
  <2> QED
    BY <1>1, <2>1 DEF Annotate
<1>4. faults' \in 0..MaxFaults
  BY <1>1, FailBound DEF Annotate
<1>5. pc' = "idle" /\ todo' = {} /\ gap' \in 0..MaxGap
  BY <1>1, EndPassType DEF Annotate
<1>6. UNCHANGED <<spec, component, crd, addon, works, msa, edited, disabled, acts>>
  BY DEF Annotate, userVars
<1> QED
  BY <1>3, <1>4, <1>5, <1>6 DEF TypeOK

LEMMA CleanupType ==
    ASSUME TypeOK, Cleaning
    PROVE  TypeOK'
<1>1. /\ msa \in [Keys -> Accounts] /\ secret \in [Keys -> Secrets]
      /\ faults \in 0..MaxFaults /\ gap \in 0..MaxGap /\ addon \subseteq Clusters /\ works \subseteq Keys
  BY DEF TypeOK
<1>2. msa' \in [Keys -> Accounts] /\ secret' \in [Keys -> Secrets]
  <2>1. \A k \in Keys : msa'[k] \in Accounts /\ secret'[k] \in Secrets
    BY <1>1, CleanupShape, NothingType
  <2> QED
    BY <1>1, <2>1, CleanupShape
<1>3. addon' \subseteq Clusters /\ works' \subseteq Keys
  BY <1>1, CleanupShape
<1>4. faults' \in 0..MaxFaults
  BY <1>1, FailBound DEF Cleaning, CleanupPass, verifyMSAOption
<1>5. pc' = "idle" /\ todo' = {} /\ gap' \in 0..MaxGap
  <2>1. \E ok : EndPass(ok)
    BY DEF Cleaning, CleanupPass, verifyMSAOption
  <2> QED
    BY <1>1, <2>1, EndPassType
<1>6. UNCHANGED <<spec, component, crd, edited, disabled, acts>>
  BY DEF Cleaning, CleanupPass, verifyMSAOption, userVars
<1> QED
  BY <1>2, <1>3, <1>4, <1>5, <1>6 DEF TypeOK

(* The steps of a pass that touch no account.                              *)
LEMMA PassType ==
    ASSUME TypeOK, StartPass \/ NothingToDo \/ Crash
    PROVE  TypeOK'
<1>1. faults \in 0..MaxFaults /\ gap \in 0..MaxGap
  BY DEF TypeOK
<1>2. UNCHANGED <<spec, component, crd, addon, works, msa, secret, edited, disabled, acts>>
  BY DEF StartPass, NothingToDo, Crash, hubVars, userVars
<1>3. faults' \in 0..MaxFaults
  BY <1>1, FailBound DEF StartPass, NothingToDo, Crash
<1>4. gap' \in 0..MaxGap /\ todo' \subseteq Clusters
      /\ pc' \in {"idle", "prepare", "refused", "cleanup", "done"}
  <2>1. CASE \E ok : EndPass(ok)
    BY <1>1, <2>1, EndPassType
  <2>2. CASE /\ pc' \in {"prepare", "refused", "cleanup", "done"}
             /\ todo' = IF Wanted THEN Clusters \ Hive ELSE {}
             /\ UNCHANGED gap
    BY <1>1, <2>2
  <2>3. ASSUME StartPass, ~EndPass(FALSE)
        PROVE  /\ pc' \in {"prepare", "refused", "cleanup", "done"}
               /\ todo' = IF Wanted THEN Clusters \ Hive ELSE {}
               /\ UNCHANGED gap
    <3>1. pc' = CASE Wanted -> "prepare"
                  [] spec.useMSA /\ ~Wanted -> "refused"
                  [] OTHER -> IF crd THEN "cleanup" ELSE "done"
      BY <2>3, Zenon DEF StartPass
    <3> HIDE DEF Wanted
    <3>2. pc' \in {"prepare", "refused", "cleanup", "done"}
      <4> DEFINE asked == spec.useMSA
      <4>1. CASE Wanted
        BY <3>1, <4>1
      <4>2. CASE ~Wanted /\ asked
        BY <3>1, <4>2
      <4>3. CASE ~Wanted /\ ~asked
        BY <3>1, <4>3
      <4> QED
        BY <4>1, <4>2, <4>3
    <3>3. todo' = (IF Wanted THEN Clusters \ Hive ELSE {}) /\ UNCHANGED gap
      BY <2>3, Zenon DEF StartPass
    <3> QED
      BY <3>2, <3>3
  <2> QED
    BY <2>1, <2>2, <2>3 DEF StartPass, NothingToDo, Crash
<1> QED
  BY <1>2, <1>3, <1>4 DEF TypeOK

(* What the service-account controller and the clock do.                   *)
LEMMA IssueShape ==
    ASSUME TypeOK, NEW k \in Keys, Issue(k)
    PROVE  /\ secret' = [secret EXCEPT ![k] =
                [secret[k] EXCEPT !.there = TRUE, !.token = [age |-> 0, total |-> msa[k].validity]]]
           /\ msa' = [msa EXCEPT ![k] = [msa[k] EXCEPT !.issued = TRUE]]
<1>1. msa \in [Keys -> Accounts] /\ secret \in [Keys -> Secrets]
  BY DEF TypeOK
<1> QED
  BY <1>1 DEF Issue, Secrets

LEMMA ControllerType ==
    ASSUME TypeOK, NEW k \in Keys, Issue(k) \/ Report(k) \/ Collect(k)
    PROVE  TypeOK'
<1>1. msa \in [Keys -> Accounts] /\ secret \in [Keys -> Secrets]
  BY DEF TypeOK
<1>2. CASE Issue(k)
  <2>1. [age |-> 0, total |-> msa[k].validity] \in Tokens
    BY <1>1, NothingType DEF Accounts
  <2>2. [secret[k] EXCEPT !.there = TRUE, !.token = [age |-> 0, total |-> msa[k].validity]] \in Secrets
    BY <1>1, <2>1 DEF Secrets
  <2>3. [msa[k] EXCEPT !.issued = TRUE] \in Accounts
    BY <1>1 DEF Accounts
  <2>4. msa' \in [Keys -> Accounts] /\ secret' \in [Keys -> Secrets]
    BY <1>1, <1>2, <2>2, <2>3, IssueShape
  <2> QED
    BY <1>2, <2>4 DEF Issue, TypeOK, userVars
<1>3. CASE Report(k)
  <2>1. [msa[k] EXCEPT !.status = secret[k].token] \in Accounts
    BY <1>1 DEF Accounts, Secrets
  <2>2. msa' \in [Keys -> Accounts]
    BY <1>1, <1>3, <2>1 DEF Report
  <2> QED
    BY <1>3, <2>2 DEF Report, TypeOK, userVars
<1>4. CASE Collect(k)
  <2>1. secret' \in [Keys -> Secrets]
    BY <1>1, <1>4, NothingType DEF Collect
  <2> QED
    BY <1>4, <2>1 DEF Collect, TypeOK, userVars
<1> QED
  BY <1>2, <1>3, <1>4

LEMMA TickType ==
    ASSUME TypeOK, Tick
    PROVE  TypeOK'
<1>1. msa \in [Keys -> Accounts] /\ secret \in [Keys -> Secrets]
  BY DEF TypeOK
<1>2. ASSUME NEW k \in Keys
      PROVE  /\ [msa[k] EXCEPT !.status = Older(msa[k].status)] \in Accounts
             /\ [secret[k] EXCEPT !.token = Older(secret[k].token), !.note = Older(secret[k].note)] \in Secrets
  <2>1. msa[k].status \in Tokens /\ secret[k].token \in Tokens /\ secret[k].note \in Tokens
    BY <1>1 DEF Accounts, Secrets
  <2>2. Older(msa[k].status) \in Tokens /\ Older(secret[k].token) \in Tokens /\ Older(secret[k].note) \in Tokens
    BY <2>1, OlderType
  <2> QED
    BY <1>1, <2>2 DEF Accounts, Secrets
<1>3. msa' \in [Keys -> Accounts] /\ secret' \in [Keys -> Secrets]
  BY <1>2 DEF Tick
<1>4. gap' \in 0..MaxGap
  <2>1. gap \in 0..MaxGap /\ gap < MaxGap /\ gap' = gap + 1 /\ MaxGap \in Nat
    BY MSAAssumption DEF TypeOK, Tick
  <2> QED
    BY <2>1
<1> QED
  BY <1>3, <1>4 DEF Tick, TypeOK, userVars

LEMMA EditType ==
    ASSUME TypeOK, Edit
    PROVE  TypeOK'
<1>1. spec \in [useMSA: BOOLEAN, tokenValidity: Validities] /\ msa \in [Keys -> Accounts]
      /\ acts \in 0..MaxActs
  BY DEF TypeOK
<1>2. UNCHANGED <<addon, works, secret, todo, pc, gap, faults>>
  BY DEF Edit
<1>3. spec' \in [useMSA: BOOLEAN, tokenValidity: Validities]
  BY <1>1 DEF Edit
<1>4. msa' \in [Keys -> Accounts]
  BY <1>1, NothingType DEF Edit
<1>5. acts' \in 0..MaxActs
  BY <1>1, ActBound DEF Edit
<1>6. component' \in BOOLEAN /\ crd' \in BOOLEAN /\ edited' \in BOOLEAN /\ disabled' \in BOOLEAN
  BY DEF Edit, TypeOK
<1> QED
  BY <1>2, <1>3, <1>4, <1>5, <1>6 DEF TypeOK

LEMMA TypeStep == TypeOK /\ [Next]_vars => TypeOK'
<1>1. ASSUME TypeOK, UNCHANGED vars PROVE TypeOK'
  BY <1>1 DEF TypeOK, vars
<1> QED
  BY <1>1, PrepareType, AnnotateType, CleanupType, PassType, ControllerType, TickType, EditType
    DEF Next, Pass, Cleaning

LEMMA TypeInit == Init => TypeOK
<1>1. 0 \in 0..MaxGap /\ 0 \in 0..MaxActs /\ 0 \in 0..MaxFaults
  BY MSAAssumption
<1> QED
  BY <1>1, NothingType DEF Init, TypeOK

(* The types hold: no token or record of one is ever older than the        *)
(* longest validity, so time is bounded in an endless rotation.            *)
THEOREM TypeCorrect == Spec => []TypeOK
BY TypeInit, TypeStep, PTL DEF Spec

-----------------------------------------------------------------------------
(* What the annotations promise.                                           *)

(* A token issued now lasts as long as any record of the one before it.    *)
Outlives(k) ==
    /\ Known(secret[k].note) => Left(secret[k].note) <= msa[k].validity
    /\ Known(msa[k].status) => Left(msa[k].status) <= msa[k].validity

LEMMA NothingKnown ==
    /\ ~Known(NoSecret.note) /\ ~NoSecret.there
    /\ ~Known(NoAccount.status) /\ ~NoAccount.there
    /\ ~Known(Fresh.status) /\ Fresh.status = NoToken /\ ~Fresh.issued /\ Fresh.there
BY DEF Known, NoSecret, NoAccount, Fresh, NoToken

(* The annotations stay sound as long as each new token outlives the       *)
(* records of the old one.                                                 *)
LEMMA PromiseStep ==
    ASSUME TypeOK, PromiseInv, [Next]_vars, \A k \in Keys : Issue(k) => Outlives(k)
    PROVE  PromiseInv'
<1>1. msa \in [Keys -> Accounts] /\ secret \in [Keys -> Secrets]
  BY DEF TypeOK
<1>2. ASSUME NEW c \in Clusters, Prepare(c) PROVE PromiseInv'
  <2> SUFFICES ASSUME NEW k \in Keys
               PROVE  /\ Known(secret'[k].note) => Left(secret'[k].note) <= Left(secret'[k].token)
                      /\ msa'[k].there /\ Known(msa'[k].status) /\ secret'[k].there =>
                           Left(msa'[k].status) <= Left(secret'[k].token)
    BY DEF PromiseInv, Known, Left
  <2>1. secret'[k] \in {secret[k], NoSecret}
    BY <1>1, <1>2, PrepareShape
  <2>2. \/ msa'[k].there = msa[k].there /\ msa'[k].status = msa[k].status
        \/ msa'[k] = Fresh
    BY <1>1, <1>2, PrepareShape DEF Accounts
  <2> QED
    BY <2>1, <2>2, NothingKnown DEF PromiseInv
<1>3. ASSUME Annotate PROVE PromiseInv'
  <2> SUFFICES ASSUME NEW k \in Keys
               PROVE  /\ Known(secret'[k].note) => Left(secret'[k].note) <= Left(secret'[k].token)
                      /\ msa[k].there /\ Known(msa[k].status) /\ secret'[k].there =>
                           Left(msa[k].status) <= Left(secret'[k].token)
    BY <1>3 DEF PromiseInv, Known, Left, Annotate
  <2>1. /\ secret'[k].there = secret[k].there /\ secret'[k].token = secret[k].token
        /\ \/ secret'[k].note = secret[k].note
           \/ secret[k].there /\ secret'[k].note = updateMSASecretTimestamp(k)
    BY <1>1, <1>3 DEF Annotate, Secrets
  <2>2. CASE secret'[k].note = secret[k].note
    BY <2>1, <2>2 DEF PromiseInv
  <2>3. CASE secret[k].there /\ secret'[k].note = updateMSASecretTimestamp(k)
    BY <2>1, <2>3 DEF PromiseInv, updateMSASecretTimestamp
  <2> QED
    BY <2>1, <2>2, <2>3
<1>4. ASSUME Cleaning PROVE PromiseInv'
  <2> SUFFICES ASSUME NEW k \in Keys
               PROVE  /\ Known(secret'[k].note) => Left(secret'[k].note) <= Left(secret'[k].token)
                      /\ msa'[k].there /\ Known(msa'[k].status) /\ secret'[k].there =>
                           Left(msa'[k].status) <= Left(secret'[k].token)
    BY DEF PromiseInv, Known, Left
  <2>1. secret'[k] \in {secret[k], NoSecret} /\ msa'[k] \in {msa[k], NoAccount}
    BY <1>1, <1>4, CleanupShape
  <2> QED
    BY <2>1, NothingKnown DEF PromiseInv
<1>5. ASSUME NEW j \in Keys, Issue(j) PROVE PromiseInv'
  <2> DEFINE token == [age |-> 0, total |-> msa[j].validity]
  <2>1. /\ secret'[j].note = secret[j].note /\ secret'[j].token = token
        /\ msa'[j].status = msa[j].status
        /\ \A k \in Keys : k # j => secret'[k] = secret[k] /\ msa'[k] = msa[k]
    <3>1. /\ secret' = [secret EXCEPT ![j] = [secret[j] EXCEPT !.there = TRUE, !.token = token]]
          /\ msa' = [msa EXCEPT ![j] = [msa[j] EXCEPT !.issued = TRUE]]
      BY <1>5, IssueShape
    <3>2. secret'[j] = [secret[j] EXCEPT !.there = TRUE, !.token = token] /\ secret[j] \in Secrets
      BY <1>1, <3>1
    <3>3. msa'[j] = [msa[j] EXCEPT !.issued = TRUE] /\ msa[j] \in Accounts
      BY <1>1, <3>1
    <3>4. \A k \in Keys : k # j => secret'[k] = secret[k] /\ msa'[k] = msa[k]
      BY <1>1, <3>1
    <3> HIDE DEF token
    <3>5. secret'[j].note = secret[j].note /\ secret'[j].token = token
      BY <3>2 DEF Secrets
    <3>6. msa'[j].status = msa[j].status
      BY <3>3 DEF Accounts
    <3> QED
      BY <3>4, <3>5, <3>6
  <2>2. Left(token) = msa[j].validity
    <3>1. msa[j].validity \in Validities \cup {0}
      BY <1>1 DEF Accounts
    <3>2. msa[j].validity \in Nat
      BY <3>1, ValidityNat
    <3>3. Left(token) = msa[j].validity - 0
      BY DEF Left
    <3> QED
      BY <3>2, <3>3
  <2> HIDE DEF token
  <2>3. Outlives(j)
    BY <1>5
  <2> SUFFICES ASSUME NEW k \in Keys
               PROVE  /\ Known(secret'[k].note) => Left(secret'[k].note) <= Left(secret'[k].token)
                      /\ msa'[k].there /\ Known(msa'[k].status) /\ secret'[k].there =>
                           Left(msa'[k].status) <= Left(secret'[k].token)
    BY DEF PromiseInv, Known, Left
  <2>4. CASE k = j
    BY <2>1, <2>2, <2>3, <2>4 DEF Outlives
  <2>5. CASE k # j
    BY <2>1, <2>5 DEF PromiseInv
  <2> QED
    BY <2>4, <2>5
<1>6. ASSUME NEW j \in Keys, Report(j) PROVE PromiseInv'
  <2>1. UNCHANGED secret /\ msa'[j].status = secret[j].token /\ \A k \in Keys : k # j => msa'[k] = msa[k]
    BY <1>1, <1>6 DEF Report, Accounts
  <2>2. Left(secret[j].token) <= Left(secret[j].token)
    <3>1. secret[j].token \in Tokens
      BY <1>1 DEF Secrets
    <3>2. Left(secret[j].token) \in Int
      BY <3>1, TokenParts
    <3> QED
      BY <3>2
  <2> SUFFICES ASSUME NEW k \in Keys
               PROVE  /\ Known(secret[k].note) => Left(secret[k].note) <= Left(secret[k].token)
                      /\ msa'[k].there /\ Known(msa'[k].status) /\ secret[k].there =>
                           Left(msa'[k].status) <= Left(secret[k].token)
    BY <2>1 DEF PromiseInv, Known, Left
  <2>3. CASE k = j
    BY <2>1, <2>2, <2>3 DEF PromiseInv
  <2>4. CASE k # j
    BY <2>1, <2>4 DEF PromiseInv
  <2> QED
    BY <2>3, <2>4
<1>7. ASSUME NEW j \in Keys, Collect(j) PROVE PromiseInv'
  <2>1. UNCHANGED msa /\ \A k \in Keys : secret'[k] \in {secret[k], NoSecret}
    BY <1>1, <1>7 DEF Collect
  <2> SUFFICES ASSUME NEW k \in Keys
               PROVE  /\ Known(secret'[k].note) => Left(secret'[k].note) <= Left(secret'[k].token)
                      /\ msa[k].there /\ Known(msa[k].status) /\ secret'[k].there =>
                           Left(msa[k].status) <= Left(secret'[k].token)
    BY <2>1 DEF PromiseInv, Known, Left
  <2> QED
    BY <2>1, NothingKnown DEF PromiseInv
<1>8. ASSUME Tick PROVE PromiseInv'
  <2> SUFFICES ASSUME NEW k \in Keys
               PROVE  /\ Known(secret'[k].note) => Left(secret'[k].note) <= Left(secret'[k].token)
                      /\ msa'[k].there /\ Known(msa'[k].status) /\ secret'[k].there =>
                           Left(msa'[k].status) <= Left(secret'[k].token)
    BY DEF PromiseInv, Known, Left
  <2>1. msa[k].status \in Tokens /\ secret[k].token \in Tokens /\ secret[k].note \in Tokens
    BY <1>1 DEF Accounts, Secrets
  <2>2. /\ msa'[k].there = msa[k].there /\ msa'[k].status = Older(msa[k].status)
        /\ secret'[k].there = secret[k].there
        /\ secret'[k].token = Older(secret[k].token) /\ secret'[k].note = Older(secret[k].note)
    BY <1>1, <1>8 DEF Tick, Accounts, Secrets
  <2>3. /\ Known(Older(msa[k].status)) <=> Known(msa[k].status)
        /\ Known(Older(secret[k].note)) <=> Known(secret[k].note)
    BY <2>1, OlderType DEF Known
  <2> QED
    BY <2>1, <2>2, <2>3, OlderKeepsOrder DEF PromiseInv
<1>9. ASSUME Edit PROVE PromiseInv'
  <2>1. UNCHANGED secret /\ \A k \in Keys : msa'[k] \in {msa[k], NoAccount}
    BY <1>9 DEF Edit
  <2> SUFFICES ASSUME NEW k \in Keys
               PROVE  /\ Known(secret[k].note) => Left(secret[k].note) <= Left(secret[k].token)
                      /\ msa'[k].there /\ Known(msa'[k].status) /\ secret[k].there =>
                           Left(msa'[k].status) <= Left(secret[k].token)
    BY <2>1 DEF PromiseInv, Known, Left
  <2> QED
    BY <2>1, NothingKnown DEF PromiseInv
<1>10. ASSUME UNCHANGED <<msa, secret>> PROVE PromiseInv'
  BY <1>10 DEF PromiseInv, Known, Left
<1> QED
  BY <1>2, <1>3, <1>4, <1>5, <1>6, <1>7, <1>8, <1>9, <1>10
    DEF Next, Pass, Cleaning, vars, StartPass, NothingToDo, Crash, hubVars

-----------------------------------------------------------------------------
(* Before the validity is edited.                                          *)

LEMMA UneditedStep ==
    ASSUME TypeOK, UneditedInv, [Next]_vars, ~edited'
    PROVE  UneditedInv'
<1>1. msa \in [Keys -> Accounts] /\ secret \in [Keys -> Secrets]
  BY DEF TypeOK
<1>2. spec'.tokenValidity = spec.tokenValidity
  <2>1. CASE Edit
    <3>1. \/ UNCHANGED spec
          \/ spec' = [spec EXCEPT !.useMSA = ~@]
      BY <2>1 DEF Edit
    <3> QED
      BY <3>1 DEF TypeOK
  <2>2. CASE UNCHANGED spec
    BY <2>2
  <2> QED
    BY <2>1, <2>2 DEF Next, Pass, vars, userVars, StartPass, Prepare, Annotate, CleanupPass,
         verifyMSAOption, NothingToDo, Crash, Tick, Issue, Report, Collect
<1> DEFINE V == spec.tokenValidity
<1> SUFFICES ASSUME NEW k \in Keys
             PROVE  UneditedAt(msa'[k], secret'[k], V)
  BY <1>2 DEF UneditedInv
<1>3. UneditedAt(msa[k], secret[k], V) /\ msa[k] \in Accounts /\ secret[k] \in Secrets
  BY <1>1 DEF UneditedInv
<1>4. UneditedAt(NoAccount, secret[k], V) /\ UneditedAt(msa[k], NoSecret, V)
      /\ UneditedAt(NoAccount, NoSecret, V) /\ UneditedAt(Fresh, secret[k], V)
      /\ UneditedAt(Fresh, NoSecret, V)
  BY <1>3 DEF UneditedAt, NoAccount, NoSecret, NoToken, Fresh
<1> HIDE DEF V
<1>5. ASSUME NEW c \in Clusters, Prepare(c) PROVE UneditedAt(msa'[k], secret'[k], V)
  <2>1. secret'[k] \in {secret[k], NoSecret}
        /\ msa'[k] \in {msa[k], [msa[k] EXCEPT !.validity = V], Fresh}
    BY <1>1, <1>5, PrepareShape DEF V
  <2>2. CASE msa'[k] = [msa[k] EXCEPT !.validity = V]
    <3>1. msa'[k].validity = V /\ msa'[k].status = msa[k].status
      BY <1>3, <2>2 DEF Accounts
    <3> QED
      BY <1>3, <1>4, <2>1, <3>1 DEF UneditedAt
  <2> QED
    BY <1>3, <1>4, <2>1, <2>2
<1>6. ASSUME Annotate PROVE UneditedAt(msa'[k], secret'[k], V)
  <2>1. /\ UNCHANGED msa /\ secret'[k].token = secret[k].token
        /\ secret'[k].note \in {secret[k].note, updateMSASecretTimestamp(k)}
    BY <1>1, <1>6 DEF Annotate, Secrets
  <2>2. secret'[k].note \in {secret[k].note, msa[k].status}
    BY <2>1 DEF updateMSASecretTimestamp
  <2> QED
    BY <1>3, <2>1, <2>2 DEF UneditedAt
<1>7. ASSUME Cleaning PROVE UneditedAt(msa'[k], secret'[k], V)
  <2>1. secret'[k] \in {secret[k], NoSecret} /\ msa'[k] \in {msa[k], NoAccount}
    BY <1>1, <1>7, CleanupShape
  <2> QED
    BY <1>3, <1>4, <2>1
<1>8. ASSUME NEW j \in Keys, Issue(j) PROVE UneditedAt(msa'[k], secret'[k], V)
  <2> DEFINE token == [age |-> 0, total |-> msa[j].validity]
  <2>1. /\ secret' = [secret EXCEPT ![j] = [secret[j] EXCEPT !.there = TRUE, !.token = token]]
        /\ msa' = [msa EXCEPT ![j] = [msa[j] EXCEPT !.issued = TRUE]]
        /\ msa[j].there /\ token.total = msa[j].validity
    BY <1>8, IssueShape DEF Issue, Due
  <2> HIDE DEF token
  <2>2. CASE k = j
    <3>1. secret'[k] = [secret[k] EXCEPT !.there = TRUE, !.token = token]
          /\ msa'[k] = [msa[k] EXCEPT !.issued = TRUE]
      BY <1>1, <2>1, <2>2
    <3>2. secret'[k].token = token /\ secret'[k].note = secret[k].note
      BY <1>3, <3>1 DEF Secrets
    <3>3. msa'[k].there = msa[k].there /\ msa'[k].validity = msa[k].validity /\ msa'[k].status = msa[k].status
      BY <1>3, <3>1 DEF Accounts
    <3> QED
      BY <1>3, <2>1, <2>2, <3>2, <3>3 DEF UneditedAt
  <2>3. CASE k # j
    BY <1>1, <1>3, <2>1, <2>3
  <2> QED
    BY <2>2, <2>3
<1>9. ASSUME NEW j \in Keys, Report(j) PROVE UneditedAt(msa'[k], secret'[k], V)
  <2>1. UNCHANGED secret /\ msa' = [msa EXCEPT ![j].status = secret[j].token]
    BY <1>9 DEF Report
  <2>2. CASE k = j
    <3>1. msa'[k].there = msa[k].there /\ msa'[k].validity = msa[k].validity
          /\ msa'[k].status = secret[k].token
      BY <1>1, <1>3, <2>1, <2>2 DEF Accounts
    <3> QED
      BY <1>3, <2>1, <3>1 DEF UneditedAt
  <2>3. CASE k # j
    BY <1>1, <1>3, <2>1, <2>3
  <2> QED
    BY <2>2, <2>3
<1>10. ASSUME NEW j \in Keys, Collect(j) PROVE UneditedAt(msa'[k], secret'[k], V)
  <2>1. UNCHANGED msa /\ secret'[k] \in {secret[k], NoSecret}
    BY <1>1, <1>10 DEF Collect
  <2> QED
    BY <1>3, <1>4, <2>1
<1>11. ASSUME Tick PROVE UneditedAt(msa'[k], secret'[k], V)
  <2>1. msa[k].status \in Tokens /\ secret[k].token \in Tokens /\ secret[k].note \in Tokens
    BY <1>3 DEF Accounts, Secrets
  <2>2. /\ msa'[k].there = msa[k].there /\ msa'[k].validity = msa[k].validity
        /\ msa'[k].status = Older(msa[k].status)
        /\ secret'[k].token = Older(secret[k].token) /\ secret'[k].note = Older(secret[k].note)
    BY <1>3, <1>11 DEF Tick, Accounts, Secrets
  <2> QED
    BY <1>3, <2>1, <2>2, OlderType DEF UneditedAt
<1>12. ASSUME Edit PROVE UneditedAt(msa'[k], secret'[k], V)
  <2>1. UNCHANGED secret /\ msa'[k] \in {msa[k], NoAccount}
    BY <1>12 DEF Edit
  <2> QED
    BY <1>3, <1>4, <2>1
<1>13. ASSUME UNCHANGED <<msa, secret>> PROVE UneditedAt(msa'[k], secret'[k], V)
  BY <1>3, <1>13
<1> QED
  BY <1>5, <1>6, <1>7, <1>8, <1>9, <1>10, <1>11, <1>12, <1>13
    DEF Next, Pass, Cleaning, vars, StartPass, NothingToDo, Crash, hubVars

(* While all have the same validity a new token outlives every record.     *)
LEMMA UneditedOutlives ==
    ASSUME TypeOK, UneditedInv, NEW k \in Keys, Issue(k)
    PROVE  Outlives(k)
<1>1. /\ msa[k].validity = spec.tokenValidity
      /\ secret[k].note.total \in {0, spec.tokenValidity} /\ msa[k].status.total \in {0, spec.tokenValidity}
  BY DEF UneditedInv, UneditedAt, Issue, Due
<1>2. msa[k].status \in Tokens /\ secret[k].note \in Tokens
  BY DEF TypeOK, Accounts, Secrets
<1>3. spec.tokenValidity \in Nat
  BY MaxType DEF TypeOK
<1>4. Left(secret[k].note) \in Int /\ Left(secret[k].note) <= secret[k].note.total
  BY <1>2, TokenParts
<1>5. Left(msa[k].status) \in Int /\ Left(msa[k].status) <= msa[k].status.total
  BY <1>2, TokenParts
<1> QED
  BY <1>1, <1>3, <1>4, <1>5 DEF Outlives

(* Until the user edits the validity, the annotations of a secret never    *)
(* promise more than its token has, whatever calls of prepareForBackup or  *)
(* of its clean-up fail.                                                   *)
THEOREM AnnotationsSoundUnedited == Spec => [](~edited => AnnotationSound)
<1> DEFINE Inv == ~edited => PromiseInv /\ UneditedInv
<1>1. Init => Inv
  <2> SUFFICES ASSUME Init PROVE PromiseInv /\ UneditedInv
    OBVIOUS
  <2>1. \A k \in Keys : msa[k] = NoAccount /\ secret[k] = NoSecret
    BY DEF Init
  <2>2. UneditedAt(NoAccount, NoSecret, spec.tokenValidity)
    BY DEF UneditedAt, NoAccount, NoSecret, NoToken
  <2> QED
    BY <2>1, <2>2, NothingKnown DEF PromiseInv, UneditedInv
<1>2. ASSUME TypeOK, Inv, [Next]_vars PROVE Inv'
  <2> SUFFICES ASSUME ~edited' PROVE PromiseInv' /\ UneditedInv'
    OBVIOUS
  <2>1. ~edited
    BY <1>2 DEF Next, Pass, vars, userVars, StartPass, Prepare, Annotate, CleanupPass,
         verifyMSAOption, NothingToDo, Crash, Tick, Issue, Report, Collect, Edit
  <2>2. PromiseInv /\ UneditedInv
    BY <1>2, <2>1
  <2>3. \A k \in Keys : Issue(k) => Outlives(k)
    BY <1>2, <2>2, UneditedOutlives
  <2>4. PromiseInv'
    BY <1>2, <2>2, <2>3, PromiseStep
  <2>5. UneditedInv'
    BY <1>2, <2>2, UneditedStep
  <2> QED
    BY <2>4, <2>5
<1>3. Inv => (~edited => AnnotationSound)
  BY DEF PromiseInv, AnnotationSound
<1> HIDE DEF Inv
<1> QED
  BY <1>1, <1>2, <1>3, TypeInit, TypeStep, PTL DEF Spec

-----------------------------------------------------------------------------
(* With edits, while clean-up does not fail.                               *)

LEMMA ValidityStep ==
    ASSUME TypeOK, ValidityInv, [Next]_vars
    PROVE  ValidityInv'
<1>1. msa \in [Keys -> Accounts] /\ secret \in [Keys -> Secrets]
  BY DEF TypeOK
<1>2. spec.tokenValidity # 0
  <2>1. spec.tokenValidity \in Validities /\ Window \in Nat
    BY MSAAssumption DEF TypeOK
  <2>2. spec.tokenValidity \in Nat /\ spec.tokenValidity > 2 * Window
    BY <2>1, MSAAssumption
  <2> QED
    BY <2>1, <2>2
<1> SUFFICES ASSUME NEW k \in Keys, msa'[k].there PROVE msa'[k].validity # 0
  BY DEF ValidityInv
<1>3. (msa[k].there => msa[k].validity # 0) /\ msa[k] \in Accounts
  BY <1>1 DEF ValidityInv
<1>4. ~NoAccount.there /\ Fresh.validity = spec.tokenValidity
  BY DEF NoAccount, Fresh
<1>5. ASSUME NEW c \in Clusters, Prepare(c) PROVE msa'[k].validity # 0
  BY <1>1, <1>2, <1>3, <1>4, <1>5, PrepareShape DEF Accounts
<1>6. ASSUME Cleaning \/ Edit PROVE msa'[k].validity # 0
  <2>1. msa'[k] \in {msa[k], NoAccount}
    BY <1>1, <1>6, CleanupShape DEF Edit
  <2> QED
    BY <1>3, <1>4, <2>1
<1>7. ASSUME NEW j \in Keys, Issue(j) PROVE msa'[k].validity # 0
  <2>1. msa' = [msa EXCEPT ![j] = [msa[j] EXCEPT !.issued = TRUE]]
    BY <1>7, IssueShape
  <2>2. msa'[k].there = msa[k].there /\ msa'[k].validity = msa[k].validity
    BY <1>1, <1>3, <2>1 DEF Accounts
  <2> QED
    BY <1>3, <2>2
<1>8. ASSUME NEW j \in Keys, Report(j) PROVE msa'[k].validity # 0
  <2>1. msa' = [msa EXCEPT ![j].status = secret[j].token]
    BY <1>8 DEF Report
  <2>2. msa'[k].there = msa[k].there /\ msa'[k].validity = msa[k].validity
    BY <1>1, <1>3, <2>1 DEF Accounts
  <2> QED
    BY <1>3, <2>2
<1>9. ASSUME Tick PROVE msa'[k].validity # 0
  <2>1. msa'[k].there = msa[k].there /\ msa'[k].validity = msa[k].validity
    BY <1>3, <1>9 DEF Tick, Accounts
  <2> QED
    BY <1>3, <2>1
<1>10. ASSUME UNCHANGED msa PROVE msa'[k].validity # 0
  BY <1>3, <1>10
<1> QED
  BY <1>5, <1>6, <1>7, <1>8, <1>9, <1>10
    DEF Next, Pass, Cleaning, vars, StartPass, NothingToDo, Crash, hubVars, Annotate, Collect

LEMMA PairedStep ==
    ASSUME TypeOK, PairedInv, EnabledInv, ~disabled, [Next]_vars, "cleanup" \notin Faults
    PROVE  PairedInv'
<1>1. msa \in [Keys -> Accounts] /\ secret \in [Keys -> Secrets]
  BY DEF TypeOK
<1> SUFFICES ASSUME NEW k \in Keys
             PROVE  PairedAt(msa'[k], secret'[k]) /\ (crd' /\ secret'[k].there => msa'[k].there)
  BY DEF PairedInv
<1>2. /\ PairedAt(msa[k], secret[k]) /\ (crd /\ secret[k].there => msa[k].there)
      /\ msa[k] \in Accounts /\ secret[k] \in Secrets
  BY <1>1 DEF PairedInv
<1>3. PairedAt(NoAccount, NoSecret)
  BY NothingKnown DEF PairedAt
<1>4. ASSUME NEW c \in Clusters, Prepare(c)
      PROVE  PairedAt(msa'[k], secret'[k]) /\ (crd' /\ secret'[k].there => msa'[k].there)
  <2>1. /\ \/ secret'[k] = secret[k]
           \/ secret'[k] = NoSecret /\ ~msa[k].there
        /\ \/ msa'[k] = msa[k]
           \/ msa[k].there /\ msa'[k] = [msa[k] EXCEPT !.validity = spec.tokenValidity]
           \/ crd /\ ~msa[k].there /\ msa'[k] = Fresh
        /\ crd' = crd
    BY <1>1, <1>4, PrepareShape DEF Prepare, userVars
  <2>2. CASE msa'[k] = Fresh /\ crd /\ ~msa[k].there
    <3>1. ~secret'[k].there /\ ~Known(secret'[k].note)
      BY <1>2, <2>1, <2>2, NothingKnown DEF PairedAt
    <3> QED
      BY <2>2, <3>1, NothingKnown DEF PairedAt
  <2>3. CASE \/ msa'[k] = msa[k]
             \/ msa[k].there /\ msa'[k] = [msa[k] EXCEPT !.validity = spec.tokenValidity]
    <3>1. msa'[k].there = msa[k].there /\ msa'[k].issued = msa[k].issued /\ msa'[k].status = msa[k].status
      BY <1>2, <2>3 DEF Accounts
    <3> QED
      BY <1>2, <2>1, <3>1, NothingKnown DEF PairedAt
  <2> QED
    BY <2>1, <2>2, <2>3
<1>5. ASSUME Annotate
      PROVE  PairedAt(msa'[k], secret'[k]) /\ (crd' /\ secret'[k].there => msa'[k].there)
  <2>1. /\ UNCHANGED <<msa, crd>> /\ secret'[k].there = secret[k].there
        /\ ~secret[k].there => secret'[k] = secret[k]
    <3>1. \/ secret'[k] = secret[k]
          \/ /\ secret[k].there
             /\ secret'[k] = [secret[k] EXCEPT !.note = updateMSASecretTimestamp(k), !.label = TRUE]
      BY <1>5 DEF Annotate
    <3>2. secret'[k].there = secret[k].there
      BY <1>1, <1>5 DEF Annotate, Secrets
    <3> QED
      BY <1>5, <3>1, <3>2 DEF Annotate, userVars
  <2> QED
    BY <1>2, <2>1 DEF PairedAt
<1>6. ASSUME CleanupPass
      PROVE  PairedAt(msa'[k], secret'[k]) /\ (crd' /\ secret'[k].there => msa'[k].there)
  <2>1. secret'[k] = NoSecret /\ msa'[k] = NoAccount
    BY <1>1, <1>6, CleanupShape DEF Cleaning
  <2> QED
    BY <1>3, <2>1, NothingKnown
<1>7. ASSUME NEW j \in Keys, Issue(j)
      PROVE  PairedAt(msa'[k], secret'[k]) /\ (crd' /\ secret'[k].there => msa'[k].there)
  <2> DEFINE token == [age |-> 0, total |-> msa[j].validity]
  <2>1. /\ secret' = [secret EXCEPT ![j] = [secret[j] EXCEPT !.there = TRUE, !.token = token]]
        /\ msa' = [msa EXCEPT ![j] = [msa[j] EXCEPT !.issued = TRUE]]
        /\ msa[j].there /\ UNCHANGED crd
    BY <1>7, IssueShape DEF Issue, Due, userVars
  <2> HIDE DEF token
  <2>2. CASE k = j
    <3>1. secret'[k] = [secret[k] EXCEPT !.there = TRUE, !.token = token]
          /\ msa'[k] = [msa[k] EXCEPT !.issued = TRUE]
      BY <1>1, <2>1, <2>2
    <3>2. secret'[k].there
      BY <1>2, <3>1 DEF Secrets
    <3>3. msa'[k].there /\ msa'[k].issued
      BY <1>2, <2>1, <2>2, <3>1 DEF Accounts
    <3> QED
      BY <3>2, <3>3 DEF PairedAt
  <2>3. CASE k # j
    BY <1>1, <1>2, <2>1, <2>3
  <2> QED
    BY <2>2, <2>3
<1>8. ASSUME NEW j \in Keys, Report(j)
      PROVE  PairedAt(msa'[k], secret'[k]) /\ (crd' /\ secret'[k].there => msa'[k].there)
  <2>1. UNCHANGED <<secret, crd>> /\ msa' = [msa EXCEPT ![j].status = secret[j].token]
        /\ msa[j].issued
    BY <1>8 DEF Report, Unreported, userVars
  <2>2. CASE k = j
    <3>1. msa'[k].there = msa[k].there /\ msa'[k].issued = msa[k].issued
      BY <1>1, <1>2, <2>1, <2>2 DEF Accounts
    <3> QED
      BY <1>2, <2>1, <2>2, <3>1 DEF PairedAt
  <2>3. CASE k # j
    BY <1>1, <1>2, <2>1, <2>3
  <2> QED
    BY <2>2, <2>3
<1>9. ASSUME NEW j \in Keys, Collect(j)
      PROVE  PairedAt(msa'[k], secret'[k]) /\ (crd' /\ secret'[k].there => msa'[k].there)
  <2>1. UNCHANGED <<msa, crd>> /\ (secret'[k] = secret[k] \/ (secret'[k] = NoSecret /\ ~msa[k].there))
    BY <1>1, <1>9 DEF Collect, userVars
  <2> QED
    BY <1>2, <2>1, NothingKnown DEF PairedAt
<1>10. ASSUME Tick
       PROVE  PairedAt(msa'[k], secret'[k]) /\ (crd' /\ secret'[k].there => msa'[k].there)
  <2>1. Older(NoToken) = NoToken
    BY DEF Older, NoToken
  <2>2. /\ UNCHANGED crd
        /\ msa'[k] = [msa[k] EXCEPT !.status = Older(msa[k].status)]
        /\ secret'[k] = [secret[k] EXCEPT !.token = Older(secret[k].token), !.note = Older(secret[k].note)]
    BY <1>10 DEF Tick, userVars
  <2>3. /\ msa'[k].there = msa[k].there /\ msa'[k].issued = msa[k].issued
        /\ msa[k].status = NoToken => msa'[k].status = NoToken
    BY <1>2, <2>1, <2>2 DEF Accounts
  <2>4. secret'[k].there = secret[k].there
    BY <1>2, <2>2 DEF Secrets
  <2>5. Known(secret'[k].note) => Known(secret[k].note)
    <3>1. secret[k].note \in Tokens /\ secret'[k].note = Older(secret[k].note)
      BY <1>2, <2>2 DEF Secrets
    <3> QED
      BY <3>1, OlderType DEF Known
  <2> QED
    BY <1>2, <2>2, <2>3, <2>4, <2>5 DEF PairedAt
<1>11. ASSUME Edit
       PROVE  PairedAt(msa'[k], secret'[k]) /\ (crd' /\ secret'[k].there => msa'[k].there)
  <2>1. UNCHANGED secret
        /\ (UNCHANGED <<msa, crd>> \/ (crd' = FALSE /\ msa'[k] = NoAccount))
    BY <1>11 DEF Edit
  <2> QED
    BY <1>2, <2>1, NothingKnown DEF PairedAt
<1>12. ASSUME UNCHANGED <<msa, secret, crd>>
       PROVE  PairedAt(msa'[k], secret'[k]) /\ (crd' /\ secret'[k].there => msa'[k].there)
  BY <1>2, <1>12
<1>13. ASSUME verifyMSAOption
       PROVE  PairedAt(msa'[k], secret'[k]) /\ (crd' /\ secret'[k].there => msa'[k].there)
  <2>1. ~msa[k].there
    BY <1>13 DEF EnabledInv, verifyMSAOption
  <2>2. msa'[k] \in {msa[k], NoAccount} /\ secret'[k] = NoSecret
    BY <1>1, <1>13, CleanupShape DEF Cleaning
  <2> QED
    BY <2>1, <2>2, NothingKnown DEF PairedAt
<1> QED
  BY <1>4, <1>5, <1>6, <1>7, <1>8, <1>9, <1>10, <1>11, <1>12, <1>13
    DEF Next, Pass, vars, userVars, StartPass, NothingToDo, Crash, hubVars

LEMMA EnabledStep ==
    ASSUME TypeOK, EnabledInv, [Next]_vars
    PROVE  EnabledInv' /\ (~disabled' => ~disabled)
<1>1. msa \in [Keys -> Accounts] /\ secret \in [Keys -> Secrets]
  BY DEF TypeOK
<1>2. CASE Edit
  <2>1. /\ UNCHANGED pc
        /\ \/ UNCHANGED <<component, disabled, crd, msa>>
           \/ disabled' /\ UNCHANGED <<crd, msa>>
           \/ ~crd' /\ UNCHANGED <<component, disabled>> /\ msa' = [k \in Keys |-> NoAccount]
    BY <1>2 DEF Edit
  <2> QED
    BY <2>1, NothingKnown DEF EnabledInv
<1>3. CASE ~Edit
  <2>1. UNCHANGED <<component, disabled, crd>>
    BY <1>3 DEF Next, Pass, vars, userVars, StartPass, Prepare, Annotate, CleanupPass, verifyMSAOption,
         NothingToDo, Crash, Tick, Issue, Report, Collect
  <2>2. pc' = "refused" => pc = "refused" \/ (StartPass /\ ~Wanted /\ spec.useMSA)
    BY <1>3 DEF Next, Pass, vars, StartPass, Prepare, Annotate, CleanupPass, verifyMSAOption, EndPass,
         NothingToDo, Crash, Tick, Issue, Report, Collect
  <2>3. ASSUME ~crd, NEW k \in Keys PROVE ~msa'[k].there
    <3>1. msa[k].there = FALSE /\ msa[k] \in Accounts
      BY <1>1, <2>3 DEF EnabledInv, Accounts
    <3>2. ASSUME NEW c \in Clusters, Prepare(c) PROVE ~msa'[k].there
      BY <1>1, <2>3, <3>1, <3>2, PrepareShape
    <3>3. ASSUME Cleaning PROVE ~msa'[k].there
      BY <1>1, <3>1, <3>3, CleanupShape, NothingKnown
    <3>4. ASSUME NEW j \in Keys, Issue(j) \/ Report(j) PROVE ~msa'[k].there
      <4>1. j # k /\ msa'[k] = msa[k]
        BY <1>1, <3>1, <3>4 DEF Issue, Due, Report, Unreported
      <4> QED
        BY <3>1, <4>1
    <3>5. ASSUME Tick PROVE ~msa'[k].there
      BY <3>1, <3>5 DEF Tick, Accounts
    <3>6. ASSUME UNCHANGED msa PROVE ~msa'[k].there
      BY <3>1, <3>6
    <3> QED
      BY <1>3, <3>2, <3>3, <3>4, <3>5, <3>6
        DEF Next, Pass, Cleaning, vars, StartPass, NothingToDo, Crash, hubVars, Annotate, Collect
  <2> QED
    BY <2>1, <2>2, <2>3 DEF EnabledInv, Wanted
<1> QED
  BY <1>2, <1>3

(* A token is renewed when a fifth of its life is left.                    *)
LEMMA RenewalOutlives ==
    ASSUME TypeOK, PromiseInv, ValidityInv, PairedInv, NEW k \in Keys, Issue(k),
           \A v, w \in Validities : v <= 5 * w
    PROVE  Outlives(k)
<1> DEFINE m == msa[k]
           s == secret[k]
<1>1. m \in Accounts /\ s \in Secrets
  BY DEF TypeOK
<1>2. m.there /\ (~m.issued \/ ~s.there \/ Left(s.token) * 5 <= s.token.total)
  BY DEF Issue, Due
<1>3. PairedAt(m, s)
  BY DEF PairedInv
<1>4. m.validity # 0 /\ m.validity \in Validities
  BY <1>1, <1>2 DEF ValidityInv, Accounts
<1>5. (Known(s.note) => Left(s.note) <= Left(s.token))
      /\ (Known(m.status) /\ s.there => Left(m.status) <= Left(s.token))
  BY <1>2 DEF PromiseInv
<1>6. m.status \in Tokens /\ s.note \in Tokens /\ s.token \in Tokens
  BY <1>1 DEF Accounts, Secrets
<1> HIDE DEF m, s
<1>7. CASE ~m.issued
  <2>1. ~Known(s.note) /\ m.status = NoToken
    BY <1>2, <1>3, <1>7 DEF PairedAt
  <2> QED
    BY <2>1 DEF Outlives, m, s, Known, NoToken
<1>8. CASE m.issued
  <2>1. s.there /\ Left(s.token) * 5 <= s.token.total
    BY <1>2, <1>3, <1>8 DEF PairedAt
  <2>2. s.token.total <= 5 * m.validity /\ m.validity \in Nat
    <3>1. m.validity \in Nat
      BY <1>4, MaxType
    <3>2. s.token.total \in Validities \cup {0}
      BY <1>6, TokenParts
    <3>3. CASE s.token.total = 0
      BY <3>1, <3>3
    <3>4. CASE s.token.total \in Validities
      BY <1>4, <3>1, <3>4
    <3> QED
      BY <3>1, <3>2, <3>3, <3>4
  <2>3. /\ Left(s.token) \in Int /\ Left(s.note) \in Int /\ Left(m.status) \in Int
        /\ s.token.total \in Nat
    BY <1>6, TokenParts
  <2>4. Left(s.token) <= m.validity
    BY <2>1, <2>2, <2>3
  <2> QED
    BY <1>5, <2>1, <2>2, <2>3, <2>4 DEF Outlives, m, s
<1> QED
  BY <1>7, <1>8

(* The annotations stay sound through any number of edits if no value of   *)
(* the validity exceeds five times another, and while clean-up does not    *)
(* fail and the component stays enabled.  (A clean-up that loses the       *)
(* deletion of an account, and the one of verifyMSAOption that deletes     *)
(* none, let an account keep a status longer than the token it is issued   *)
(* next.)                                                                  *)
THEOREM AnnotationsSound ==
    ASSUME "cleanup" \notin Faults, \A v, w \in Validities : v <= 5 * w
    PROVE  Spec => [](~disabled => AnnotationSound)
<1> DEFINE Sound == ~disabled => PromiseInv /\ ValidityInv /\ PairedInv
<1>1. Init => Sound /\ EnabledInv
  <2> SUFFICES ASSUME Init PROVE PromiseInv /\ ValidityInv /\ PairedInv /\ EnabledInv
    OBVIOUS
  <2>1. \A k \in Keys : msa[k] = NoAccount /\ secret[k] = NoSecret
    BY DEF Init
  <2>2. PairedAt(NoAccount, NoSecret)
    BY NothingKnown DEF PairedAt
  <2>3. EnabledInv
    BY <2>1 DEF Init, EnabledInv, NoAccount
  <2> QED
    BY <2>1, <2>2, <2>3, NothingKnown DEF PromiseInv, ValidityInv, PairedInv
<1>2. ASSUME TypeOK, Sound, EnabledInv, [Next]_vars PROVE (Sound /\ EnabledInv)'
  <2>1. EnabledInv' /\ (~disabled' => ~disabled)
    BY <1>2, EnabledStep
  <2>2. ASSUME ~disabled PROVE PromiseInv' /\ ValidityInv' /\ PairedInv'
    <3>1. \A k \in Keys : Issue(k) => Outlives(k)
      BY <1>2, <2>2, RenewalOutlives
    <3>2. PromiseInv'
      BY <1>2, <2>2, <3>1, PromiseStep
    <3> QED
      BY <1>2, <2>2, <3>2, ValidityStep, PairedStep
  <2> QED
    BY <2>1, <2>2
<1>3. Sound => (~disabled => AnnotationSound)
  BY DEF PromiseInv, AnnotationSound
<1> HIDE DEF Sound
<1> QED
  BY <1>1, <1>2, <1>3, TypeInit, TypeStep, PTL DEF Spec

=============================================================================
