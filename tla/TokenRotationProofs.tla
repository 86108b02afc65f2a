-------------------------- MODULE TokenRotationProofs --------------------------
(***************************************************************************)
(* The rotation of the two tokens of a cluster, for any clusters and       *)
(* validities: how late a pass may come, and how many calls may fail, for  *)
(* every backup to hold a token that outlives it.                          *)
(***************************************************************************)
EXTENDS ManagedServiceAccountsProofs, FiniteSetTheorems

-----------------------------------------------------------------------------
(* The law and the inductive invariant.                                    *)

(* By how much f failing calls can delay what a pass does.                 *)
Late(f) == f * MaxGap

(* The age at which the service-account controller renews a token.         *)
Renewal(v) == v - v \div 5

Half(v) == v \div 2

(* Delayed passes still come within the window in which the pair is        *)
(* generated; the pair's token is annotated one pass after that; the       *)
(* window ends before the first token is renewed; and accounts the failing *)
(* clean-up forgets are not put back to use.  (What becomes of them when   *)
(* the component is disabled, RestoreFindsToken leaves out.)               *)
RotationLaw ==
    /\ MaxGap + Late(MaxFaults) <= Window
    /\ 2 * MaxGap + Late(MaxFaults) < Slack
    /\ \A v \in Validities : Half(v) + Window < Renewal(v)
    /\ "cleanup" \in Faults /\ "useMSA" \in Acts => MaxActs <= 1

(* The annotations of a secret are those of the token in it.               *)
Noted(s) == s.label /\ Known(s.note) /\ s.note.age = s.token.age

(* An account and its secret.  A record of an older token is recognised by *)
(* its age; a token without a record of it is young.                       *)
AccountAt(m, s, v, late) ==
    /\ s.there <=> m.there /\ m.issued
    /\ ~s.there => ~Known(s.note) /\ ~s.label /\ ~Known(m.status)
    /\ m.there => m.validity = v
    /\ s.there => s.token.total = v /\ s.token.age <= Renewal(v)
    /\ Known(m.status) =>
         m.status.total = v /\ (m.status.age = s.token.age \/ m.status.age >= Renewal(v))
    /\ s.there /\ s.token.age > 0 => Known(m.status) /\ m.status.age = s.token.age
    /\ Known(s.note) =>
         s.label /\ s.note.total = v /\ (s.note.age = s.token.age \/ s.note.age >= Renewal(v))
    /\ s.there /\ ~Noted(s) => s.token.age <= late

(* One token is more than half a validity older than the other, and not    *)
(* much more, or it was renewed since.                                     *)
Apart(a, b, v, most) ==
    \/ b + Half(v) < a /\ a <= b + most
    \/ b + Half(v) < a + Renewal(v) /\ a + Renewal(v) <= b + most

(* The secret of the initial account, the pair and its secret: before the  *)
(* pair is generated, until its token is issued, and after.                *)
PairAt(i, m, s, v, g, late, prepared) ==
    /\ m.there => Known(i.note)
    /\ ~m.there /\ i.there => i.token.age <= Half(v) + g + late
    /\ prepared /\ ~m.there /\ i.there => i.token.age <= Half(v) + late
    /\ m.there /\ ~s.there => Half(v) < i.token.age /\ i.token.age <= Half(v) + MaxGap + late
    /\ s.there => Apart(i.token.age, s.token.age, v, Half(v) + MaxGap + late)
    /\ s.there /\ ~Noted(s) /\ 0 < s.token.age /\ s.token.age < i.token.age =>
         i.token.age <= Half(v) + MaxGap + g + late

AccountsInv == \A k \in Keys : AccountAt(msa[k], secret[k], spec.tokenValidity, gap + Late(faults))

PairsInv ==
    \A c \in Clusters :
        PairAt(secret[<<c, "initial">>], msa[<<c, "pair">>], secret[<<c, "pair">>],
               spec.tokenValidity, gap, Late(faults), pc = "prepare" /\ c \notin todo)

(* The clusters of Hive import themselves.                                 *)
HiveInv == todo \cap Hive = {} /\ \A c \in Hive : \A n \in Names : ~msa[<<c, n>>].there

Rotating == AccountsInv /\ PairsInv /\ HiveInv

(* When the accounts are being removed.                                    *)
SwitchInv ==
    /\ EnabledInv
    /\ "cleanup" \in Faults /\ ~spec.useMSA => acts >= MaxActs
    /\ "cleanup" \in Faults /\ pc = "cleanup" => ~spec.useMSA
    /\ pc = "done" => ~crd

(* A clean-up lost some account, and none will be used again; what token   *)
(* it is issued goes with the next clean-up.                               *)
Off ==
    /\ ~spec.useMSA /\ pc # "prepare" /\ acts >= MaxActs
    /\ \A k \in Keys : msa[k].there =>
         ~secret[k].label /\ (secret[k].there => secret[k].token.age <= gap)

RotationInv == SwitchInv /\ (~edited /\ ~disabled /\ crd => Off \/ Rotating)

-----------------------------------------------------------------------------
(* Arithmetic.                                                             *)

LEMMA LateStep ==
    /\ \A f \in Nat : Late(f) \in Nat /\ Late(f + 1) = Late(f) + MaxGap
    /\ \A e, f \in Nat : e <= f => Late(e) <= Late(f)
<1>1. MaxGap \in Nat
  BY MSAAssumption
<1>2. \A f \in Nat : Late(f) \in Nat /\ Late(f + 1) = Late(f) + MaxGap
  BY <1>1, SMTT(30) DEF Late
<1>3. ASSUME NEW e \in Nat, NEW f \in Nat, e <= f PROVE Late(e) <= Late(f)
  <2>1. (f - e) * MaxGap >= 0 /\ f * MaxGap = e * MaxGap + (f - e) * MaxGap
    BY <1>1, <1>3, SMTT(30)
  <2>2. f * MaxGap \in Nat /\ e * MaxGap \in Nat /\ (f - e) * MaxGap \in Nat
    BY <1>1, <1>3, <2>1, SMTT(30)
  <2> QED
    BY <2>1, <2>2 DEF Late
<1> QED
  BY <1>2, <1>3

(* Half and fourth fifth of a validity, and the window between them.       *)
LEMMA ValidityParts ==
    ASSUME NEW v \in Validities, RotationLaw
    PROVE  /\ v \in Nat /\ Half(v) \in Nat /\ Renewal(v) \in Nat
           /\ 2 * Half(v) <= v /\ v <= 2 * Half(v) + 1
           /\ Renewal(v) <= v /\ Half(v) + Window < Renewal(v) /\ Window <= Half(v)
           /\ \A a \in Nat : (v - a) * 5 <= v <=> a >= Renewal(v)
<1>1. v \in Nat /\ Window \in Nat /\ v > 2 * Window
  BY MSAAssumption, MaxType
<1>2. Half(v) \in Nat /\ 2 * Half(v) <= v /\ v <= 2 * Half(v) + 1
  BY <1>1 DEF Half
<1>3. Window <= Half(v)
  BY <1>1, <1>2
<1>4. Renewal(v) \in Nat /\ Renewal(v) <= v
  BY <1>1 DEF Renewal
<1>5. \A a \in Nat : (v - a) * 5 <= v <=> a >= Renewal(v)
  BY <1>1 DEF Renewal
<1>6. Half(v) + Window < Renewal(v)
  BY DEF RotationLaw
<1> QED
  BY <1>1, <1>2, <1>3, <1>4, <1>5, <1>6

(* How late passes can be, in all.                                         *)
LEMMA Bounds ==
    ASSUME RotationLaw, gap \in 0..MaxGap, faults \in 0..MaxFaults
    PROVE  /\ gap \in Nat /\ faults \in Nat /\ MaxGap \in Nat /\ Window \in Nat /\ Slack \in Nat
           /\ gap <= MaxGap /\ Late(faults) \in Nat /\ MaxGap + Late(faults) <= Window
           /\ 2 * MaxGap + Late(faults) < Slack
<1>1. {MaxGap, Window, Slack, MaxFaults} \subseteq Nat
  BY MSAAssumption
<1>2. gap \in Nat /\ faults \in Nat /\ gap <= MaxGap /\ faults <= MaxFaults
  BY <1>1
<1>3. Late(faults) \in Nat /\ Late(MaxFaults) \in Nat /\ Late(faults) <= Late(MaxFaults)
  BY <1>1, <1>2, LateStep
<1>4. MaxGap + Late(MaxFaults) <= Window /\ 2 * MaxGap + Late(MaxFaults) < Slack
  BY DEF RotationLaw
<1> QED
  BY <1>1, <1>2, <1>3, <1>4

-----------------------------------------------------------------------------
(* What a restore finds.                                                   *)

LEMMA SecretParts ==
    ASSUME NEW s \in Secrets
    PROVE  /\ s.there \in BOOLEAN /\ s.label \in BOOLEAN
           /\ s.token \in Tokens /\ s.note \in Tokens
           /\ s.token.age \in Nat /\ s.note.age \in Nat /\ s.token.total \in Nat /\ s.note.total \in Nat
<1>1. s.token \in Tokens /\ s.note \in Tokens /\ s.there \in BOOLEAN /\ s.label \in BOOLEAN
  BY DEF Secrets
<1> QED
  BY <1>1, TokenParts

(* Before the pair's token is in the backup the first one is little older  *)
(* than half its validity.                                                 *)
LEMMA FirstAlone ==
    ASSUME NEW i \in Secrets, NEW m \in Accounts, NEW s \in Secrets, NEW v \in Validities,
           RotationLaw, gap \in 0..MaxGap, faults \in 0..MaxFaults,
           AccountAt(m, s, v, gap + Late(faults)), NEW p,
           PairAt(i, m, s, v, gap, Late(faults), p),
           i.there, ~s.label
    PROVE  i.token.age <= Half(v) + 2 * MaxGap + Late(faults)
<1> DEFINE a == i.token.age
           b == s.token.age
           h == Half(v)
           r == Renewal(v)
           l == Late(faults)
<1>1. a \in Nat /\ b \in Nat
  BY SecretParts
<1>2. h \in Nat /\ r \in Nat /\ h + Window < r /\ Window <= h
  BY ValidityParts
<1>3. /\ gap \in Nat /\ MaxGap \in Nat /\ Window \in Nat /\ gap <= MaxGap /\ l \in Nat
      /\ MaxGap + l <= Window
  BY Bounds
<1>4. CASE ~m.there
  <2>1. a <= h + gap + l
    BY <1>4 DEF PairAt
  <2> HIDE DEF a, b, h, r, l
  <2>2. a <= h + 2 * MaxGap + l
    BY <1>1, <1>2, <1>3, <2>1
  <2> QED
    BY <2>2 DEF a, h, l
<1>5. CASE m.there /\ ~s.there
  <2>1. a <= h + MaxGap + l
    BY <1>5 DEF PairAt
  <2> HIDE DEF a, b, h, r, l
  <2>2. a <= h + 2 * MaxGap + l
    BY <1>1, <1>2, <1>3, <2>1
  <2> QED
    BY <2>2 DEF a, h, l
<1>6. CASE s.there
  <2>1. /\ \/ b + h < a /\ a <= b + (h + MaxGap + l)
           \/ b + h < a + r /\ a + r <= b + (h + MaxGap + l)
        /\ 0 < b /\ b < a => a <= h + MaxGap + gap + l
        /\ b <= gap + l
    BY <1>6 DEF PairAt, AccountAt, Noted, Apart
  <2> HIDE DEF a, b, h, r, l
  <2>2. a <= h + 2 * MaxGap + l
    BY <1>1, <1>2, <1>3, <2>1
  <2> QED
    BY <2>2 DEF a, h, l
<1> QED
  BY <1>4, <1>5, <1>6

(* With both tokens in the backup, one that is annotated has half its      *)
(* validity left, but for the slack, or both are new.                      *)
LEMMA BothBacked ==
    ASSUME NEW n \in Accounts, NEW i \in Secrets, NEW m \in Accounts, NEW s \in Secrets,
           NEW v \in Validities,
           RotationLaw, gap \in 0..MaxGap, faults \in 0..MaxFaults,
           AccountAt(n, i, v, gap + Late(faults)), AccountAt(m, s, v, gap + Late(faults)), NEW p,
           PairAt(i, m, s, v, gap, Late(faults), p),
           i.there, s.there
    PROVE  LET most == Half(v) + 2 * MaxGap + Late(faults)
           IN  \/ Noted(i) /\ i.token.age <= most
               \/ Noted(s) /\ s.token.age <= most
               \/ i.token.age <= most /\ s.token.age <= most
<1> DEFINE a == i.token.age
           b == s.token.age
           h == Half(v)
           r == Renewal(v)
           l == Late(faults)
<1>1. a \in Nat /\ b \in Nat
  BY SecretParts
<1>2. h \in Nat /\ r \in Nat /\ h + Window < r /\ Window <= h /\ r <= v /\ v \in Nat /\ v <= 2 * h + 1
  BY ValidityParts
<1>3. /\ gap \in Nat /\ MaxGap \in Nat /\ Window \in Nat /\ gap <= MaxGap /\ l \in Nat
      /\ MaxGap + l <= Window
  BY Bounds
<1>4. /\ \/ b + h < a /\ a <= b + (h + MaxGap + l)
         \/ b + h < a + r /\ a + r <= b + (h + MaxGap + l)
      /\ ~Noted(s) /\ 0 < b /\ b < a => a <= h + MaxGap + gap + l
      /\ ~Noted(s) => b <= gap + l
      /\ ~Noted(i) => a <= gap + l
      /\ a <= r /\ b <= r
  BY DEF PairAt, AccountAt, Apart
<1> HIDE DEF a, b, h, r, l
<1>5. CASE Noted(i) /\ Noted(s)
  <2>1. a <= h + 2 * MaxGap + l \/ b <= h + 2 * MaxGap + l
    BY <1>1, <1>2, <1>3, <1>4
  <2> QED
    BY <1>5, <2>1 DEF a, b, h, l
<1>6. CASE Noted(i) /\ ~Noted(s)
  <2>1. a <= h + 2 * MaxGap + l
    BY <1>1, <1>2, <1>3, <1>4, <1>6
  <2> QED
    BY <1>6, <2>1 DEF a, b, h, l
<1>7. CASE ~Noted(i) /\ Noted(s)
  <2>1. b <= h + 2 * MaxGap + l
    BY <1>1, <1>2, <1>3, <1>4, <1>7
  <2> QED
    BY <1>7, <2>1 DEF a, b, h, l
<1>8. CASE ~Noted(i) /\ ~Noted(s)
  <2>1. a <= h + 2 * MaxGap + l /\ b <= h + 2 * MaxGap + l
    BY <1>1, <1>2, <1>3, <1>4, <1>8
  <2> QED
    BY <2>1 DEF a, b, h, l
<1> QED
  BY <1>5, <1>6, <1>7, <1>8

(* A token that is no older than that outlives every backup.               *)
LEMMA YoungEnough ==
    ASSUME NEW v \in Validities, NEW d \in 0..(Half(v) - Slack), NEW t \in Tokens, t.total = v,
           RotationLaw, gap \in 0..MaxGap, faults \in 0..MaxFaults,
           t.age <= Half(v) + 2 * MaxGap + Late(faults)
    PROVE  Left(t) > d
<1>1. Left(t) = v - t.age /\ t.age \in Nat
  BY TokenParts
<1>2. v \in Nat /\ Half(v) \in Nat /\ 2 * Half(v) <= v
  BY ValidityParts
<1>3. MaxGap \in Nat /\ Slack \in Nat /\ Late(faults) \in Nat /\ 2 * MaxGap + Late(faults) < Slack
  BY Bounds
<1>4. d \in Int /\ d <= Half(v) - Slack
  BY <1>2, <1>3
<1> QED
  BY <1>1, <1>2, <1>3, <1>4

(* A token lasts as long as its annotations say.                           *)
LEMMA NoteSound ==
    ASSUME NEW m, NEW s \in Secrets, NEW v \in Validities, NEW late, RotationLaw,
           AccountAt(m, s, v, late), s.there, NEW d \in Nat, Left(s.note) > d
    PROVE  Left(s.token) > d
<1>1. s.token \in Tokens /\ s.note \in Tokens
  BY SecretParts
<1>2. /\ Left(s.note) = s.note.total - s.note.age /\ s.note.age \in Nat /\ s.note.total \in Nat
      /\ Left(s.token) = s.token.total - s.token.age /\ s.token.age \in Nat /\ s.token.total \in Nat
  BY <1>1, TokenParts
<1>3. Known(s.note)
  BY <1>2 DEF Known
<1>4. /\ s.note.total = v /\ s.token.total = v /\ s.token.age <= Renewal(v)
      /\ s.note.age = s.token.age \/ s.note.age >= Renewal(v)
  BY <1>3 DEF AccountAt
<1>5. Renewal(v) \in Nat /\ v \in Nat
  BY ValidityParts
<1> QED
  BY <1>2, <1>4, <1>5

LEMMA KeysOf == \A c \in Clusters : \A n \in Names : <<c, n>> \in Keys
BY DEF Keys

LEMMA TwoBackedCount ==
    ASSUME NEW c, "initial" \in Backed(c), "pair" \in Backed(c)
    PROVE  Cardinality(Backed(c)) > 1
<1>1. Backed(c) = {"initial", "pair"}
  BY DEF Backed, Names
<1>2. IsFiniteSet({"initial"}) /\ Cardinality({"initial"}) = 1
  BY FS_Singleton
<1>3. Cardinality({"initial"} \cup {"pair"}) = Cardinality({"initial"}) + 1
  BY <1>2, FS_AddElement
<1>4. {"initial"} \cup {"pair"} = {"initial", "pair"}
  OBVIOUS
<1> QED
  BY <1>1, <1>2, <1>3, <1>4

LEMMA RotatingFinds ==
    ASSUME TypeOK, RotationLaw, Rotating, NEW c \in Clusters,
           NEW d \in 0..(Half(spec.tokenValidity) - Slack), NEW n \in selectValidMSASecret(c, d)
    PROVE  Left(secret[<<c, n>>].token) > d
<1> DEFINE k == <<c, "initial">>
           q == <<c, "pair">>
           v == spec.tokenValidity
<1>1. k \in Keys /\ q \in Keys
  BY KeysOf DEF Names
<1>2. /\ secret[k] \in Secrets /\ secret[q] \in Secrets /\ msa[k] \in Accounts /\ msa[q] \in Accounts
      /\ v \in Validities /\ gap \in 0..MaxGap /\ faults \in 0..MaxFaults
  BY <1>1 DEF TypeOK
<1>3. AccountAt(msa[k], secret[k], v, gap + Late(faults)) /\ AccountAt(msa[q], secret[q], v, gap + Late(faults))
  BY <1>1 DEF Rotating, AccountsInv
<1>4. PairAt(secret[k], msa[q], secret[q], v, gap, Late(faults), pc = "prepare" /\ c \notin todo)
  BY DEF Rotating, PairsInv
<1>5. d \in Nat
  <2>1. Half(v) \in Nat /\ Slack \in Nat
    BY <1>2, ValidityParts, MSAAssumption
  <2> QED
    BY <2>1
<1>6. n \in Backed(c) /\ n \in Names /\ secret[<<c, n>>].there /\ secret[<<c, n>>].label
  BY DEF selectValidMSASecret, Backed
<1> HIDE DEF k, q, v
<1>7. secret[q].there => secret[k].there /\ secret[k].label
  BY <1>3, <1>4 DEF AccountAt, PairAt
<1>8. "initial" \in Backed(c) <=> secret[k].there /\ secret[k].label
  BY DEF Backed, Names, k
<1>9. "pair" \in Backed(c) <=> secret[q].there /\ secret[q].label
  BY DEF Backed, Names, q
<1>10. n = "initial" \/ n = "pair"
  BY <1>6 DEF Names
<1>11. /\ secret[k].token \in Tokens /\ secret[q].token \in Tokens
       /\ secret[k].there => secret[k].token.total = v
       /\ secret[q].there => secret[q].token.total = v
  BY <1>2, <1>3, SecretParts DEF AccountAt
<1> DEFINE most == Half(v) + 2 * MaxGap + Late(faults)
<1>12. ASSUME NEW t \in Tokens, t.total = v, t.age <= most PROVE Left(t) > d
  BY <1>2, <1>12, YoungEnough DEF v
<1>13. CASE ~secret[q].label
  <2>1. n = "initial"
    BY <1>6, <1>9, <1>10, <1>13
  <2>2. secret[k].there
    BY <1>6, <2>1 DEF k
  <2>3. secret[k].token.age <= most
    BY <1>2, <1>3, <1>4, <1>13, <2>2, FirstAlone
  <2>4. Left(secret[k].token) > d
    BY <1>11, <1>12, <2>2, <2>3
  <2> QED
    BY <2>1, <2>4 DEF k
<1>14. CASE secret[q].label
  <2>1. secret[q].there /\ secret[k].there /\ secret[k].label
    BY <1>2, <1>3, <1>7, <1>14 DEF AccountAt
  <2>2. Cardinality(Backed(c)) > 1
    BY <1>8, <1>9, <1>14, <2>1, TwoBackedCount
  <2>3. CASE Left(secret[<<c, n>>].note) > d
    <3>1. CASE n = "initial"
      BY <1>2, <1>3, <1>5, <2>1, <2>3, <3>1, NoteSound DEF k
    <3>2. CASE n = "pair"
      BY <1>2, <1>3, <1>5, <2>1, <2>3, <3>2, NoteSound DEF q
    <3> QED
      BY <1>10, <3>1, <3>2
  <2>4. CASE \A o \in Backed(c) : ~(Left(secret[<<c, o>>].note) > d)
    <3>1. ~(Left(secret[k].note) > d) /\ ~(Left(secret[q].note) > d)
      BY <1>8, <1>9, <1>14, <2>1, <2>4 DEF k, q
    <3>2. \/ Noted(secret[k]) /\ secret[k].token.age <= most
          \/ Noted(secret[q]) /\ secret[q].token.age <= most
          \/ secret[k].token.age <= most /\ secret[q].token.age <= most
      BY <1>2, <1>3, <1>4, <2>1, BothBacked
    <3> HIDE DEF most
    <3>3. Noted(secret[k]) /\ secret[k].token.age <= most => Left(secret[k].note) > d
      <4>1. Noted(secret[k]) => secret[k].note.total = v /\ secret[k].note.age = secret[k].token.age
        BY <1>3 DEF Noted, AccountAt
      <4> QED
        BY <1>2, <1>12, <4>1, SecretParts
    <3>4. Noted(secret[q]) /\ secret[q].token.age <= most => Left(secret[q].note) > d
      <4>1. Noted(secret[q]) => secret[q].note.total = v /\ secret[q].note.age = secret[q].token.age
        BY <1>3 DEF Noted, AccountAt
      <4> QED
        BY <1>2, <1>12, <4>1, SecretParts
    <3>5. secret[k].token.age <= most /\ secret[q].token.age <= most
      BY <3>1, <3>2, <3>3, <3>4
    <3>6. Left(secret[k].token) > d /\ Left(secret[q].token) > d
      BY <1>11, <1>12, <2>1, <3>5
    <3> QED
      BY <1>10, <3>6 DEF k, q
  <2> QED
    BY <2>2, <2>3, <2>4 DEF selectValidMSASecret
<1> QED
  BY <1>13, <1>14

(* A token as old as that was annotated, and so it is in the backup.       *)
LEMMA RotatingBacks ==
    ASSUME TypeOK, RotationLaw, Rotating, NEW c \in Clusters, Aged(c)
    PROVE  Backed(c) # {}
<1>1. PICK n \in Names : secret[<<c, n>>].there /\ secret[<<c, n>>].token.age >= Slack
  BY DEF Aged
<1>2. <<c, n>> \in Keys
  BY KeysOf
<1>3. AccountAt(msa[<<c, n>>], secret[<<c, n>>], spec.tokenValidity, gap + Late(faults))
      /\ secret[<<c, n>>] \in Secrets /\ gap \in 0..MaxGap /\ faults \in 0..MaxFaults
  BY <1>2 DEF TypeOK, Rotating, AccountsInv
<1>4. gap + Late(faults) < Slack /\ gap + Late(faults) \in Nat /\ Slack \in Nat
  BY <1>3, Bounds
<1>5. secret[<<c, n>>].token.age \in Nat
  BY <1>3, SecretParts
<1>6. Noted(secret[<<c, n>>])
  BY <1>1, <1>3, <1>4, <1>5 DEF AccountAt
<1> QED
  BY <1>1, <1>6 DEF Backed, Noted

(* Accounts that are not used have no old token.                           *)
LEMMA OffBacks ==
    ASSUME TypeOK, RotationLaw, RotationInv, ~crd \/ Off, NEW c \in Clusters, Steady(c)
    PROVE  ~Aged(c) /\ Backed(c) = {}
<1>1. ASSUME NEW n \in Names, secret[<<c, n>>].there
      PROVE  ~(secret[<<c, n>>].token.age >= Slack) /\ ~secret[<<c, n>>].label
  <2>1. <<c, n>> \in Keys
    BY KeysOf
  <2>2. msa[<<c, n>>].there
    BY <1>1 DEF Steady
  <2>3. crd
    BY <2>1, <2>2 DEF RotationInv, SwitchInv, EnabledInv
  <2>4. secret[<<c, n>>].token.age <= gap /\ ~secret[<<c, n>>].label
    BY <1>1, <2>1, <2>2, <2>3 DEF Off
  <2>5. gap \in 0..MaxGap /\ faults \in 0..MaxFaults /\ secret[<<c, n>>] \in Secrets
    BY <2>1 DEF TypeOK
  <2>6. gap \in Nat /\ Slack \in Nat /\ gap < Slack
    BY <2>5, Bounds
  <2>7. secret[<<c, n>>].token.age \in Nat
    BY <2>5, SecretParts
  <2> QED
    BY <2>4, <2>6, <2>7
<1> QED
  BY <1>1 DEF Aged, Backed

LEMMA RotationFinds ==
    ASSUME TypeOK, RotationLaw, RotationInv
    PROVE  RestoreFindsToken
<1> SUFFICES ASSUME NEW c \in Clusters, Steady(c), ~edited, ~disabled
             PROVE  /\ Aged(c) => Backed(c) # {}
                    /\ \A d \in 0..(spec.tokenValidity \div 2 - Slack) :
                         \A n \in selectValidMSASecret(c, d) : Left(secret[<<c, n>>].token) > d
  BY DEF RestoreFindsToken
<1>1. CASE ~crd \/ Off
  <2>1. ~Aged(c) /\ Backed(c) = {}
    BY <1>1, OffBacks
  <2>2. \A d : selectValidMSASecret(c, d) \subseteq Backed(c)
    BY DEF selectValidMSASecret
  <2> QED
    BY <2>1, <2>2
<1>2. CASE crd /\ ~Off
  <2>1. Rotating
    BY <1>2 DEF RotationInv
  <2> QED
    BY <2>1, RotatingBacks, RotatingFinds DEF Half
<1> QED
  BY <1>1, <1>2

-----------------------------------------------------------------------------
(* What the steps do to an account and its secret.                         *)

LEMMA AccountParts ==
    ASSUME NEW m \in Accounts
    PROVE  /\ m.there \in BOOLEAN /\ m.issued \in BOOLEAN /\ m.status \in Tokens
           /\ m.status.age \in Nat /\ m.status.total \in Nat
<1>1. m.there \in BOOLEAN /\ m.issued \in BOOLEAN /\ m.status \in Tokens
  BY DEF Accounts
<1> QED
  BY <1>1, TokenParts

LEMMA OlderAge ==
    ASSUME NEW t \in Tokens
    PROVE  /\ Older(t).total = t.total /\ (Known(Older(t)) <=> Known(t))
           /\ Older(t).age = IF t.age < t.total THEN t.age + 1 ELSE t.age
<1>1. Older(t).total = t.total
  BY OlderType
<1>2. CASE t.age < t.total
  BY <1>1, <1>2 DEF Older, Tokens, Known
<1>3. CASE ~(t.age < t.total)
  BY <1>1, <1>3 DEF Older, Known
<1> QED
  BY <1>2, <1>3

LEMMA AccountLater ==
    ASSUME NEW m, NEW s \in Secrets, NEW v, NEW x \in Nat, NEW y \in Nat, x <= y, AccountAt(m, s, v, x)
    PROVE  AccountAt(m, s, v, y)
<1>1. s.there /\ ~Noted(s) => s.token.age <= y
  BY SecretParts DEF AccountAt
<1> QED
  BY <1>1 DEF AccountAt

LEMMA AccountMade ==
    ASSUME NEW m, NEW s, NEW v, NEW l, AccountAt(m, s, v, l), ~m.there,
           v = spec.tokenValidity, NEW t, t = s \/ t = NoSecret
    PROVE  AccountAt(Fresh, t, v, l)
<1>1. ~t.there /\ ~t.label /\ ~Known(t.note)
  BY DEF AccountAt, NoSecret, Known, NoToken
<1>2. Fresh.validity = v
  BY DEF Fresh
<1> QED
  BY <1>1, <1>2, NothingKnown DEF AccountAt

(* A token is issued to an account without one, or at the age of renewal.  *)
LEMMA DueAge ==
    ASSUME RotationLaw, component, NEW v \in Validities, NEW k \in Keys, NEW l,
           msa[k] \in Accounts, secret[k] \in Secrets, AccountAt(msa[k], secret[k], v, l)
    PROVE  /\ Due(k) => msa[k].there /\ (secret[k].there => secret[k].token.age = Renewal(v))
           /\ msa[k].there /\ ~Due(k) => secret[k].there /\ secret[k].token.age < Renewal(v)
<1>1. secret[k].there => secret[k].token.total = v /\ secret[k].token.age <= Renewal(v)
  BY DEF AccountAt
<1>2. secret[k].token.age \in Nat /\ secret[k].token.total \in Nat
  BY SecretParts
<1>3. Renewal(v) \in Nat /\ v \in Nat /\ \A a \in Nat : (v - a) * 5 <= v <=> a >= Renewal(v)
  BY ValidityParts
<1>4. secret[k].there <=> msa[k].there /\ msa[k].issued
  BY DEF AccountAt
<1>5. ASSUME secret[k].there
      PROVE  Left(secret[k].token) * 5 <= secret[k].token.total <=> secret[k].token.age >= Renewal(v)
  BY <1>1, <1>2, <1>3, <1>5 DEF Left
<1>6. ASSUME secret[k].there PROVE Due(k) <=> secret[k].token.age >= Renewal(v)
  BY <1>4, <1>5, <1>6 DEF Due
<1>7. ~secret[k].there => (Due(k) <=> msa[k].there)
  BY DEF Due
<1> QED
  BY <1>1, <1>2, <1>3, <1>4, <1>6, <1>7 DEF Due

LEMMA AccountIssued ==
    ASSUME RotationLaw, NEW v \in Validities, NEW l \in Nat,
           NEW m \in Accounts, NEW s \in Secrets, NEW n \in Accounts, NEW t \in Secrets,
           AccountAt(m, s, v, l), m.there, s.there => s.token.age = Renewal(v),
           n.there, n.issued, n.validity = m.validity, n.status = m.status,
           t.there, t.token.age = 0, t.token.total = m.validity, t.note = s.note, t.label = s.label
    PROVE  AccountAt(n, t, v, l)
<1>1. Renewal(v) \in Nat
  BY ValidityParts
<1>2. s.note.age \in Nat /\ m.status.age \in Nat
  BY SecretParts, AccountParts
<1>3. /\ m.validity = v
      /\ Known(m.status) => m.status.total = v /\ m.status.age >= Renewal(v)
      /\ Known(s.note) => s.label /\ s.note.total = v /\ s.note.age >= Renewal(v)
  BY <1>1, <1>2 DEF AccountAt
<1> QED
  BY <1>1, <1>3 DEF AccountAt

LEMMA AccountReported ==
    ASSUME RotationLaw, NEW v \in Validities, NEW l,
           NEW m \in Accounts, NEW s \in Secrets, NEW n \in Accounts,
           AccountAt(m, s, v, l), s.there,
           n.there = m.there, n.issued = m.issued, n.validity = m.validity, n.status = s.token
    PROVE  AccountAt(n, s, v, l)
<1>1. s.token.total = v /\ v # 0
  <2>1. v \in Nat /\ Renewal(v) \in Nat /\ Window \in Nat /\ Half(v) \in Nat /\ Renewal(v) <= v
        /\ Half(v) + Window < Renewal(v)
    BY ValidityParts, MSAAssumption
  <2>2. v # 0
    BY <2>1
  <2> QED
    BY <2>2 DEF AccountAt
<1>2. Known(n.status)
  BY <1>1 DEF Known
<1> QED
  BY <1>1, <1>2 DEF AccountAt

(* The secret is annotated with what the status says, unless that fails.   *)
LEMMA AccountNoted ==
    ASSUME RotationLaw, NEW v \in Validities, NEW x \in Nat, NEW y \in Nat,
           NEW m \in Accounts, NEW s \in Secrets, NEW t \in Secrets,
           AccountAt(m, s, v, x),
           \/ t = s /\ (s.there => x <= y)
           \/ /\ s.there /\ t.there /\ t.label /\ t.token = s.token
              /\ t.note = IF m.there /\ Known(m.status) THEN m.status ELSE s.note
    PROVE  AccountAt(m, t, v, y)
<1>1. CASE t = s /\ (s.there => x <= y)
  <2>1. s.there /\ ~Noted(s) => s.token.age <= y
    BY <1>1, SecretParts DEF AccountAt
  <2> QED
    BY <1>1, <2>1 DEF AccountAt
<1>2. CASE /\ s.there /\ t.there /\ t.label /\ t.token = s.token
           /\ t.note = IF m.there /\ Known(m.status) THEN m.status ELSE s.note
  <2>1. m.there /\ m.issued
    BY <1>2 DEF AccountAt
  <2>2. Known(t.note) => t.note.total = v /\ (t.note.age = t.token.age \/ t.note.age >= Renewal(v))
    BY <1>2, <2>1 DEF AccountAt
  <2>3. ~Noted(t) => s.token.age = 0
    <3>1. s.token.age > 0 => Noted(t)
      BY <1>2, <2>1 DEF AccountAt, Noted
    <3> QED
      BY <3>1, SecretParts
  <2>4. t.there /\ ~Noted(t) => t.token.age <= y
    BY <1>2, <2>3
  <2> QED
    BY <1>2, <2>1, <2>2, <2>4 DEF AccountAt
<1> QED
  BY <1>1, <1>2

(* A unit of time.                                                         *)
LEMMA NotedOlder ==
    ASSUME RotationLaw, NEW v \in Validities, NEW l, NEW m \in Accounts, NEW s \in Secrets, NEW t \in Secrets,
           AccountAt(m, s, v, l), s.there, s.token.age < Renewal(v),
           t.token = Older(s.token), t.note = Older(s.note), t.label = s.label
    PROVE  /\ t.token.total = v /\ t.token.age = s.token.age + 1
           /\ Known(t.note) => t.note.total = v /\ (t.note.age = t.token.age \/ t.note.age >= Renewal(v))
           /\ Noted(s) => Noted(t)
<1>1. s.token \in Tokens /\ s.note \in Tokens /\ s.token.age \in Nat /\ s.note.age \in Nat
  BY SecretParts
<1>2. v \in Nat /\ Renewal(v) \in Nat /\ Renewal(v) <= v
  BY ValidityParts
<1>3. s.token.total = v
  BY DEF AccountAt
<1>4. t.token.total = v /\ t.token.age = s.token.age + 1
  BY <1>1, <1>2, <1>3, OlderAge
<1>5. /\ Known(t.note) <=> Known(s.note)
      /\ t.note.total = s.note.total
      /\ t.note.age = IF s.note.age < s.note.total THEN s.note.age + 1 ELSE s.note.age
  BY <1>1, OlderAge
<1>6. Known(s.note) => s.note.total = v /\ (s.note.age = s.token.age \/ s.note.age >= Renewal(v))
  BY DEF AccountAt
<1>7. Known(t.note) => t.note.total = v /\ (t.note.age = t.token.age \/ t.note.age >= Renewal(v))
  BY <1>1, <1>2, <1>4, <1>5, <1>6
<1>8. Noted(s) => Noted(t)
  <2>1. Known(s.note) /\ s.note.age = s.token.age => t.note.age = t.token.age
    BY <1>1, <1>2, <1>4, <1>5, <1>6
  <2> QED
    BY <1>5, <2>1 DEF Noted
<1> QED
  BY <1>4, <1>7, <1>8

LEMMA AccountOlder ==
    ASSUME RotationLaw, NEW v \in Validities, NEW l \in Nat,
           NEW m \in Accounts, NEW s \in Secrets, NEW n \in Accounts, NEW t \in Secrets,
           AccountAt(m, s, v, l), s.there => s.token.age < Renewal(v) /\ m.status = s.token,
           n.there = m.there, n.issued = m.issued, n.validity = m.validity, n.status = Older(m.status),
           t.there = s.there, t.label = s.label, t.token = Older(s.token), t.note = Older(s.note)
    PROVE  AccountAt(n, t, v, l + 1)
<1>1. CASE ~s.there
  <2>1. ~Known(t.note) /\ ~Known(n.status)
    BY <1>1, SecretParts, AccountParts, OlderAge DEF AccountAt
  <2> QED
    BY <1>1, <2>1 DEF AccountAt
<1>2. CASE s.there
  <2>1. /\ t.token.total = v /\ t.token.age = s.token.age + 1
        /\ Known(t.note) => t.note.total = v /\ (t.note.age = t.token.age \/ t.note.age >= Renewal(v))
        /\ Noted(s) => Noted(t)
    BY <1>2, NotedOlder
  <2>2. n.status = t.token /\ Known(n.status)
    <3>1. v # 0
      <4>1. v \in Nat /\ Renewal(v) \in Nat /\ Renewal(v) <= v /\ s.token.age \in Nat
        BY ValidityParts, SecretParts
      <4> QED
        BY <1>2, <4>1
    <3> QED
      BY <1>2, <2>1, <3>1 DEF Known
  <2>3. t.token.age <= Renewal(v)
    <3>1. s.token.age \in Nat /\ Renewal(v) \in Nat
      BY SecretParts, ValidityParts
    <3> QED
      BY <1>2, <2>1, <3>1
  <2>4. ~Noted(t) => t.token.age <= l + 1
    <3>1. ~Noted(s) => s.token.age <= l
      BY <1>2 DEF AccountAt
    <3>2. s.token.age \in Nat
      BY SecretParts
    <3> QED
      BY <2>1, <3>1, <3>2
  <2>5. Known(t.note) => t.label
    BY SecretParts, OlderAge DEF AccountAt
  <2> QED
    BY <1>2, <2>1, <2>2, <2>3, <2>4, <2>5 DEF AccountAt
<1> QED
  BY <1>1, <1>2

-----------------------------------------------------------------------------
(* What the steps do to the two of a cluster.                              *)

LEMMA PairLater ==
    ASSUME RotationLaw, NEW v \in Validities, NEW i \in Secrets, NEW m \in Accounts, NEW s \in Secrets,
           NEW g \in Nat, NEW x \in Nat, NEW y \in Nat, x <= y, NEW p, NEW q,
           PairAt(i, m, s, v, g, x, p), q => p \/ m.there \/ ~i.there
    PROVE  PairAt(i, m, s, v, g, y, q)
<1>1. i.token.age \in Nat /\ s.token.age \in Nat
  BY SecretParts
<1>2. Half(v) \in Nat /\ Renewal(v) \in Nat /\ MaxGap \in Nat
  BY ValidityParts, MSAAssumption
<1>3. ~m.there /\ i.there => i.token.age <= Half(v) + g + y
  BY <1>1, <1>2 DEF PairAt
<1>4. q /\ ~m.there /\ i.there => i.token.age <= Half(v) + y
  BY <1>1, <1>2 DEF PairAt
<1>5. m.there /\ ~s.there => Half(v) < i.token.age /\ i.token.age <= Half(v) + MaxGap + y
  BY <1>1, <1>2 DEF PairAt
<1>6. s.there => Apart(i.token.age, s.token.age, v, Half(v) + MaxGap + y)
  BY <1>1, <1>2 DEF PairAt, Apart
<1>7. s.there /\ ~Noted(s) /\ 0 < s.token.age /\ s.token.age < i.token.age =>
        i.token.age <= Half(v) + MaxGap + g + y
  BY <1>1, <1>2 DEF PairAt
<1> QED
  BY <1>3, <1>4, <1>5, <1>6, <1>7 DEF PairAt

(* Without the pair only the age of the first token matters.               *)
LEMMA PairAbsent ==
    ASSUME NEW i, NEW m, NEW s, NEW v, NEW g, NEW l, NEW p, ~m.there, ~s.there,
           i.there => i.token.age <= Half(v) + g + l /\ i.token.age <= Half(v) + l
    PROVE  PairAt(i, m, s, v, g, l, p)
BY DEF PairAt

(* The first token is renewed.                                             *)
LEMMA FirstIssued ==
    ASSUME RotationLaw, NEW v \in Validities, gap \in 0..MaxGap, faults \in 0..MaxFaults,
           NEW n, NEW i \in Secrets, NEW m \in Accounts, NEW s \in Secrets, NEW j \in Secrets, NEW p,
           AccountAt(n, i, v, gap + Late(faults)), AccountAt(m, s, v, gap + Late(faults)),
           PairAt(i, m, s, v, gap, Late(faults), p),
           i.there => i.token.age = Renewal(v),
           j.there, j.note = i.note, j.token.age = 0
    PROVE  PairAt(j, m, s, v, gap, Late(faults), p)
<1> DEFINE a == i.token.age
           b == s.token.age
           h == Half(v)
           r == Renewal(v)
           l == Late(faults)
<1>1. a \in Nat /\ b \in Nat
  BY SecretParts
<1>2. h \in Nat /\ r \in Nat /\ h + Window < r
  BY ValidityParts
<1>3. gap \in Nat /\ MaxGap \in Nat /\ Window \in Nat /\ l \in Nat /\ MaxGap + l <= Window
  BY Bounds
<1>4. CASE ~m.there
  <2>1. ~s.there
    BY <1>4 DEF AccountAt
  <2>2. 0 <= h + gap + l /\ 0 <= h + l
    BY <1>2, <1>3
  <2> QED
    BY <1>4, <2>1, <2>2, PairAbsent
<1>5. CASE m.there
  <2>1. Known(i.note) /\ a = r
    BY <1>5 DEF PairAt, AccountAt
  <2>2. s.there
    <3>1. ~s.there => a <= h + MaxGap + l
      BY <1>5 DEF PairAt
    <3> HIDE DEF a, b, h, r, l
    <3>2. ~(a <= h + MaxGap + l)
      BY <1>1, <1>2, <1>3, <2>1
    <3> QED
      BY <3>1, <3>2
  <2>3. b + h < 0 + r /\ 0 + r <= b + (h + MaxGap + l)
    <3>1. /\ \/ b + h < a /\ a <= b + (h + MaxGap + l)
             \/ b + h < a + r /\ a + r <= b + (h + MaxGap + l)
          /\ b <= r
      BY <2>2 DEF PairAt, Apart, AccountAt
    <3> HIDE DEF a, b, h, r, l
    <3> QED
      BY <1>1, <1>2, <1>3, <2>1, <3>1
  <2>4. Apart(j.token.age, s.token.age, v, Half(v) + MaxGap + Late(faults))
    BY <2>3 DEF Apart
  <2>5. ~(s.token.age < j.token.age)
    BY <1>1
  <2> QED
    BY <1>5, <2>1, <2>2, <2>4, <2>5 DEF PairAt
<1> QED
  BY <1>4, <1>5

(* The pair's token is issued, or renewed.                                 *)
LEMMA PairIssued ==
    ASSUME RotationLaw, NEW v \in Validities, gap \in 0..MaxGap, faults \in 0..MaxFaults,
           NEW n, NEW i \in Secrets, NEW m \in Accounts, NEW s \in Secrets,
           NEW m2 \in Accounts, NEW s2 \in Secrets, NEW p,
           AccountAt(n, i, v, gap + Late(faults)), AccountAt(m, s, v, gap + Late(faults)),
           PairAt(i, m, s, v, gap, Late(faults), p),
           m.there, s.there => s.token.age = Renewal(v),
           m2.there, s2.there, s2.token.age = 0
    PROVE  PairAt(i, m2, s2, v, gap, Late(faults), p)
<1> DEFINE a == i.token.age
           b == s.token.age
           h == Half(v)
           r == Renewal(v)
           l == Late(faults)
<1>1. a \in Nat /\ b \in Nat
  BY SecretParts
<1>2. h \in Nat /\ r \in Nat /\ h + Window < r
  BY ValidityParts
<1>3. gap \in Nat /\ MaxGap \in Nat /\ Window \in Nat /\ l \in Nat /\ MaxGap + l <= Window
  BY Bounds
<1>4. Known(i.note) /\ i.there /\ a <= r
  BY DEF PairAt, AccountAt
<1>5. 0 + h < a /\ a <= 0 + (h + MaxGap + l)
  <2>1. CASE ~s.there
    <3>1. h < a /\ a <= h + MaxGap + l
      BY <2>1 DEF PairAt
    <3> HIDE DEF a, b, h, r, l
    <3> QED
      BY <1>1, <1>2, <1>3, <3>1
  <2>2. CASE s.there
    <3>1. /\ \/ b + h < a /\ a <= b + (h + MaxGap + l)
             \/ b + h < a + r /\ a + r <= b + (h + MaxGap + l)
          /\ b = r
      BY <2>2 DEF PairAt, Apart
    <3> HIDE DEF a, b, h, r, l
    <3> QED
      BY <1>1, <1>2, <1>3, <1>4, <3>1
  <2> QED
    BY <2>1, <2>2
<1>6. Apart(i.token.age, s2.token.age, v, Half(v) + MaxGap + Late(faults))
  BY <1>5 DEF Apart
<1> QED
  BY <1>4, <1>6 DEF PairAt

(* A pass has annotated the secrets: the ages of the tokens, but for one   *)
(* more delay, are those before it.                                        *)
LEMMA PairNoted ==
    ASSUME RotationLaw, NEW v \in Validities, NEW i \in Secrets, NEW m \in Accounts, NEW s \in Secrets,
           NEW j \in Secrets, NEW t \in Secrets, NEW g \in Nat, g <= MaxGap,
           NEW x \in Nat, NEW y \in Nat, x <= y, NEW q,
           NEW l, AccountAt(m, s, v, l),
           PairAt(i, m, s, v, g, x, TRUE),
           j.there = i.there, j.token = i.token, Known(i.note) => Known(j.note),
           t.there = s.there, t.token = s.token,
           \/ t = s /\ (s.there => x + MaxGap <= y)
           \/ t.label /\ t.note = IF m.there /\ Known(m.status) THEN m.status ELSE s.note
    PROVE  PairAt(j, m, t, v, 0, y, q)
<1> DEFINE a == i.token.age
           b == s.token.age
           h == Half(v)
<1>1. a \in Nat /\ b \in Nat
  BY SecretParts
<1>2. h \in Nat /\ Renewal(v) \in Nat /\ MaxGap \in Nat
  BY ValidityParts, MSAAssumption
<1>3. m.there => Known(j.note)
  BY DEF PairAt
<1>4. ~m.there /\ j.there => j.token.age <= Half(v) + 0 + y /\ j.token.age <= Half(v) + y
  <2>1. ~m.there /\ i.there => a <= h + x
    BY DEF PairAt
  <2> HIDE DEF a, b, h
  <2>2. a <= h + x => a <= h + 0 + y /\ a <= h + y
    BY <1>1, <1>2
  <2> QED
    BY <2>1, <2>2 DEF a, h
<1>5. m.there /\ ~t.there => Half(v) < j.token.age /\ j.token.age <= Half(v) + MaxGap + y
  BY <1>1, <1>2 DEF PairAt
<1>6. t.there => Apart(j.token.age, t.token.age, v, Half(v) + MaxGap + y)
  BY <1>1, <1>2 DEF PairAt, Apart
<1>7. t.there /\ ~Noted(t) /\ 0 < t.token.age /\ t.token.age < j.token.age =>
        j.token.age <= Half(v) + MaxGap + 0 + y
  <2> SUFFICES ASSUME s.there, ~Noted(t), 0 < b, b < a PROVE a <= h + MaxGap + 0 + y
    OBVIOUS
  <2>1. m.there /\ Known(m.status) /\ m.status.age = b
    BY DEF AccountAt
  <2>2. t = s /\ x + MaxGap <= y
    BY <2>1 DEF Noted
  <2>3. a <= h + MaxGap + g + x
    BY <2>2 DEF PairAt
  <2> HIDE DEF a, b, h
  <2> QED
    BY <1>1, <1>2, <2>2, <2>3
<1> QED
  BY <1>3, <1>4, <1>5, <1>6, <1>7 DEF PairAt

(* A unit of time.                                                         *)
LEMMA PairOlder ==
    ASSUME RotationLaw, NEW v \in Validities, gap \in 0..MaxGap, faults \in 0..MaxFaults,
           NEW n \in Accounts, NEW i \in Secrets, NEW m \in Accounts, NEW s \in Secrets,
           NEW j \in Secrets, NEW m2 \in Accounts, NEW t \in Secrets, NEW p,
           AccountAt(n, i, v, gap + Late(faults)), AccountAt(m, s, v, gap + Late(faults)),
           PairAt(i, m, s, v, gap, Late(faults), p),
           i.there => i.token.age < Renewal(v), m.there => s.there /\ s.token.age < Renewal(v),
           j.there = i.there, j.label = i.label, j.token = Older(i.token), j.note = Older(i.note),
           m2.there = m.there,
           t.there = s.there, t.label = s.label, t.token = Older(s.token), t.note = Older(s.note)
    PROVE  PairAt(j, m2, t, v, gap + 1, Late(faults), FALSE)
<1> DEFINE a == i.token.age
           b == s.token.age
           h == Half(v)
           r == Renewal(v)
           l == Late(faults)
<1>1. a \in Nat /\ b \in Nat
  BY SecretParts
<1>2. h \in Nat /\ r \in Nat /\ h + Window < r
  BY ValidityParts
<1>3. gap \in Nat /\ MaxGap \in Nat /\ Window \in Nat /\ l \in Nat /\ MaxGap + l <= Window
  BY Bounds
<1>4. i.there => j.token.age = a + 1
  BY NotedOlder
<1>5. CASE ~m.there
  <2>1. ~t.there /\ ~s.there
    BY <1>5 DEF AccountAt
  <2>2. i.there => a <= h + gap + l
    BY <1>5 DEF PairAt
  <2>3. ASSUME i.there PROVE j.token.age <= Half(v) + (gap + 1) + Late(faults)
    <3>1. a <= h + gap + l
      BY <2>2, <2>3
    <3> HIDE DEF a, b, h, r, l
    <3>2. a + 1 <= h + (gap + 1) + l
      BY <1>1, <1>2, <1>3, <3>1
    <3> QED
      BY <1>4, <2>3, <3>2 DEF a, h, l
  <2> QED
    BY <1>5, <2>1, <2>3 DEF PairAt
<1>6. CASE m.there
  <2>1. s.there /\ i.there /\ Known(i.note)
    BY <1>6 DEF PairAt, AccountAt
  <2>2. t.token.age = b + 1 /\ (Noted(s) => Noted(t))
    BY <1>6, <2>1, NotedOlder
  <2>3. Known(j.note)
    BY <2>1, SecretParts, OlderAge
  <2>4. \/ b + h < a /\ a <= b + (h + MaxGap + l)
        \/ b + h < a + r /\ a + r <= b + (h + MaxGap + l)
    BY <2>1 DEF PairAt, Apart
  <2>5. ~Noted(s) /\ 0 < b /\ b < a => a <= h + MaxGap + gap + l
    BY <2>1 DEF PairAt
  <2>6. j.token.age = a + 1
    BY <1>4, <2>1
  <2> HIDE DEF a, b, h, r, l
  <2>7. \/ (b + 1) + h < a + 1 /\ a + 1 <= (b + 1) + (h + MaxGap + l)
        \/ (b + 1) + h < (a + 1) + r /\ (a + 1) + r <= (b + 1) + (h + MaxGap + l)
    BY <1>1, <1>2, <1>3, <2>4
  <2>8. ~Noted(s) /\ b + 1 < a + 1 => a + 1 <= h + MaxGap + (gap + 1) + l
    <3>1. CASE b = 0
      BY <1>1, <1>2, <1>3, <2>4, <3>1
    <3>2. CASE 0 < b
      BY <1>1, <1>2, <1>3, <2>5, <3>2
    <3> QED
      BY <1>1, <3>1, <3>2
  <2>9. Apart(j.token.age, t.token.age, v, Half(v) + MaxGap + Late(faults))
    BY <2>2, <2>6, <2>7 DEF Apart, h, r, l
  <2>10. ~Noted(t) /\ t.token.age < j.token.age =>
           j.token.age <= Half(v) + MaxGap + (gap + 1) + Late(faults)
    BY <2>2, <2>6, <2>8 DEF h, l
  <2> QED
    BY <1>6, <2>1, <2>3, <2>9, <2>10 DEF PairAt
<1> QED
  BY <1>5, <1>6

-----------------------------------------------------------------------------
(* The steps keep the rotation going.                                      *)

(* The objects of a cluster, with their types and what holds of them.      *)
LEMMA ClusterFacts ==
    ASSUME TypeOK, Rotating, NEW c \in Clusters
    PROVE  LET k == <<c, "initial">>
               q == <<c, "pair">>
           IN  /\ k \in Keys /\ q \in Keys
               /\ secret[k] \in Secrets /\ secret[q] \in Secrets
               /\ msa[k] \in Accounts /\ msa[q] \in Accounts
               /\ AccountAt(msa[k], secret[k], spec.tokenValidity, gap + Late(faults))
               /\ AccountAt(msa[q], secret[q], spec.tokenValidity, gap + Late(faults))
               /\ PairAt(secret[k], msa[q], secret[q], spec.tokenValidity, gap, Late(faults),
                         pc = "prepare" /\ c \notin todo)
<1>1. <<c, "initial">> \in Keys /\ <<c, "pair">> \in Keys
  BY KeysOf DEF Names
<1> QED
  BY <1>1 DEF TypeOK, Rotating, AccountsInv, PairsInv

LEMMA StateFacts ==
    ASSUME TypeOK
    PROVE  /\ spec.tokenValidity \in Validities /\ gap \in 0..MaxGap /\ faults \in 0..MaxFaults
           /\ msa \in [Keys -> Accounts] /\ secret \in [Keys -> Secrets]
           /\ gap \in Nat /\ gap <= MaxGap /\ faults \in Nat /\ MaxGap \in Nat
           /\ Late(faults) \in Nat
<1>1. spec.tokenValidity \in Validities /\ gap \in 0..MaxGap /\ faults \in 0..MaxFaults
      /\ msa \in [Keys -> Accounts] /\ secret \in [Keys -> Secrets]
  BY DEF TypeOK
<1>2. MaxGap \in Nat /\ MaxFaults \in Nat
  BY MSAAssumption
<1>3. gap \in Nat /\ gap <= MaxGap /\ faults \in Nat
  BY <1>1, <1>2
<1> QED
  BY <1>1, <1>2, <1>3, LateStep

(* No account or secret changes, and time does not pass.                   *)
LEMMA HeldStep ==
    ASSUME TypeOK, TypeOK', RotationLaw, Rotating, UNCHANGED <<msa, secret, gap>>,
           spec'.tokenValidity = spec.tokenValidity, faults <= faults', todo' \cap Hive = {},
           \A c \in Clusters : pc' = "prepare" /\ c \notin todo' =>
               (pc = "prepare" /\ c \notin todo) \/ c \in Hive
    PROVE  Rotating'
<1> DEFINE v == spec.tokenValidity
<1>1. v \in Validities /\ gap \in Nat /\ Late(faults) \in Nat
  BY StateFacts
<1>2. Late(faults') \in Nat /\ Late(faults) <= Late(faults')
  <2>1. faults \in Nat /\ faults' \in Nat
    <3>1. faults \in 0..MaxFaults /\ faults' \in 0..MaxFaults
      BY DEF TypeOK
    <3>2. MaxFaults \in Nat
      BY MSAAssumption
    <3> QED
      BY <3>1, <3>2
  <2> QED
    BY <2>1, LateStep
<1>3. ASSUME NEW k \in Keys PROVE AccountAt(msa[k], secret[k], v, gap + Late(faults'))
  <2>1. AccountAt(msa[k], secret[k], v, gap + Late(faults)) /\ secret[k] \in Secrets
    BY DEF Rotating, AccountsInv, TypeOK
  <2>2. gap + Late(faults) \in Nat /\ gap + Late(faults') \in Nat
        /\ gap + Late(faults) <= gap + Late(faults')
    BY <1>1, <1>2
  <2> QED
    BY <2>1, <2>2, AccountLater
<1>4. ASSUME NEW c \in Clusters
      PROVE  PairAt(secret[<<c, "initial">>], msa[<<c, "pair">>], secret[<<c, "pair">>], v, gap,
                    Late(faults'), pc' = "prepare" /\ c \notin todo')
  <2> DEFINE k == <<c, "initial">>
             q == <<c, "pair">>
             before == pc = "prepare" /\ c \notin todo
             after == pc' = "prepare" /\ c \notin todo'
  <2>1. /\ secret[k] \in Secrets /\ secret[q] \in Secrets /\ msa[q] \in Accounts
        /\ AccountAt(msa[k], secret[k], v, gap + Late(faults))
        /\ PairAt(secret[k], msa[q], secret[q], v, gap, Late(faults), before)
    BY ClusterFacts
  <2>2. after => before \/ ~secret[k].there
    <3>1. c \in Hive => ~msa[k].there
      BY DEF Rotating, HiveInv, Names
    <3> QED
      BY <2>1, <3>1 DEF AccountAt
  <2> HIDE DEF k, q, before, after
  <2>3. PairAt(secret[k], msa[q], secret[q], v, gap, Late(faults'), after)
    BY <1>1, <1>2, <2>1, <2>2, PairLater
  <2> QED
    BY <2>3 DEF k, q, after
<1>5. HiveInv'
  BY DEF HiveInv, Rotating
<1> QED
  BY <1>3, <1>4, <1>5 DEF Rotating, AccountsInv, PairsInv

(* createMSA touches no other cluster; whether it makes the pair is        *)
(* shouldGeneratePairToken's to say.                                       *)
LEMMA PrepareOthers ==
    ASSUME NEW c \in Clusters, Prepare(c), TypeOK, NEW k \in Keys, k[1] # c
    PROVE  msa'[k] = msa[k] /\ secret'[k] = secret[k]
<1>1. CASE UNCHANGED hubVars
  BY <1>1 DEF hubVars
<1>2. ASSUME NEW failed,
             secret' = [x \in Keys |->
                IF x[1] = c /\ x[2] \in Generated(c) /\ <<"secret", x[2]>> \notin failed
                THEN NoSecret ELSE secret[x]],
             createMSA(c, failed)
      PROVE  msa'[k] = msa[k] /\ secret'[k] = secret[k]
  BY <1>2 DEF createMSA
<1> QED
  BY <1>1, <1>2 DEF Prepare

LEMMA PairMade ==
    ASSUME NEW c \in Clusters, Prepare(c), TypeOK, crd, pc' = "prepare", ~msa[<<c, "pair">>].there
    PROVE  \/ shouldGeneratePairToken(c) /\ msa'[<<c, "pair">>] = Fresh
           \/ shouldGeneratePairToken(c) /\ msa'[<<c, "pair">>] = msa[<<c, "pair">>] /\ faults' = faults + 1
           \/ ~shouldGeneratePairToken(c) /\ msa'[<<c, "pair">>] = msa[<<c, "pair">>]
<1> DEFINE q == <<c, "pair">>
<1>1. q \in Keys /\ q[1] = c /\ q[2] = "pair"
  BY KeysOf DEF Names
<1>2. "pair" \in Generated(c) <=> shouldGeneratePairToken(c)
  BY DEF Generated, Names
<1>3. PICK failed \in SUBSET Calls :
        /\ (failed = {} /\ UNCHANGED faults) \/ (Cardinality(failed) = 1 /\ Fail("create"))
        /\ createMSA(c, failed)
  BY DEF Prepare, EndPass
<1> DEFINE made == Generated(c) \ {n \in Names : <<"msa", n>> \in failed}
<1>4. msa'[q] = IF "pair" \in made THEN Fresh ELSE msa[q]
  <2>1. msa'[q] = CASE q[1] = c /\ q[2] \in made -> Fresh
                    [] q[1] = c /\ msa[q].there /\ <<"msa", q[2]>> \notin failed ->
                         [msa[q] EXCEPT !.validity = spec.tokenValidity]
                    [] OTHER -> msa[q]
    BY <1>1, <1>3 DEF createMSA, Fresh
  <2> HIDE DEF q, made
  <2>2. ~msa[q].there
    BY DEF q
  <2> QED
    BY <1>1, <2>1, <2>2
<1>5. CASE failed = {}
  BY <1>2, <1>4, <1>5
<1>6. CASE Fail("create")
  BY <1>2, <1>4, <1>6 DEF Fail
<1> QED
  BY <1>3, <1>5, <1>6

(* The steps of a pass that end it or change nothing.                      *)
LEMMA FaultsGrow ==
    ASSUME TypeOK, TypeOK', NEW x, Fail(x) \/ UNCHANGED faults
    PROVE  /\ faults \in Nat /\ faults' \in Nat /\ faults <= faults'
           /\ Late(faults) \in Nat /\ Late(faults') \in Nat /\ Late(faults) <= Late(faults')
           /\ Fail(x) => Late(faults') = Late(faults) + MaxGap
<1>1. faults \in 0..MaxFaults /\ faults' \in 0..MaxFaults
  BY DEF TypeOK
<1>2. MaxFaults \in Nat
  BY MSAAssumption
<1>3. faults \in Nat /\ faults' \in Nat
  BY <1>1, <1>2
<1>4. faults' = faults + 1 \/ faults' = faults
  BY DEF Fail
<1>5. faults <= faults'
  BY <1>3, <1>4
<1>6. Fail(x) => faults' = faults + 1
  BY DEF Fail
<1> QED
  BY <1>3, <1>5, <1>6, LateStep

(* The age of the first token when the pair is generated, and when not.    *)
LEMMA WhenGenerated ==
    ASSUME RotationLaw, NEW v \in Validities, NEW n, NEW i \in Secrets, NEW l,
           AccountAt(n, i, v, l), i.there, Known(i.note),
           i.note.total \div 2 < i.note.age, i.note.age - i.note.total \div 2 <= Window
    PROVE  Half(v) < i.token.age
<1>1. i.note.age \in Nat /\ i.token.age \in Nat
  BY SecretParts
<1>2. Half(v) \in Nat /\ Renewal(v) \in Nat /\ Half(v) + Window < Renewal(v) /\ Window \in Nat
  BY ValidityParts, MSAAssumption
<1>3. i.note.total = v /\ (i.note.age = i.token.age \/ i.note.age >= Renewal(v))
  BY DEF AccountAt
<1>4. Half(v) < i.note.age /\ i.note.age - Half(v) <= Window
  BY <1>3 DEF Half
<1> QED
  BY <1>1, <1>2, <1>3, <1>4

LEMMA WhenNotGenerated ==
    ASSUME RotationLaw, NEW v \in Validities, gap \in 0..MaxGap, faults \in 0..MaxFaults,
           NEW n, NEW i \in Secrets,
           AccountAt(n, i, v, gap + Late(faults)), i.there,
           i.token.age <= Half(v) + gap + Late(faults),
           ~(/\ Known(i.note)
             /\ i.note.total \div 2 < i.note.age /\ i.note.age - i.note.total \div 2 <= Window)
    PROVE  i.token.age <= Half(v)
<1>1. i.note.age \in Nat /\ i.token.age \in Nat
  BY SecretParts
<1>2. Half(v) \in Nat /\ Renewal(v) \in Nat /\ Half(v) + Window < Renewal(v) /\ Window <= Half(v)
  BY ValidityParts
<1>3. /\ gap \in Nat /\ MaxGap \in Nat /\ Window \in Nat /\ gap <= MaxGap /\ Late(faults) \in Nat
      /\ MaxGap + Late(faults) <= Window
  BY Bounds
<1>4. CASE Noted(i)
  <2>1. i.note.total = v /\ i.note.age = i.token.age /\ Known(i.note)
    BY <1>4 DEF Noted, AccountAt
  <2>2. ~(Half(v) < i.token.age /\ i.token.age - Half(v) <= Window)
    BY <2>1 DEF Half
  <2> QED
    BY <1>1, <1>2, <1>3, <2>2
<1>5. CASE ~Noted(i)
  <2>1. i.token.age <= gap + Late(faults)
    BY <1>5 DEF AccountAt
  <2> QED
    BY <1>1, <1>2, <1>3, <2>1
<1> QED
  BY <1>4, <1>5

LEMMA PrepareAccounts ==
    ASSUME TypeOK, TypeOK', RotationLaw, Rotating, NEW c \in Clusters, Prepare(c),
           UNCHANGED gap, Late(faults) <= Late(faults'), Late(faults') \in Nat
    PROVE  AccountsInv'
<1> DEFINE v == spec.tokenValidity
<1>1. UNCHANGED spec
  BY DEF Prepare, userVars
<1> SUFFICES ASSUME NEW k \in Keys
             PROVE  AccountAt(msa'[k], secret'[k], v, gap + Late(faults'))
  BY <1>1 DEF AccountsInv
<1>2. AccountAt(msa[k], secret[k], v, gap + Late(faults)) /\ msa[k] \in Accounts /\ secret[k] \in Secrets
  BY DEF Rotating, AccountsInv, TypeOK
<1>3. AccountAt(msa[k], secret[k], v, gap + Late(faults'))
  <2>1. gap \in Nat /\ Late(faults) \in Nat
    BY StateFacts
  <2>2. gap + Late(faults) \in Nat /\ gap + Late(faults') \in Nat
        /\ gap + Late(faults) <= gap + Late(faults')
    BY <2>1
  <2> QED
    BY <1>2, <2>2, AccountLater
<1>4. /\ \/ secret'[k] = secret[k]
         \/ secret'[k] = NoSecret /\ ~msa[k].there
      /\ \/ msa'[k] = msa[k]
         \/ msa[k].there /\ msa'[k] = [msa[k] EXCEPT !.validity = v]
         \/ ~msa[k].there /\ msa'[k] = Fresh
  BY PrepareShape DEF TypeOK
<1>5. CASE msa[k].there
  <2>1. msa[k].validity = v
    BY <1>2, <1>5 DEF AccountAt
  <2>2. [msa[k] EXCEPT !.validity = v] = msa[k]
    BY <1>2, <2>1 DEF Accounts
  <2> QED
    BY <1>3, <1>4, <1>5, <2>2
<1>6. CASE ~msa[k].there /\ msa'[k] = Fresh
  BY <1>3, <1>4, <1>6, AccountMade
<1>7. CASE ~msa[k].there /\ msa'[k] = msa[k]
  <2>1. CASE secret'[k] = secret[k]
    BY <1>3, <1>7, <2>1
  <2>2. CASE secret'[k] = NoSecret
    <3>1. ~Known(msa[k].status)
      BY <1>2, <1>7 DEF AccountAt
    <3>2. ~NoSecret.there /\ ~NoSecret.label /\ ~Known(NoSecret.note)
      BY DEF NoSecret, Known, NoToken
    <3> QED
      BY <1>7, <2>2, <3>1, <3>2 DEF AccountAt
  <2> QED
    BY <1>4, <2>1, <2>2
<1> QED
  BY <1>4, <1>5, <1>6, <1>7

LEMMA PreparePair ==
    ASSUME TypeOK, TypeOK', RotationLaw, Rotating, NEW c \in Clusters, Prepare(c),
           crd, pc' = "prepare", UNCHANGED gap, Fail("create") \/ UNCHANGED faults, NEW p
    PROVE  PairAt(secret'[<<c, "initial">>], msa'[<<c, "pair">>], secret'[<<c, "pair">>],
                  spec.tokenValidity, gap, Late(faults'), p)
<1> DEFINE k == <<c, "initial">>
           q == <<c, "pair">>
           v == spec.tokenValidity
           h == Half(v)
           l == Late(faults)
           y == Late(faults')
           P == pc = "prepare" /\ c \notin todo
<1>1. /\ k \in Keys /\ q \in Keys
      /\ secret[k] \in Secrets /\ secret[q] \in Secrets /\ msa[k] \in Accounts /\ msa[q] \in Accounts
      /\ AccountAt(msa[k], secret[k], v, gap + l) /\ AccountAt(msa[q], secret[q], v, gap + l)
      /\ PairAt(secret[k], msa[q], secret[q], v, gap, l, P)
  BY ClusterFacts
<1>2. v \in Validities /\ gap \in 0..MaxGap /\ faults \in 0..MaxFaults /\ gap \in Nat /\ gap <= MaxGap /\ MaxGap \in Nat
  BY StateFacts
<1>3. l \in Nat /\ y \in Nat /\ l <= y /\ faults \in Nat
      /\ (faults' = faults + 1 => y = l + MaxGap)
  BY FaultsGrow, LateStep
<1>4. \A x \in {k, q} :
        /\ \/ secret'[x] = secret[x]
           \/ secret'[x] = NoSecret /\ ~msa[x].there
        /\ \/ msa'[x] = msa[x]
           \/ msa[x].there /\ msa'[x] = [msa[x] EXCEPT !.validity = v]
           \/ ~msa[x].there /\ msa'[x] = Fresh
  BY <1>1, PrepareShape DEF TypeOK
<1>5. ~NoSecret.there
  BY DEF NoSecret
<1>6. ~msa[q].there => ~secret[q].there /\ ~secret'[q].there
  BY <1>1, <1>4, <1>5 DEF AccountAt
<1>7. h \in Nat
  BY <1>2, ValidityParts
<1>8. secret[k].there => secret'[k] = secret[k]
  BY <1>1, <1>4 DEF AccountAt
<1>9. secret[k].token.age \in Nat
  BY <1>1, SecretParts
<1> HIDE DEF k, q, v, h, l, y, P
<1>10. CASE msa[q].there
  <2>1. msa'[q].there /\ secret'[q] = secret[q]
    BY <1>1, <1>4, <1>10 DEF Accounts
  <2>2. secret[k].there
    BY <1>1, <1>10 DEF PairAt, AccountAt
  <2>3. PairAt(secret[k], msa[q], secret[q], v, gap, y, p)
    BY <1>1, <1>2, <1>3, <1>10, PairLater
  <2>4. PairAt(secret'[k], msa'[q], secret'[q], v, gap, y, p)
    BY <1>8, <1>10, <2>1, <2>2, <2>3 DEF PairAt
  <2> QED
    BY <2>4 DEF k, q, v, y
<1>11. CASE ~msa[q].there
  <2> DEFINE t == secret[k].note
             due == Known(t) /\ t.total \div 2 < t.age /\ t.age - t.total \div 2 <= Window
  <2>1. shouldGeneratePairToken(c) <=> secret[k].there /\ due
    BY <1>6, <1>11 DEF shouldGeneratePairToken, Names, k, q
  <2>2. \/ shouldGeneratePairToken(c) /\ msa'[q] = Fresh
        \/ shouldGeneratePairToken(c) /\ msa'[q] = msa[q] /\ faults' = faults + 1
        \/ ~shouldGeneratePairToken(c) /\ msa'[q] = msa[q]
    BY <1>11, PairMade DEF q
  <2>3. secret[k].there => secret[k].token.age <= h + gap + l
    BY <1>1, <1>11 DEF PairAt, h
  <2> HIDE DEF t
  <2>4. CASE shouldGeneratePairToken(c) /\ msa'[q] = Fresh
    <3>1. secret[k].there /\ Known(secret[k].note) /\ secret'[k] = secret[k]
      BY <1>8, <2>1, <2>4 DEF t
    <3>2. h < secret[k].token.age
      BY <1>1, <1>2, <2>1, <2>4, WhenGenerated DEF h, t
    <3>3. secret[k].token.age <= h + MaxGap + y
      BY <1>2, <1>3, <1>7, <1>9, <2>3, <3>1
    <3>4. PairAt(secret[k], Fresh, secret'[q], v, gap, y, p)
      BY <1>6, <1>11, <3>1, <3>2, <3>3, NothingKnown DEF PairAt, h
    <3> QED
      BY <2>4, <3>1, <3>4 DEF k, q, v, y
  <2>5. CASE ~shouldGeneratePairToken(c) \/ faults' = faults + 1
    <3>1. CASE msa'[q] = msa[q]
      <4>1. secret'[k].there => secret[k].there
        BY <1>4, <1>5
      <4>2. ASSUME secret[k].there
            PROVE  secret[k].token.age <= h + gap + y /\ secret[k].token.age <= h + y
        <5>1. CASE faults' = faults + 1
          BY <1>2, <1>3, <1>7, <1>9, <2>3, <4>2, <5>1
        <5>2. CASE ~shouldGeneratePairToken(c)
          <6>1. ~due
            BY <2>1, <4>2, <5>2
          <6>2. secret[k].token.age <= h
            BY <1>1, <1>2, <2>3, <4>2, <6>1, WhenNotGenerated DEF h, l, t
          <6> QED
            BY <1>2, <1>3, <1>7, <1>9, <6>2
        <5> QED
          BY <2>5, <5>1, <5>2
      <4>3. secret'[k].there => secret'[k].token.age <= h + gap + y /\ secret'[k].token.age <= h + y
        BY <1>8, <4>1, <4>2
      <4>4. PairAt(secret'[k], msa'[q], secret'[q], v, gap, y, p)
        BY <1>6, <1>11, <3>1, <4>3, PairAbsent DEF h
      <4> QED
        BY <4>4 DEF k, q, v, y
    <3> QED
      BY <2>2, <2>4, <3>1
  <2> QED
    BY <2>2, <2>4, <2>5
<1> QED
  BY <1>10, <1>11

LEMMA PrepareRotates ==
    ASSUME TypeOK, TypeOK', RotationLaw, Rotating, crd, NEW c \in Clusters, Prepare(c)
    PROVE  Rotating'
<1>1. UNCHANGED <<spec, crd>> /\ pc = "prepare" /\ c \in todo
  BY DEF Prepare, userVars
<1>2. CASE Fail("addons") /\ EndPass(FALSE) /\ UNCHANGED hubVars
  <2>1. UNCHANGED <<msa, secret, gap>> /\ pc' = "idle" /\ todo' = {}
    BY <1>2 DEF EndPass, hubVars
  <2>2. faults <= faults'
    BY <1>2, FaultsGrow
  <2> QED
    BY <1>1, <2>1, <2>2, HeldStep
<1>3. CASE UNCHANGED <<pc, gap>> /\ todo' = todo \ {c} /\ (Fail("create") \/ UNCHANGED faults)
  <2>1. /\ pc' = "prepare" /\ Late(faults) <= Late(faults') /\ Late(faults') \in Nat
        /\ Late(faults) \in Nat
    BY <1>1, <1>3, FaultsGrow
  <2>2. AccountsInv'
    BY <1>3, <2>1, PrepareAccounts
  <2>3. PairsInv'
    <3> SUFFICES ASSUME NEW d \in Clusters
                 PROVE  PairAt(secret'[<<d, "initial">>], msa'[<<d, "pair">>], secret'[<<d, "pair">>],
                               spec.tokenValidity, gap, Late(faults'), pc' = "prepare" /\ d \notin todo')
      BY <1>1, <1>3 DEF PairsInv
    <3>1. CASE d = c
      BY <1>3, <2>1, <3>1, PreparePair
    <3>2. CASE d # c
      <4> DEFINE k == <<d, "initial">>
                 q == <<d, "pair">>
                 before == pc = "prepare" /\ d \notin todo
                 after == pc' = "prepare" /\ d \notin todo'
      <4>1. /\ k \in Keys /\ q \in Keys /\ secret[k] \in Secrets /\ secret[q] \in Secrets /\ msa[q] \in Accounts
            /\ PairAt(secret[k], msa[q], secret[q], spec.tokenValidity, gap, Late(faults), before)
        BY ClusterFacts
      <4>2. secret'[k] = secret[k] /\ secret'[q] = secret[q] /\ msa'[q] = msa[q]
        <5>1. k[1] # c /\ q[1] # c
          BY <3>2
        <5> QED
          BY <4>1, <5>1, PrepareOthers
      <4>3. after => before
        BY <1>3, <3>2
      <4>4. spec.tokenValidity \in Validities /\ gap \in Nat
        BY StateFacts
      <4> HIDE DEF k, q, before, after
      <4>5. PairAt(secret[k], msa[q], secret[q], spec.tokenValidity, gap, Late(faults'), after)
        BY <2>1, <4>1, <4>3, <4>4, PairLater
      <4> QED
        BY <4>2, <4>5 DEF k, q, after
    <3> QED
      BY <3>1, <3>2
  <2>4. HiveInv'
    <3>1. todo' \cap Hive = {}
      BY <1>3 DEF Rotating, HiveInv
    <3>2. ASSUME NEW d \in Hive, NEW n \in Names PROVE ~msa'[<<d, n>>].there
      <4>1. d # c /\ ~msa[<<d, n>>].there
        BY <1>1 DEF Rotating, HiveInv
      <4>2. <<d, n>> \in Keys
        BY KeysOf, MSAAssumption
      <4>3. <<d, n>>[1] # c
        BY <4>1
      <4> QED
        BY <4>1, <4>2, <4>3, PrepareOthers
    <3> QED
      BY <3>1, <3>2 DEF HiveInv
  <2> QED
    BY <2>2, <2>3, <2>4 DEF Rotating
<1> QED
  BY <1>2, <1>3 DEF Prepare

(* What a pass writes to a secret; a failing update costs a delay.         *)
LEMMA AnnotateShape ==
    ASSUME TypeOK, TypeOK', Annotate, NEW k \in Keys
    PROVE  LET m == msa[k]
               s == secret[k]
               t == secret'[k]
           IN  /\ t.there = s.there /\ t.token = s.token
               /\ \/ t = s /\ (s.there => Late(faults') = Late(faults) + MaxGap)
                  \/ /\ s.there /\ t.label
                     /\ t.note = IF m.there /\ Known(m.status) THEN m.status ELSE s.note
<1>1. PICK failed \in SUBSET {x \in Keys : secret[x].there} :
        /\ (failed = {} /\ UNCHANGED faults) \/ (Cardinality(failed) = 1 /\ Fail("update"))
        /\ secret' = [x \in Keys |->
              IF secret[x].there /\ x \notin failed
              THEN [secret[x] EXCEPT !.note = updateMSASecretTimestamp(x), !.label = TRUE]
              ELSE secret[x]]
  BY DEF Annotate
<1>2. secret[k] \in Secrets
  BY DEF TypeOK
<1>3. CASE secret[k].there /\ k \notin failed
  <2>1. secret'[k] = [secret[k] EXCEPT !.note = updateMSASecretTimestamp(k), !.label = TRUE]
    BY <1>1, <1>3
  <2>2. /\ secret'[k].there = secret[k].there /\ secret'[k].token = secret[k].token
        /\ secret'[k].label /\ secret'[k].note = updateMSASecretTimestamp(k)
    BY <1>2, <2>1 DEF Secrets
  <2> QED
    BY <1>3, <2>2 DEF updateMSASecretTimestamp
<1>4. CASE ~secret[k].there
  BY <1>1, <1>4
<1>5. CASE k \in failed
  <2>1. Fail("update")
    BY <1>1, <1>5
  <2>2. Late(faults') = Late(faults) + MaxGap
    BY <2>1, FaultsGrow
  <2> QED
    BY <1>1, <1>5, <2>2
<1> QED
  BY <1>3, <1>4, <1>5

LEMMA AnnotateRotates ==
    ASSUME TypeOK, TypeOK', RotationLaw, Rotating, Annotate
    PROVE  Rotating'
<1> DEFINE v == spec.tokenValidity
           l == Late(faults)
           y == Late(faults')
<1>1. UNCHANGED <<spec, msa>> /\ gap' = 0 /\ pc' = "idle" /\ todo' = {} /\ pc = "prepare" /\ todo = {}
  BY DEF Annotate, EndPass, userVars
<1>2. v \in Validities /\ gap \in Nat /\ gap <= MaxGap /\ MaxGap \in Nat
  BY StateFacts
<1>3. l \in Nat /\ y \in Nat /\ l <= y
  <2>1. Fail("update") \/ UNCHANGED faults
    BY DEF Annotate
  <2> QED
    BY <2>1, FaultsGrow
<1>4. ASSUME NEW k \in Keys
      PROVE  /\ msa[k] \in Accounts /\ secret[k] \in Secrets /\ secret'[k] \in Secrets
             /\ secret'[k].there = secret[k].there /\ secret'[k].token = secret[k].token
             /\ \/ secret'[k] = secret[k] /\ (secret[k].there => y = l + MaxGap)
                \/ /\ secret[k].there /\ secret'[k].label
                   /\ secret'[k].note = IF msa[k].there /\ Known(msa[k].status)
                                        THEN msa[k].status ELSE secret[k].note
  BY AnnotateShape DEF TypeOK
<1>5. ASSUME NEW k \in Keys PROVE AccountAt(msa[k], secret'[k], v, 0 + y)
  <2>1. AccountAt(msa[k], secret[k], v, gap + l)
    BY DEF Rotating, AccountsInv
  <2>2. gap + l \in Nat /\ 0 + y \in Nat /\ (y = l + MaxGap => gap + l <= 0 + y)
    BY <1>2, <1>3
  <2> QED
    BY <1>2, <1>4, <2>1, <2>2, AccountNoted
<1>6. ASSUME NEW c \in Clusters
      PROVE  PairAt(secret'[<<c, "initial">>], msa[<<c, "pair">>], secret'[<<c, "pair">>], v, 0, y,
                    pc' = "prepare" /\ c \notin todo')
  <2> DEFINE k == <<c, "initial">>
             q == <<c, "pair">>
             after == pc' = "prepare" /\ c \notin todo'
  <2>1. /\ k \in Keys /\ q \in Keys
        /\ AccountAt(msa[k], secret[k], v, gap + l)
        /\ AccountAt(msa[q], secret[q], v, gap + l)
        /\ PairAt(secret[k], msa[q], secret[q], v, gap, l, pc = "prepare" /\ c \notin todo)
    BY ClusterFacts
  <2>2. PairAt(secret[k], msa[q], secret[q], v, gap, l, TRUE)
    BY <1>1, <2>1 DEF PairAt
  <2>3. Known(secret[k].note) => Known(secret'[k].note)
    BY <1>4, <2>1
  <2>4. \/ secret'[q] = secret[q] /\ (secret[q].there => l + MaxGap <= y)
        \/ /\ secret'[q].label
           /\ secret'[q].note = IF msa[q].there /\ Known(msa[q].status) THEN msa[q].status ELSE secret[q].note
    BY <1>2, <1>3, <1>4, <2>1
  <2>5. /\ secret[k] \in Secrets /\ secret'[k] \in Secrets
        /\ secret[q] \in Secrets /\ secret'[q] \in Secrets /\ msa[q] \in Accounts
        /\ secret'[k].there = secret[k].there /\ secret'[k].token = secret[k].token
        /\ secret'[q].there = secret[q].there /\ secret'[q].token = secret[q].token
    BY <1>4, <2>1
  <2> DEFINE i == secret[k]
             j == secret'[k]
             m == msa[q]
             s == secret[q]
             t == secret'[q]
  <2> HIDE DEF k, q, after, l, y, v, i, j, m, s, t
  <2>6. PairAt(j, m, t, v, 0, y, after)
    <3>1. i \in Secrets /\ j \in Secrets /\ s \in Secrets /\ t \in Secrets /\ m \in Accounts
          /\ j.there = i.there /\ j.token = i.token /\ t.there = s.there /\ t.token = s.token
      BY <2>5 DEF i, j, m, s, t
    <3>2. AccountAt(m, s, v, gap + l) /\ PairAt(i, m, s, v, gap, l, TRUE)
          /\ (Known(i.note) => Known(j.note))
      BY <2>1, <2>2, <2>3 DEF i, j, m, s, t
    <3>3. \/ t = s /\ (s.there => l + MaxGap <= y)
          \/ t.label /\ t.note = IF m.there /\ Known(m.status) THEN m.status ELSE s.note
      BY <2>4 DEF i, j, m, s, t
    <3> QED
      BY <1>2, <1>3, <3>1, <3>2, <3>3, PairNoted
  <2> QED
    BY <2>6 DEF k, q, after, j, m, t
<1>7. HiveInv'
  BY <1>1 DEF Rotating, HiveInv
<1> QED
  BY <1>1, <1>5, <1>6, <1>7 DEF Rotating, AccountsInv, PairsInv

(* The service-account controller.                                         *)
LEMMA IssueParts ==
    ASSUME TypeOK, TypeOK', NEW j \in Keys, Issue(j)
    PROVE  /\ msa'[j].there = msa[j].there /\ msa'[j].issued
           /\ msa'[j].validity = msa[j].validity /\ msa'[j].status = msa[j].status
           /\ secret'[j].there /\ secret'[j].token.age = 0 /\ secret'[j].token.total = msa[j].validity
           /\ secret'[j].note = secret[j].note /\ secret'[j].label = secret[j].label
           /\ \A k \in Keys : k # j => secret'[k] = secret[k] /\ msa'[k] = msa[k]
<1> DEFINE token == [age |-> 0, total |-> msa[j].validity]
<1>1. msa \in [Keys -> Accounts] /\ secret \in [Keys -> Secrets]
  BY DEF TypeOK
<1>2. /\ secret' = [secret EXCEPT ![j] = [secret[j] EXCEPT !.there = TRUE, !.token = token]]
      /\ msa' = [msa EXCEPT ![j] = [msa[j] EXCEPT !.issued = TRUE]]
  BY IssueShape
<1>3. token.age = 0 /\ token.total = msa[j].validity
  OBVIOUS
<1> HIDE DEF token
<1>4. secret'[j] = [secret[j] EXCEPT !.there = TRUE, !.token = token] /\ secret[j] \in Secrets
  BY <1>1, <1>2
<1>5. msa'[j] = [msa[j] EXCEPT !.issued = TRUE] /\ msa[j] \in Accounts
  BY <1>1, <1>2
<1>6. /\ secret'[j].there /\ secret'[j].token = token
      /\ secret'[j].note = secret[j].note /\ secret'[j].label = secret[j].label
  BY <1>4 DEF Secrets
<1>7. /\ msa'[j].there = msa[j].there /\ msa'[j].issued
      /\ msa'[j].validity = msa[j].validity /\ msa'[j].status = msa[j].status
  BY <1>5 DEF Accounts
<1>8. \A k \in Keys : k # j => secret'[k] = secret[k] /\ msa'[k] = msa[k]
  BY <1>1, <1>2
<1> QED
  BY <1>3, <1>6, <1>7, <1>8

LEMMA IssueRotates ==
    ASSUME TypeOK, TypeOK', RotationLaw, Rotating, NEW j \in Keys, Issue(j)
    PROVE  Rotating'
<1> DEFINE v == spec.tokenValidity
           l == Late(faults)
<1>1. UNCHANGED <<spec, todo, pc, gap, faults>> /\ Due(j) /\ component
  BY DEF Issue, Due, userVars
<1>2. /\ v \in Validities /\ gap \in 0..MaxGap /\ faults \in 0..MaxFaults /\ gap \in Nat /\ l \in Nat
      /\ gap + l \in Nat
  BY StateFacts
<1>3. \A k \in Keys : /\ msa[k] \in Accounts /\ secret[k] \in Secrets
                      /\ msa'[k] \in Accounts /\ secret'[k] \in Secrets
                      /\ AccountAt(msa[k], secret[k], v, gap + l)
  BY DEF TypeOK, Rotating, AccountsInv
<1>4. msa[j].there /\ (secret[j].there => secret[j].token.age = Renewal(v))
  BY <1>1, <1>2, <1>3, DueAge
<1>5. /\ msa'[j].there /\ msa'[j].issued
      /\ msa'[j].validity = msa[j].validity /\ msa'[j].status = msa[j].status
      /\ secret'[j].there /\ secret'[j].token.age = 0 /\ secret'[j].token.total = msa[j].validity
      /\ secret'[j].note = secret[j].note /\ secret'[j].label = secret[j].label
      /\ \A k \in Keys : k # j => secret'[k] = secret[k] /\ msa'[k] = msa[k]
  BY <1>4, IssueParts
<1>6. ASSUME NEW k \in Keys PROVE AccountAt(msa'[k], secret'[k], v, gap + l)
  <2>1. CASE k = j
    BY <1>2, <1>3, <1>4, <1>5, <2>1, AccountIssued
  <2>2. CASE k # j
    BY <1>3, <1>5, <2>2
  <2> QED
    BY <2>1, <2>2
<1>7. ASSUME NEW c \in Clusters
      PROVE  PairAt(secret'[<<c, "initial">>], msa'[<<c, "pair">>], secret'[<<c, "pair">>], v, gap, l,
                    pc = "prepare" /\ c \notin todo)
  <2> DEFINE k == <<c, "initial">>
             q == <<c, "pair">>
             P == pc = "prepare" /\ c \notin todo
  <2>1. /\ k \in Keys /\ q \in Keys /\ k # q
        /\ PairAt(secret[k], msa[q], secret[q], v, gap, l, P)
    BY ClusterFacts
  <2> HIDE DEF k, q, P
  <2>2. CASE j = k
    <3>1. secret'[q] = secret[q] /\ msa'[q] = msa[q]
      BY <1>5, <2>1, <2>2
    <3>2. PairAt(secret'[k], msa[q], secret[q], v, gap, l, P)
      BY <1>2, <1>3, <1>4, <1>5, <2>1, <2>2, FirstIssued
    <3> QED
      BY <3>1, <3>2 DEF k, q, P
  <2>3. CASE j = q
    <3>1. secret'[k] = secret[k]
      BY <1>5, <2>1, <2>3
    <3>2. PairAt(secret[k], msa'[q], secret'[q], v, gap, l, P)
      BY <1>2, <1>3, <1>4, <1>5, <2>1, <2>3, PairIssued
    <3> QED
      BY <3>1, <3>2 DEF k, q, P
  <2>4. CASE j # k /\ j # q
    <3>1. secret'[k] = secret[k] /\ secret'[q] = secret[q] /\ msa'[q] = msa[q]
      BY <1>5, <2>1, <2>4
    <3> QED
      BY <2>1, <3>1 DEF k, q, P
  <2> QED
    BY <2>2, <2>3, <2>4
<1>8. HiveInv'
  <2>1. \A c \in Hive : \A n \in Names : <<c, n>> \in Keys /\ ~msa[<<c, n>>].there
    BY KeysOf, MSAAssumption DEF Rotating, HiveInv
  <2>2. \A c \in Hive : \A n \in Names : <<c, n>> # j
    BY <1>4, <2>1
  <2> QED
    BY <1>1, <1>5, <2>1, <2>2 DEF HiveInv, Rotating
<1> QED
  BY <1>1, <1>6, <1>7, <1>8 DEF Rotating, AccountsInv, PairsInv

LEMMA ReportRotates ==
    ASSUME TypeOK, TypeOK', RotationLaw, Rotating, NEW j \in Keys, Report(j)
    PROVE  Rotating'
<1> DEFINE v == spec.tokenValidity
           l == Late(faults)
<1>1. UNCHANGED <<spec, secret, todo, pc, gap, faults>> /\ secret[j].there
  BY DEF Report, Unreported, userVars
<1>2. v \in Validities
  BY StateFacts
<1>3. \A k \in Keys : /\ msa[k] \in Accounts /\ secret[k] \in Secrets /\ msa'[k] \in Accounts
                      /\ AccountAt(msa[k], secret[k], v, gap + l)
  BY DEF TypeOK, Rotating, AccountsInv
<1>4. \A k \in Keys : msa'[k].there = msa[k].there
  BY <1>3 DEF Report, TypeOK, Accounts
<1>5. /\ msa'[j].issued = msa[j].issued
      /\ msa'[j].validity = msa[j].validity /\ msa'[j].status = secret[j].token
      /\ \A k \in Keys : k # j => msa'[k] = msa[k]
  BY DEF Report, TypeOK, Accounts
<1>6. ASSUME NEW k \in Keys PROVE AccountAt(msa'[k], secret[k], v, gap + l)
  <2>1. CASE k = j
    BY <1>1, <1>2, <1>3, <1>4, <1>5, <2>1, AccountReported
  <2>2. CASE k # j
    BY <1>3, <1>5, <2>2
  <2> QED
    BY <2>1, <2>2
<1>7. ASSUME NEW c \in Clusters
      PROVE  PairAt(secret[<<c, "initial">>], msa'[<<c, "pair">>], secret[<<c, "pair">>], v, gap, l,
                    pc = "prepare" /\ c \notin todo)
  <2>1. /\ <<c, "pair">> \in Keys
        /\ PairAt(secret[<<c, "initial">>], msa[<<c, "pair">>], secret[<<c, "pair">>], v, gap, l,
                  pc = "prepare" /\ c \notin todo)
    BY ClusterFacts
  <2>2. msa'[<<c, "pair">>].there = msa[<<c, "pair">>].there
    BY <1>4, <2>1
  <2> QED
    BY <2>1, <2>2 DEF PairAt
<1>8. HiveInv'
  <2>1. \A c \in Hive : \A n \in Names : <<c, n>> \in Keys /\ ~msa[<<c, n>>].there
    BY KeysOf, MSAAssumption DEF Rotating, HiveInv
  <2> QED
    BY <1>1, <1>4, <2>1 DEF HiveInv, Rotating
<1> QED
  BY <1>1, <1>6, <1>7, <1>8 DEF Rotating, AccountsInv, PairsInv

(* The clock.                                                              *)
LEMMA TickRotates ==
    ASSUME TypeOK, TypeOK', RotationLaw, Rotating, component, Tick
    PROVE  Rotating'
<1> DEFINE v == spec.tokenValidity
           l == Late(faults)
<1>1. UNCHANGED <<spec, todo, pc, faults>> /\ gap' = gap + 1 /\ pc = "idle"
  BY DEF Tick, userVars
<1>2. /\ v \in Validities /\ gap \in 0..MaxGap /\ faults \in 0..MaxFaults /\ gap \in Nat /\ l \in Nat
      /\ gap + l \in Nat /\ (gap + l) + 1 = (gap + 1) + l
  BY StateFacts
<1>3. \A k \in Keys : /\ msa[k] \in Accounts /\ secret[k] \in Secrets
                      /\ msa'[k] \in Accounts /\ secret'[k] \in Secrets
                      /\ AccountAt(msa[k], secret[k], v, gap + l)
  BY DEF TypeOK, Rotating, AccountsInv
<1>4. ASSUME NEW k \in Keys
      PROVE  /\ msa'[k].there = msa[k].there /\ msa'[k].issued = msa[k].issued
             /\ msa'[k].validity = msa[k].validity /\ msa'[k].status = Older(msa[k].status)
             /\ secret'[k].there = secret[k].there /\ secret'[k].label = secret[k].label
             /\ secret'[k].token = Older(secret[k].token) /\ secret'[k].note = Older(secret[k].note)
  <2>1. /\ msa'[k] = [msa[k] EXCEPT !.status = Older(msa[k].status)]
        /\ secret'[k] = [secret[k] EXCEPT !.token = Older(secret[k].token), !.note = Older(secret[k].note)]
    BY DEF Tick
  <2> QED
    BY <1>3, <2>1 DEF Accounts, Secrets
<1>5. ASSUME NEW k \in Keys
      PROVE  /\ msa[k].there => secret[k].there /\ secret[k].token.age < Renewal(v)
             /\ secret[k].there => secret[k].token.age < Renewal(v) /\ msa[k].status = secret[k].token
  <2>1. ~Due(k) /\ ~Unreported(k)
    BY DEF Tick
  <2>2. msa[k].there => secret[k].there /\ secret[k].token.age < Renewal(v)
    BY <1>2, <1>3, <2>1, DueAge
  <2>3. secret[k].there => msa[k].there /\ msa[k].issued
    BY <1>3 DEF AccountAt
  <2> QED
    BY <2>1, <2>2, <2>3 DEF Unreported
<1>6. ASSUME NEW k \in Keys PROVE AccountAt(msa'[k], secret'[k], v, (gap + 1) + l)
  <2>1. AccountAt(msa'[k], secret'[k], v, (gap + l) + 1)
    BY <1>2, <1>3, <1>4, <1>5, AccountOlder
  <2> QED
    BY <1>2, <2>1
<1>7. ASSUME NEW c \in Clusters
      PROVE  PairAt(secret'[<<c, "initial">>], msa'[<<c, "pair">>], secret'[<<c, "pair">>], v, gap + 1, l,
                    pc = "prepare" /\ c \notin todo)
  <2> DEFINE k == <<c, "initial">>
             q == <<c, "pair">>
             P == pc = "prepare" /\ c \notin todo
  <2>1. k \in Keys /\ q \in Keys /\ PairAt(secret[k], msa[q], secret[q], v, gap, l, P)
    BY ClusterFacts
  <2> DEFINE n == msa[k]
             i == secret[k]
             j == secret'[k]
             m == msa[q]
             m2 == msa'[q]
             s == secret[q]
             t == secret'[q]
  <2> HIDE DEF k, q, P, n, i, j, m, m2, s, t, v
  <2>2. PairAt(secret'[k], msa'[q], secret'[q], v, gap + 1, l, FALSE)
    <3>1. /\ n \in Accounts /\ i \in Secrets /\ j \in Secrets
          /\ m \in Accounts /\ m2 \in Accounts /\ s \in Secrets /\ t \in Secrets
      BY <1>3, <2>1 DEF n, i, j, m, m2, s, t
    <3>2. AccountAt(n, i, v, gap + l) /\ AccountAt(m, s, v, gap + l) /\ PairAt(i, m, s, v, gap, l, P)
      BY <1>3, <2>1 DEF n, i, m, s
    <3>3. (i.there => i.token.age < Renewal(v)) /\ (m.there => s.there /\ s.token.age < Renewal(v))
      BY <1>5, <2>1 DEF i, m, s
    <3>4. /\ j.there = i.there /\ j.label = i.label /\ j.token = Older(i.token) /\ j.note = Older(i.note)
          /\ m2.there = m.there
          /\ t.there = s.there /\ t.label = s.label /\ t.token = Older(s.token) /\ t.note = Older(s.note)
      BY <1>4, <2>1 DEF i, j, m, m2, s, t
    <3>5. PairAt(j, m2, t, v, gap + 1, l, FALSE)
      BY <1>2, <3>1, <3>2, <3>3, <3>4, PairOlder
    <3> QED
      BY <3>5 DEF j, m2, t
  <2>3. P <=> FALSE
    BY <1>1 DEF P
  <2> QED
    BY <2>2, <2>3 DEF k, q, P, PairAt
<1>8. HiveInv'
  <2>1. \A c \in Hive : \A n \in Names : <<c, n>> \in Keys /\ ~msa[<<c, n>>].there
    BY KeysOf, MSAAssumption DEF Rotating, HiveInv
  <2> QED
    BY <1>1, <1>4, <2>1 DEF HiveInv, Rotating
<1> QED
  BY <1>1, <1>6, <1>7, <1>8 DEF Rotating, AccountsInv, PairsInv

-----------------------------------------------------------------------------
(* Switching the accounts off.                                             *)

(* What is there of an account or a label, in a step that removes.         *)
LEMMA Absent == ~NoAccount.there /\ ~NoSecret.there /\ ~NoSecret.label /\ Fresh.there
BY DEF NoAccount, NoSecret, Fresh

(* Only createMSA makes accounts, and it needs the CRD.                    *)
LEMMA NoneMade ==
    ASSUME TypeOK, [Next]_vars, ~crd \/ ~(\E c \in Clusters : Prepare(c)), NEW k \in Keys, msa'[k].there
    PROVE  msa[k].there
<1>1. msa \in [Keys -> Accounts] /\ secret \in [Keys -> Secrets] /\ msa[k] \in Accounts
  BY DEF TypeOK
<1>2. ASSUME NEW c \in Clusters, Prepare(c) PROVE msa[k].there
  BY <1>1, <1>2, PrepareShape
<1>3. ASSUME Cleaning \/ Edit PROVE msa[k].there
  <2>1. msa'[k] \in {msa[k], NoAccount}
    BY <1>1, <1>3, CleanupShape DEF Edit
  <2> QED
    BY <2>1, Absent
<1>4. ASSUME NEW j \in Keys, Issue(j) PROVE msa[k].there
  <2>1. msa' = [msa EXCEPT ![j] = [msa[j] EXCEPT !.issued = TRUE]]
    BY <1>4, IssueShape
  <2>2. msa'[k].there = msa[k].there
    BY <1>1, <2>1 DEF Accounts
  <2> QED
    BY <2>2
<1>5. ASSUME NEW j \in Keys, Report(j) PROVE msa[k].there
  <2>1. msa' = [msa EXCEPT ![j].status = secret[j].token]
    BY <1>5 DEF Report
  <2>2. msa'[k].there = msa[k].there
    BY <1>1, <2>1 DEF Accounts
  <2> QED
    BY <2>2
<1>6. ASSUME Tick PROVE msa[k].there
  <2>1. msa'[k].there = msa[k].there
    BY <1>1, <1>6 DEF Tick, Accounts
  <2> QED
    BY <2>1
<1>7. ASSUME UNCHANGED msa PROVE msa[k].there
  BY <1>7
<1> QED
  BY <1>2, <1>3, <1>4, <1>5, <1>6, <1>7
    DEF Next, Pass, Cleaning, vars, StartPass, NothingToDo, Crash, hubVars, Annotate, Collect

(* Who changes what the accounts are wanted for.                           *)
LEMMA OnlyEdits ==
    ASSUME [Next]_vars, ~Edit
    PROVE  UNCHANGED <<spec, component, crd, edited, disabled, acts>>
BY DEF Next, Pass, vars, userVars, StartPass, Prepare, Annotate, CleanupPass, verifyMSAOption,
     NothingToDo, Crash, Tick, Issue, Report, Collect

(* How a pass begins.                                                      *)
LEMMA OnlyStarts ==
    ASSUME [Next]_vars, ~StartPass
    PROVE  pc' = pc \/ pc' = "idle"
BY DEF Next, Pass, vars, EndPass, Prepare, Annotate, CleanupPass, verifyMSAOption, NothingToDo, Crash,
     Tick, Issue, Report, Collect, Edit

LEMMA StartCases ==
    ASSUME StartPass
    PROVE  /\ pc' = "prepare" => spec.useMSA
           /\ pc' = "cleanup" => ~spec.useMSA
           /\ pc' = "done" => ~crd
<1>1. CASE pc' = "idle"
  BY <1>1
<1>2. CASE pc' = CASE Wanted -> "prepare"
                  [] spec.useMSA /\ ~Wanted -> "refused"
                  [] OTHER -> IF crd THEN "cleanup" ELSE "done"
  <2>1. CASE Wanted
    <3>1. pc' = "prepare" /\ spec.useMSA
      BY <1>2, <2>1 DEF Wanted
    <3> QED
      BY <3>1
  <2>2. CASE ~Wanted /\ spec.useMSA
    BY <1>2, <2>2
  <2>3. CASE ~Wanted /\ ~spec.useMSA
    BY <1>2, <2>3
  <2> QED
    BY <2>1, <2>2, <2>3
<1> QED
  BY <1>1, <1>2, Zenon DEF StartPass, EndPass

LEMMA PreparesWanted ==
    ASSUME StartPass, pc' = "prepare"
    PROVE  Wanted
<1>1. CASE pc' = CASE Wanted -> "prepare"
                  [] spec.useMSA /\ ~Wanted -> "refused"
                  [] OTHER -> IF crd THEN "cleanup" ELSE "done"
  BY <1>1
<1> QED
  BY <1>1, Zenon DEF StartPass, EndPass

LEMMA EditCases ==
    ASSUME TypeOK, Edit
    PROVE  /\ UNCHANGED <<secret, todo, pc, gap, faults>>
           /\ acts \in Nat /\ acts < MaxActs /\ acts' = acts + 1 /\ MaxActs \in Nat
           /\ \/ edited' /\ UNCHANGED <<crd, msa>> /\ spec'.useMSA = spec.useMSA
              \/ /\ "useMSA" \in Acts /\ UNCHANGED <<crd, msa, edited>>
                 /\ spec'.tokenValidity = spec.tokenValidity
              \/ disabled' /\ UNCHANGED <<spec, crd, msa, edited>>
              \/ ~crd' /\ UNCHANGED <<spec, edited>>
<1>1. acts \in 0..MaxActs /\ MaxActs \in Nat
  BY MSAAssumption DEF TypeOK
<1>2. acts \in Nat
  BY <1>1
<1>3. acts < MaxActs /\ acts' = acts + 1 /\ UNCHANGED <<secret, todo, pc, gap, faults>>
  BY DEF Edit, Act
<1>4. CASE /\ edited' = TRUE /\ UNCHANGED <<crd, msa>>
           /\ \E v \in Validities \ {spec.tokenValidity} : spec' = [spec EXCEPT !.tokenValidity = v]
  <2>1. spec'.useMSA = spec.useMSA
    BY <1>4 DEF TypeOK
  <2> QED
    BY <1>1, <1>2, <1>3, <1>4, <2>1
<1>5. CASE Act("useMSA") /\ spec' = [spec EXCEPT !.useMSA = ~@] /\ UNCHANGED <<crd, msa, edited>>
  <2>1. spec'.tokenValidity = spec.tokenValidity
    BY <1>5 DEF TypeOK
  <2>2. "useMSA" \in Acts
    BY <1>5 DEF Act
  <2> QED
    BY <1>1, <1>2, <1>3, <1>5, <2>1, <2>2
<1>6. CASE disabled' /\ UNCHANGED <<spec, crd, msa, edited>>
  BY <1>1, <1>2, <1>3, <1>6
<1>7. CASE crd' = FALSE /\ UNCHANGED <<spec, edited>>
  BY <1>1, <1>2, <1>3, <1>7
<1> QED
  BY <1>4, <1>5, <1>6, <1>7 DEF Edit

LEMMA SwitchStep ==
    ASSUME TypeOK, RotationLaw, SwitchInv, [Next]_vars
    PROVE  SwitchInv'
<1>1. EnabledInv'
  BY EnabledStep DEF SwitchInv
<1>2. CASE Edit
  <2>1. /\ UNCHANGED pc /\ acts \in Nat /\ acts < MaxActs /\ acts' = acts + 1 /\ MaxActs \in Nat
        /\ "useMSA" \in Acts \/ spec'.useMSA = spec.useMSA
        /\ crd' = crd \/ ~crd'
    BY <1>2, EditCases
  <2>2. "cleanup" \in Faults => spec.useMSA
    <3>1. ~(acts >= MaxActs)
      BY <2>1
    <3> QED
      BY <3>1 DEF SwitchInv
  <2>3. "cleanup" \in Faults /\ ~spec'.useMSA => acts' >= MaxActs
    <3>1. "cleanup" \in Faults /\ "useMSA" \in Acts => MaxActs <= 1
      BY DEF RotationLaw
    <3>2. MaxActs <= 1 => acts' >= MaxActs
      BY <2>1
    <3> QED
      BY <2>1, <2>2, <3>1, <3>2
  <2>4. "cleanup" \in Faults => pc # "cleanup"
    BY <2>2 DEF SwitchInv
  <2> QED
    BY <1>1, <2>1, <2>3, <2>4 DEF SwitchInv
<1>3. CASE ~Edit
  <2>1. UNCHANGED <<spec, crd, acts>>
    BY <1>3, OnlyEdits
  <2>2. (pc' = "cleanup" => pc = "cleanup" \/ ~spec.useMSA) /\ (pc' = "done" => ~crd)
    <3>1. CASE StartPass
      BY <3>1, StartCases
    <3>2. CASE ~StartPass
      BY <3>2, OnlyStarts DEF SwitchInv
    <3> QED
      BY <3>1, <3>2
  <2> QED
    BY <1>1, <2>1, <2>2 DEF SwitchInv
<1> QED
  BY <1>2, <1>3

(* What no pass prepares any more is not labelled, and a pass removes its  *)
(* secret.                                                                 *)
LEMMA OffStep ==
    ASSUME TypeOK, TypeOK', SwitchInv, Off, ~disabled, crd, [Next]_vars
    PROVE  Off'
<1>1. ~Edit
  <2>1. acts >= MaxActs
    BY DEF Off
  <2>2. Edit => acts \in Nat /\ MaxActs \in Nat /\ acts < MaxActs
    BY EditCases
  <2> QED
    BY <2>1, <2>2
<1>2. UNCHANGED <<spec, component, crd, acts>>
  BY <1>1, OnlyEdits
<1>3. pc' # "prepare"
  <2>1. CASE StartPass
    BY <2>1, StartCases DEF Off
  <2>2. CASE ~StartPass
    BY <2>2, OnlyStarts DEF Off
  <2> QED
    BY <2>1, <2>2
<1>4. ~(\E c \in Clusters : Prepare(c)) /\ ~Annotate /\ ~verifyMSAOption /\ ~NothingToDo
  BY DEF Off, Prepare, Annotate, verifyMSAOption, NothingToDo, SwitchInv, EnabledInv
<1>5. ASSUME NEW k \in Keys, msa'[k].there
      PROVE  ~secret'[k].label /\ (secret'[k].there => secret'[k].token.age <= gap')
  <2>1. msa[k].there
    BY <1>4, <1>5, NoneMade
  <2>2. ~secret[k].label /\ (secret[k].there => secret[k].token.age <= gap)
    BY <2>1 DEF Off
  <2>3. /\ msa \in [Keys -> Accounts] /\ secret \in [Keys -> Secrets] /\ secret[k] \in Secrets
        /\ gap \in 0..MaxGap /\ gap' \in 0..MaxGap /\ MaxGap \in Nat
    BY MSAAssumption DEF TypeOK
  <2>4. gap \in Nat /\ gap' \in Nat /\ secret[k].token \in Tokens /\ secret[k].token.age \in Nat
    BY <2>3, SecretParts
  <2>5. ASSUME CleanupPass
        PROVE  ~secret'[k].label /\ (secret'[k].there => secret'[k].token.age <= gap')
    <3>1. ASSUME NEW kept, cleanupMSAForImportedClusters(5, kept) PROVE secret'[k] = NoSecret
      <4>1. Rest(4, 5, MSASecrets) = {{}}
        BY DEF Rest
      <4> QED
        BY <3>1, <4>1 DEF cleanupMSAForImportedClusters
    <3>2. ASSUME NEW stop, cleanupMSAForImportedClusters(stop, {}) PROVE FALSE
      BY <1>5, <3>2, Absent DEF cleanupMSAForImportedClusters
    <3>3. ASSUME EndPass(FALSE) PROVE gap' = gap /\ secret'[k] \in {secret[k], NoSecret}
      BY <2>3, <2>5, <3>3, CleanupShape DEF EndPass, Cleaning
    <3>4. secret'[k] = NoSecret \/ EndPass(FALSE)
      BY <2>5, <3>1, <3>2 DEF CleanupPass
    <3> QED
      BY <2>2, <3>3, <3>4, Absent
  <2>6. ASSUME NEW j \in Keys, Issue(j)
        PROVE  ~secret'[k].label /\ (secret'[k].there => secret'[k].token.age <= gap')
    <3> DEFINE token == [age |-> 0, total |-> msa[j].validity]
    <3>1. secret' = [secret EXCEPT ![j] = [secret[j] EXCEPT !.there = TRUE, !.token = token]]
          /\ gap' = gap /\ token.age = 0
      BY <2>6, IssueShape DEF Issue
    <3> HIDE DEF token
    <3>2. CASE k = j
      <4>1. secret'[k] = [secret[k] EXCEPT !.there = TRUE, !.token = token]
        BY <2>3, <3>1, <3>2
      <4>2. secret'[k].label = secret[k].label /\ secret'[k].token = token
        BY <2>3, <4>1 DEF Secrets
      <4> QED
        BY <2>2, <2>4, <3>1, <4>2
    <3>3. CASE k # j
      BY <2>2, <2>3, <3>1, <3>3
    <3> QED
      BY <3>2, <3>3
  <2>7. ASSUME NEW j \in Keys, Collect(j)
        PROVE  ~secret'[k].label /\ (secret'[k].there => secret'[k].token.age <= gap')
    <3>1. (secret'[k] = secret[k] \/ secret'[k] = NoSecret) /\ gap' = gap
      BY <2>3, <2>7 DEF Collect
    <3> QED
      BY <2>2, <3>1, Absent
  <2>8. ASSUME Tick
        PROVE  ~secret'[k].label /\ (secret'[k].there => secret'[k].token.age <= gap')
    <3>1. /\ secret'[k] = [secret[k] EXCEPT !.token = Older(secret[k].token), !.note = Older(secret[k].note)]
          /\ gap' = gap + 1
      BY <2>8 DEF Tick
    <3>2. /\ secret'[k].label = secret[k].label /\ secret'[k].there = secret[k].there
          /\ secret'[k].token = Older(secret[k].token)
      BY <2>3, <3>1 DEF Secrets
    <3>3. Older(secret[k].token).age \in {secret[k].token.age, secret[k].token.age + 1}
      BY <2>4, OlderAge
    <3> QED
      BY <2>2, <2>4, <3>1, <3>2, <3>3
  <2>9. ASSUME UNCHANGED secret, gap' = gap
        PROVE  ~secret'[k].label /\ (secret'[k].there => secret'[k].token.age <= gap')
    BY <2>2, <2>9
  <2>10. StartPass \/ Crash \/ UNCHANGED vars \/ (\E j \in Keys : Report(j)) => UNCHANGED secret /\ gap' = gap
    BY DEF StartPass, Crash, vars, Report, EndPass, hubVars
  <2> QED
    BY <1>1, <1>4, <2>5, <2>6, <2>7, <2>8, <2>9, <2>10 DEF Next, Pass
<1> QED
  BY <1>2, <1>3, <1>5 DEF Off

(* Nothing is left, or there never was anything.                           *)
LEMMA NothingRotates ==
    ASSUME NEW v, NEW g, NEW l, NEW p, NEW late
    PROVE  /\ AccountAt(NoAccount, NoSecret, v, late)
           /\ PairAt(NoSecret, NoAccount, NoSecret, v, g, l, p)
<1>1. /\ ~NoAccount.there /\ ~NoSecret.there /\ ~NoSecret.label
      /\ ~Known(NoSecret.note) /\ ~Known(NoAccount.status)
  BY DEF NoAccount, NoSecret, NoToken, Known
<1> QED
  BY <1>1 DEF AccountAt, PairAt

(* Forgetting what is not there.                                           *)
LEMMA GoneRotates ==
    ASSUME NEW m, NEW s, NEW n, NEW t, NEW v, NEW l, AccountAt(m, s, v, l),
           n = m \/ (n = NoAccount /\ ~m.there), t = s \/ (t = NoSecret /\ ~s.there)
    PROVE  AccountAt(n, t, v, l)
<1>1. /\ ~NoAccount.there /\ ~NoSecret.there /\ ~NoSecret.label
      /\ ~Known(NoSecret.note) /\ ~Known(NoAccount.status)
  BY DEF NoAccount, NoSecret, NoToken, Known
<1>2. CASE n = m /\ t = s
  BY <1>2
<1>3. CASE n = NoAccount /\ ~m.there
  <2>1. ~t.there /\ ~t.label /\ ~Known(t.note)
    BY <1>1, <1>3 DEF AccountAt
  <2> QED
    BY <1>1, <1>3, <2>1 DEF AccountAt
<1>4. CASE n = m /\ t = NoSecret /\ ~s.there
  <2>1. ~Known(m.status) /\ ~(m.there /\ m.issued) /\ (m.there => m.validity = v)
    BY <1>4 DEF AccountAt
  <2> QED
    BY <1>1, <1>4, <2>1 DEF AccountAt
<1> QED
  BY <1>2, <1>3, <1>4

(* A clean-up that cannot list the accounts changes nothing.               *)
LEMMA RefusedRotates ==
    ASSUME TypeOK, TypeOK', RotationLaw, Rotating, CleanupPass,
           Fail("cleanup"), cleanupMSAForImportedClusters(1, MSAs), EndPass(FALSE)
    PROVE  Rotating'
<1> DEFINE v == spec.tokenValidity
           y == Late(faults')
<1>1. UNCHANGED <<spec, gap>> /\ pc' = "idle" /\ todo' = {}
  BY DEF CleanupPass, EndPass, userVars
<1>2. v \in Validities /\ gap \in Nat /\ Late(faults) \in Nat
  BY StateFacts
<1>3. y \in Nat /\ Late(faults) <= y
  BY FaultsGrow
<1>4. \A k \in Keys : /\ msa'[k] = msa[k] \/ (msa'[k] = NoAccount /\ ~msa[k].there)
                      /\ secret'[k] = secret[k] \/ (secret'[k] = NoSecret /\ ~secret[k].there)
  <2>1. Rest(4, 1, MSASecrets) = {MSASecrets}
    BY DEF Rest
  <2> QED
    BY <2>1 DEF cleanupMSAForImportedClusters, MSAs, MSASecrets
<1>5. ASSUME NEW k \in Keys PROVE AccountAt(msa'[k], secret'[k], v, gap + y)
  <2>1. AccountAt(msa[k], secret[k], v, gap + Late(faults)) /\ secret[k] \in Secrets
    BY DEF Rotating, AccountsInv, TypeOK
  <2>2. gap + Late(faults) \in Nat /\ gap + y \in Nat /\ gap + Late(faults) <= gap + y
    BY <1>2, <1>3
  <2>3. AccountAt(msa[k], secret[k], v, gap + y)
    BY <2>1, <2>2, AccountLater
  <2> QED
    BY <1>4, <2>3, GoneRotates
<1>6. ASSUME NEW c \in Clusters
      PROVE  PairAt(secret'[<<c, "initial">>], msa'[<<c, "pair">>], secret'[<<c, "pair">>], v, gap, y,
                    pc' = "prepare" /\ c \notin todo')
  <2> DEFINE k == <<c, "initial">>
             q == <<c, "pair">>
             before == pc = "prepare" /\ c \notin todo
             after == pc' = "prepare" /\ c \notin todo'
  <2>1. /\ k \in Keys /\ q \in Keys
        /\ secret[k] \in Secrets /\ secret[q] \in Secrets /\ msa[q] \in Accounts
        /\ AccountAt(msa[k], secret[k], v, gap + Late(faults))
        /\ AccountAt(msa[q], secret[q], v, gap + Late(faults))
        /\ PairAt(secret[k], msa[q], secret[q], v, gap, Late(faults), before)
    BY ClusterFacts
  <2>2. ~after
    BY <1>1
  <2> HIDE DEF k, q, before, after
  <2>3. PairAt(secret[k], msa[q], secret[q], v, gap, y, after)
    BY <1>2, <1>3, <2>1, <2>2, PairLater
  <2>4. CASE msa[q].there
    <3>1. msa'[q] = msa[q] /\ secret'[k] = secret[k]
      BY <1>4, <2>1, <2>4 DEF PairAt, AccountAt
    <3>2. secret'[q] = secret[q] \/ (~secret'[q].there /\ ~secret[q].there)
      BY <1>4, <2>1, Absent
    <3> QED
      BY <2>3, <3>1, <3>2 DEF PairAt, k, q, after
  <2>5. CASE ~msa[q].there
    <3>1. ~msa'[q].there /\ ~secret'[q].there
      BY <1>4, <2>1, <2>5, Absent DEF AccountAt
    <3>2. secret'[k].there => secret'[k] = secret[k]
      BY <1>4, <2>1, Absent
    <3>3. secret'[k].there => secret'[k].token.age <= Half(v) + gap + y
      BY <2>3, <2>5, <3>2 DEF PairAt
    <3>4. PairAt(secret'[k], msa'[q], secret'[q], v, gap, y, after)
      BY <2>2, <3>1, <3>3 DEF PairAt
    <3> QED
      BY <3>4 DEF k, q, after
  <2> QED
    BY <2>4, <2>5
<1>7. HiveInv'
  <2>1. \A c \in Hive : \A n \in Names : <<c, n>> \in Keys /\ ~msa[<<c, n>>].there
    BY KeysOf, MSAAssumption DEF Rotating, HiveInv
  <2> QED
    BY <1>1, <1>4, <2>1, Absent DEF HiveInv
<1> QED
  BY <1>1, <1>5, <1>6, <1>7 DEF Rotating, AccountsInv, PairsInv

(* Clean-up removes everything, changes nothing, or leaves accounts or     *)
(* secrets that do not belong together.                                    *)
LEMMA CleanupRotates ==
    ASSUME TypeOK, TypeOK', RotationLaw, SwitchInv, Rotating, crd, CleanupPass
    PROVE  (Off \/ Rotating)'
<1>1. UNCHANGED <<spec, component, crd, acts>> /\ pc = "cleanup" /\ pc' = "idle" /\ todo' = {}
  BY DEF CleanupPass, EndPass, userVars
<1>2. CASE cleanupMSAForImportedClusters(5, {})
  <2>1. \A k \in Keys : msa'[k] = NoAccount /\ secret'[k] = NoSecret
    <3>1. Rest(4, 5, MSASecrets) = {{}}
      BY DEF Rest
    <3> QED
      BY <1>2, <3>1 DEF cleanupMSAForImportedClusters
  <2>2. AccountsInv'
    BY <2>1, NothingRotates DEF AccountsInv
  <2>3. PairsInv'
    <3>1. \A c \in Clusters : <<c, "initial">> \in Keys /\ <<c, "pair">> \in Keys
      BY KeysOf DEF Names
    <3> QED
      BY <2>1, <3>1, NothingRotates DEF PairsInv
  <2>4. HiveInv'
    <3>1. \A c \in Hive : \A n \in Names : <<c, n>> \in Keys
      BY KeysOf, MSAAssumption
    <3> QED
      BY <1>1, <2>1, <3>1, Absent DEF HiveInv
  <2> QED
    BY <2>2, <2>3, <2>4 DEF Rotating
<1>3. CASE Fail("cleanup") /\ cleanupMSAForImportedClusters(1, MSAs) /\ EndPass(FALSE)
  BY <1>3, RefusedRotates
<1>4. CASE Fail("cleanup") /\ \/ \E k \in MSAs : cleanupMSAForImportedClusters(5, {k})
                              \/ \E stop \in 2..4 : cleanupMSAForImportedClusters(stop, {})
  <2>1. ~spec.useMSA /\ acts >= MaxActs
    BY <1>1, <1>4 DEF SwitchInv, Fail
  <2>2. \A k \in Keys : msa'[k].there => ~secret'[k].label /\ ~secret'[k].there
    <3>1. ASSUME NEW j \in MSAs, cleanupMSAForImportedClusters(5, {j})
          PROVE  \A k \in Keys : secret'[k] = NoSecret
      <4>1. Rest(4, 5, MSASecrets) = {{}}
        BY DEF Rest
      <4> QED
        BY <3>1, <4>1 DEF cleanupMSAForImportedClusters
    <3>2. ASSUME NEW stop \in 2..4, cleanupMSAForImportedClusters(stop, {})
          PROVE  \A k \in Keys : msa'[k] = NoAccount
      BY <3>2 DEF cleanupMSAForImportedClusters
    <3> QED
      BY <1>4, <3>1, <3>2, Absent
  <2> QED
    BY <1>1, <2>1, <2>2 DEF Off
<1> QED
  BY <1>2, <1>3, <1>4 DEF CleanupPass

LEMMA RotatingStep ==
    ASSUME TypeOK, TypeOK', RotationLaw, SwitchInv, Rotating, crd, crd',
           ~edited', ~disabled, ~disabled', [Next]_vars
    PROVE  (Off \/ Rotating)'
<1>1. faults \in Nat
  BY StateFacts
<1>2. CASE StartPass
  <2>1. UNCHANGED <<msa, secret, gap, spec>>
    BY <1>2 DEF StartPass, EndPass, hubVars, userVars
  <2>2. faults <= faults'
    BY <1>2, FaultsGrow DEF StartPass
  <2>3. todo' \cap Hive = {} /\ \A c \in Clusters : pc' = "prepare" /\ c \notin todo' => c \in Hive
    <3>1. pc' = "prepare" => Wanted
      BY <1>2, PreparesWanted
    <3>2. todo' = {} \/ todo' = Clusters \ Hive
      BY <1>2, Zenon DEF StartPass, EndPass
    <3>3. pc' = "prepare" => todo' = Clusters \ Hive
      BY <1>2, <3>1, Zenon DEF StartPass, EndPass
    <3> QED
      BY <3>2, <3>3
  <2> QED
    BY <2>1, <2>2, <2>3, HeldStep
<1>3. CASE Crash
  <2>1. UNCHANGED <<msa, secret, gap, spec>> /\ pc' = "idle" /\ todo' = {}
    BY <1>3 DEF Crash, EndPass, hubVars, userVars
  <2>2. faults <= faults'
    BY <1>3, FaultsGrow DEF Crash
  <2> QED
    BY <2>1, <2>2, HeldStep
<1>4. CASE Edit
  <2>1. UNCHANGED <<msa, secret, gap, todo, pc, faults>> /\ spec'.tokenValidity = spec.tokenValidity
    BY <1>4, EditCases
  <2>2. faults <= faults' /\ todo' \cap Hive = {}
    BY <1>1, <2>1 DEF Rotating, HiveInv
  <2> QED
    BY <2>1, <2>2, HeldStep
<1>5. CASE UNCHANGED vars
  <2>1. UNCHANGED <<msa, secret, gap, todo, pc, faults, spec>>
    BY <1>5 DEF vars
  <2>2. faults <= faults' /\ todo' \cap Hive = {}
    BY <1>1, <2>1 DEF Rotating, HiveInv
  <2> QED
    BY <2>1, <2>2, HeldStep
<1>6. ~NothingToDo /\ ~verifyMSAOption /\ component
  BY DEF NothingToDo, verifyMSAOption, SwitchInv, EnabledInv
<1>7. ~(\E k \in Keys : Collect(k))
  BY DEF Collect, Rotating, AccountsInv, AccountAt
<1> QED
  BY <1>2, <1>3, <1>4, <1>5, <1>6, <1>7, PrepareRotates, AnnotateRotates, CleanupRotates, IssueRotates,
    ReportRotates, TickRotates DEF Next, Pass

LEMMA RotationStep ==
    ASSUME TypeOK, TypeOK', RotationLaw, RotationInv, [Next]_vars
    PROVE  RotationInv'
<1>1. SwitchInv /\ SwitchInv'
  BY SwitchStep DEF RotationInv
<1>2. ASSUME ~edited', ~disabled', crd' PROVE ~edited /\ ~disabled /\ crd
  <2>1. ~disabled
    BY <1>1, <1>2, EnabledStep DEF SwitchInv
  <2>2. CASE Edit
    <3>1. UNCHANGED <<crd, edited>>
      BY <1>2, <2>2, EditCases
    <3> QED
      BY <1>2, <2>1, <3>1
  <2>3. CASE ~Edit
    <3>1. UNCHANGED <<crd, edited>>
      BY <2>3, OnlyEdits
    <3> QED
      BY <1>2, <2>1, <3>1
  <2> QED
    BY <2>2, <2>3
<1>3. ASSUME ~edited', ~disabled', crd' PROVE (Off \/ Rotating)'
  <2>1. Off \/ Rotating
    BY <1>2, <1>3 DEF RotationInv
  <2>2. CASE Off
    BY <1>1, <1>2, <1>3, <2>2, OffStep
  <2>3. CASE Rotating
    BY <1>1, <1>2, <1>3, <2>3, RotatingStep
  <2> QED
    BY <2>1, <2>2, <2>3
<1> QED
  BY <1>1, <1>3 DEF RotationInv

LEMMA RotationInit ==
    ASSUME Init
    PROVE  RotationInv
<1>1. /\ \A k \in Keys : msa[k] = NoAccount /\ secret[k] = NoSecret
      /\ todo = {} /\ pc = "idle" /\ spec.useMSA /\ (~disabled => component)
      /\ ~crd => \A k \in Keys : ~msa[k].there
  BY DEF Init, NoAccount
<1>2. AccountsInv
  BY <1>1, NothingRotates DEF AccountsInv
<1>3. PairsInv
  <2>1. \A c \in Clusters : <<c, "initial">> \in Keys /\ <<c, "pair">> \in Keys
    BY KeysOf DEF Names
  <2> QED
    BY <1>1, <2>1, NothingRotates DEF PairsInv
<1>4. HiveInv
  <2>1. \A c \in Hive : \A n \in Names : <<c, n>> \in Keys
    BY KeysOf, MSAAssumption
  <2> QED
    BY <1>1, <2>1, Absent DEF HiveInv
<1> QED
  BY <1>1, <1>2, <1>3, <1>4 DEF RotationInv, SwitchInv, EnabledInv, Rotating

(* The tokens of a backup outlive it.  Passes may be late by MaxGap each   *)
(* and calls may fail, as long as the delays add up to no more than the    *)
(* window of the pair (15 minutes in the code) and, with one pass more, to *)
(* less than Slack: then, until the validity is edited or the component is *)
(* disabled, a backup taken at any moment of the endless rotation holds a  *)
(* token from the time the first one is as old as Slack, a token in it is  *)
(* valid for half the validity but Slack, and selectValidMSASecret picks   *)
(* that one.                                                               *)
THEOREM RestoreAlwaysFindsToken ==
    ASSUME RotationLaw
    PROVE  Spec => []RestoreFindsToken
<1>1. Init => TypeOK /\ RotationInv
  BY TypeInit, RotationInit
<1>2. TypeOK /\ RotationInv /\ [Next]_vars => (TypeOK /\ RotationInv)'
  BY TypeStep, RotationStep
<1>3. TypeOK /\ RotationInv => RestoreFindsToken
  BY RotationFinds
<1> QED
  BY <1>1, <1>2, <1>3, PTL DEF Spec

=============================================================================
