----------------------- MODULE TransactionStoreProofs -----------------------
(***************************************************************************)
(* Proofs about TransactionStore, for every set of transactions and files, *)
(* every set of plans, with and without torn files and failures.           *)
(***************************************************************************)
EXTENDS TransactionStore, FiniteSetTheorems, TLAPS

(* The inductive invariant: types, what every transaction keeps (Safe), and *)
(* what the two operations that hold a stage rely on.                      *)

\* prepare and beginRevert reach their own writes only with the lease free.
AcquiredLeaseIsFree == stage \in {"prepare", "revert"} => lease.owner = Nobody

\* beginRevert is still about the committed creation it checked.
RevertTarget ==
    stage = "revert" => /\ subject \in Txns
                        /\ Revertible(journal[subject])

Safe(t) ==
    \* Open work holds the lease.
    /\ Open(journal[t]) => lease.owner = t
    \* recoveryRequired is only ever set on work that can be recovered.
    /\ journal[t].recovery =>
          journal[t].status \in {"committing", "reverting", "failed"}
    \* An id that was not generated yet has left no trace.
    /\ born[t] = 0 => journal[t].status = "none"
    \* Authorization already implies the backups; until the journal is past its
    \* retention window they stay with it, and so do the credentials.
    /\ Kept(t) /\ (journal[t].status = "authorized" \/ journal[t].planned) =>
          journal[t].plan.existed \subseteq backups[t]
    /\ Kept(t) /\ journal[t].status # "none" => secret[t].exists

IInv ==
    /\ TypeOK
    /\ \A t \in Txns : Safe(t)
    /\ AcquiredLeaseIsFree
    /\ RevertTarget

LeaseType == [owner : Txns \cup {Nobody, Torn}, live : BOOLEAN]

-----------------------------------------------------------------------------
(* Types of the values the actions build. *)

LEMMA BlankTypes ==
    /\ NoJournal \in JournalType
    /\ NoSecret \in SecretType
    /\ FreeLease \in LeaseType
BY DEF NoJournal, NoSecret, FreeLease, NoPlan, JournalType, SecretType,
       Statuses, Outcomes, PlanType, LeaseType

LEMMA AuditedField ==
    ASSUME NEW j \in JournalType, NEW a \in BOOLEAN
    PROVE  [j EXCEPT !.audited = a] \in JournalType
BY DEF JournalType

LEMMA ClosingFields ==
    ASSUME NEW j \in JournalType, NEW s \in Statuses, NEW r \in BOOLEAN, NEW a \in BOOLEAN
    PROVE  [j EXCEPT !.status = s, !.recovery = r, !.audited = a] \in JournalType
BY DEF JournalType

LEMMA SecretFields ==
    ASSUME NEW s \in SecretType, NEW h \in BOOLEAN, NEW a \in BOOLEAN, NEW u \in BOOLEAN
    PROVE  /\ [s EXCEPT !.held = h] \in SecretType
           /\ [s EXCEPT !.exists = a, !.held = h] \in SecretType
           /\ [s EXCEPT !.authorized = h] \in SecretType
           /\ [s EXCEPT !.restoring = h] \in SecretType
           /\ [s EXCEPT !.held = h, !.authorized = a] \in SecretType
           /\ [s EXCEPT !.held = h, !.authorized = a, !.unconfirmed = u] \in SecretType
BY DEF SecretType

-----------------------------------------------------------------------------
(* What the shared writes do. *)

LEMMA ManifestStep ==
    ASSUME journal \in [Txns -> JournalType], NEW t \in Txns, NEW j \in JournalType,
           NEW n, NEW k, SaveManifest(t, j, n, k)
    PROVE  /\ journal' \in [Txns -> JournalType]
           /\ \A u \in Txns \ {t} : journal'[u] = journal[u]
           /\ journal'[t] = IF n >= k THEN j ELSE journal[t]
BY DEF SaveManifest

LEMMA SecretStep ==
    ASSUME secret \in [Txns -> SecretType], NEW t \in Txns, NEW s \in SecretType,
           NEW n, NEW k, SaveSecret(t, s, n, k)
    PROVE  /\ secret' \in [Txns -> SecretType]
           /\ \A u \in Txns \ {t} : secret'[u] = secret[u]
           /\ secret'[t] = IF n >= k THEN s ELSE secret[t]
BY DEF SaveSecret

LEMMA LeaseStep ==
    ASSUME lease \in LeaseType, NEW t \in Txns, NEW n, NEW k
    PROVE  /\ Renew(t, n, k) => /\ lease' \in LeaseType
                                /\ lease'.owner \in {lease.owner, t}
           /\ Release(t, n, k) => /\ lease' \in LeaseType
                                  /\ lease.owner # t => lease' = lease
                                  /\ ~(n >= k) => lease' = lease
<1>1. [owner |-> t, live |-> TRUE] \in LeaseType
  BY DEF LeaseType
<1>2. ASSUME Renew(t, n, k)
      PROVE  lease' \in LeaseType /\ lease'.owner \in {lease.owner, t}
  BY <1>1, <1>2 DEF Renew
<1>3. ASSUME Release(t, n, k)
      PROVE  /\ lease' \in LeaseType
             /\ lease.owner # t => lease' = lease
             /\ ~(n >= k) => lease' = lease
  BY <1>3, BlankTypes DEF Release
<1>. QED
  BY <1>2, <1>3

LEMMA AppendStep ==
    ASSUME auditTorn \in BOOLEAN, NEW n, NEW k, AppendLine(n, k)
    PROVE  auditTorn' \in BOOLEAN
<1>1. auditTorn' = auditTorn \/ auditTorn' = TRUE
  BY Zenon DEF AppendLine
<1>. QED
  BY <1>1

LEMMA EnsureStep ==
    ASSUME auditTorn \in BOOLEAN, audit \in [Txns -> Seq(Outcomes)],
           NEW t \in Txns, NEW event \in Outcomes, NEW n, NEW k,
           EnsureLine(t, event, n, k)
    PROVE  auditTorn' \in BOOLEAN /\ audit' \in [Txns -> Seq(Outcomes)]
<1>1. CASE Logged(t, event)
  BY <1>1 DEF EnsureLine
<1>2. CASE ~Logged(t, event)
  <2>1. auditTorn' \in BOOLEAN
    BY <1>2, AppendStep DEF EnsureLine
  <2>2. Append(audit[t], event) \in Seq(Outcomes)
    OBVIOUS
  <2>. QED
    BY <1>2, <2>1, <2>2 DEF EnsureLine
<1>. QED
  BY <1>1, <1>2

LEMMA StopsStep ==
    ASSUME NEW n, NEW reach, Stops(n, reach)
    PROVE  stage' \in {"idle", "down"} /\ subject' = Nobody /\ scan' = {}
BY DEF Stops

\* What Safe says of an open transaction.
LEMMA OpenIsWhole ==
    ASSUME NEW t, Safe(t), Open(journal[t])
    PROVE  /\ lease.owner = t /\ secret[t].exists
           /\ journal[t].status = "authorized" \/ journal[t].planned =>
                 journal[t].plan.existed \subseteq backups[t]
BY DEF Safe, Kept, Open

LEMMA LandedSafely ==
    ASSUME stage' \in {"idle", "down", "startup"}
    PROVE  AcquiredLeaseIsFree' /\ RevertTarget'
BY DEF AcquiredLeaseIsFree, RevertTarget

\* What a step on transaction t leaves of the others.
LEMMA Others ==
    ASSUME IInv, NEW t \in Txns,
           lease'.owner = lease.owner \/ lease.owner \notin Txns \ {t},
           \A u \in Txns \ {t} : /\ journal'[u] = journal[u]
                                 /\ secret'[u].exists = secret[u].exists
                                 /\ backups'[u] = backups[u]
                                 /\ born'[u] = born[u]
                                 /\ age'[u] = age[u]
    PROVE  \A u \in Txns \ {t} : Safe(u)'
BY DEF IInv, Safe, Kept, Open, Finished

-----------------------------------------------------------------------------
(* The initial state. *)

LEMMA InitTypeOK == Init => TypeOK
<1>. SUFFICES ASSUME Init PROVE TypeOK
  OBVIOUS
<1>. USE DEF Init
<1>1. lease \in [owner : Txns \cup {Nobody, Torn}, live : BOOLEAN]
  BY BlankTypes DEF LeaseType
<1>2. journal \in [Txns -> JournalType] /\ secret \in [Txns -> SecretType]
  BY BlankTypes
<1>3. <<>> \in Seq(Outcomes)
  OBVIOUS
<1>4. audit \in [Txns -> Seq(Outcomes)]
  BY <1>3
<1>5. backups \in [Txns -> SUBSET Files]
  OBVIOUS
<1>6. born \in [Txns -> Nat] /\ age \in [Txns -> 0..2]
  OBVIOUS
<1>. QED
  BY <1>1, <1>2, <1>4, <1>5, <1>6 DEF TypeOK

LEMMA InitIInv == Init => IInv
<1>. SUFFICES ASSUME Init PROVE IInv
  OBVIOUS
<1>1. TypeOK
  BY InitTypeOK
<1>2. ASSUME NEW t \in Txns PROVE Safe(t)
  BY DEF Init, Safe, Open, NoJournal, NoPlan
<1>3. AcquiredLeaseIsFree /\ RevertTarget
  BY DEF Init, AcquiredLeaseIsFree, RevertTarget
<1>. QED
  BY <1>1, <1>2, <1>3 DEF IInv

-----------------------------------------------------------------------------
(* The operations of an open transaction. *)

LEMMA UploadBackupIInv ==
    ASSUME IInv, NEW t \in Txns, NEW f \in Files, UploadBackup(t, f)
    PROVE  IInv'
<1>. DEFINE j == [journal[t] EXCEPT !.verified = @ \cup {f}]
<1>1. PICK n \in 1..3 :
          /\ backups' = [backups EXCEPT ![t] = @ \cup {f}]
          /\ SaveManifest(t, j, n, 2)
          /\ Renew(t, n, 3)
          /\ Stops(n, Upto(lease.owner # t, 3, 3))
  BY DEF UploadBackup, Upto
<1>2. /\ UNCHANGED <<secret, audit, auditTorn, born, age, calm, row>>
      /\ journal[t].status = "preparing"
  BY DEF UploadBackup
<1>3. TypeOK /\ Safe(t) /\ journal[t] \in JournalType /\ lease \in LeaseType
  BY DEF IInv, TypeOK, LeaseType
<1>4. j \in JournalType
  BY <1>3 DEF JournalType
<1>5. /\ journal' \in [Txns -> JournalType]
      /\ \A u \in Txns \ {t} : journal'[u] = journal[u]
      /\ journal'[t] \in {journal[t], j}
  BY <1>1, <1>3, <1>4, ManifestStep DEF TypeOK
<1>6. lease' \in LeaseType /\ lease'.owner \in {lease.owner, t}
  BY <1>1, <1>3, LeaseStep
<1>7. /\ lease.owner = t /\ secret[t].exists
      /\ journal[t].status = "authorized" \/ journal[t].planned =>
            journal[t].plan.existed \subseteq backups[t]
  BY <1>2, <1>3, OpenIsWhole DEF Open, Finished, Outcomes
<1>8. TypeOK'
  BY <1>1, <1>2, <1>3, <1>5, <1>6, StopsStep DEF TypeOK, LeaseType
<1>9. Safe(t)'
  <2>1. /\ j.status = journal[t].status /\ j.recovery = journal[t].recovery
        /\ j.planned = journal[t].planned /\ j.plan = journal[t].plan
    BY <1>3 DEF JournalType
  <2>2. backups[t] \subseteq backups'[t]
    BY <1>1, <1>3 DEF TypeOK
  <2>. QED
    BY <1>2, <1>3, <1>5, <1>6, <1>7, <2>1, <2>2 DEF Safe, Open, Finished
<1>10. \A u \in Txns \ {t} : Safe(u)'
  BY <1>1, <1>2, <1>3, <1>5, <1>6, <1>7, Others DEF TypeOK
<1>. QED
  BY <1>1, <1>8, <1>9, <1>10, StopsStep, LandedSafely DEF IInv

LEMMA AuthorizeIInv ==
    ASSUME IInv, NEW t \in Txns, Authorize(t)
    PROVE  IInv'
<1>. DEFINE j == [journal[t] EXCEPT !.status = "authorized"]
            s(n) == [secret[t] EXCEPT !.authorized = (n = 4)]
<1>1. PICK n \in 1..4 :
          /\ SaveSecret(t, s(n), n, 1)
          /\ SaveManifest(t, j, n, 2)
          /\ Renew(t, n, 3)
          /\ AppendLine(n, 4)
          /\ Stops(n, Upto(lease.owner # t, 3, Upto(auditTorn, 4, 4)))
  BY DEF Authorize, Upto
<1>2. /\ UNCHANGED <<backups, audit, born, age, calm, row>>
      /\ journal[t].status = "preparing"
      /\ journal[t].plan.existed \subseteq backups[t]
  BY DEF Authorize
<1>3. /\ TypeOK /\ Safe(t)
      /\ journal[t] \in JournalType /\ lease \in LeaseType /\ secret[t] \in SecretType
  BY DEF IInv, TypeOK, LeaseType
<1>4. j \in JournalType /\ s(n) \in SecretType
  <2>1. j \in JournalType
    BY <1>3 DEF JournalType, Statuses
  <2>2. s(n) \in SecretType
    BY <1>3, SecretFields
  <2>. QED
    BY <2>1, <2>2
<1>5. /\ journal' \in [Txns -> JournalType]
      /\ \A u \in Txns \ {t} : journal'[u] = journal[u]
      /\ journal'[t] \in {journal[t], j}
  BY <1>1, <1>3, <1>4, ManifestStep DEF TypeOK
<1>6. /\ secret' \in [Txns -> SecretType]
      /\ \A u \in Txns \ {t} : secret'[u] = secret[u]
      /\ secret'[t].exists = secret[t].exists
  BY <1>1, <1>3, <1>4, SecretStep DEF TypeOK, SecretType
<1>7. lease' \in LeaseType /\ lease'.owner \in {lease.owner, t}
  BY <1>1, <1>3, LeaseStep
<1>8. /\ lease.owner = t /\ secret[t].exists
      /\ journal[t].status = "authorized" \/ journal[t].planned =>
            journal[t].plan.existed \subseteq backups[t]
  BY <1>2, <1>3, OpenIsWhole DEF Open, Finished, Outcomes
<1>9. auditTorn' \in BOOLEAN
  BY <1>1, <1>3, AppendStep DEF TypeOK
<1>10. TypeOK'
  BY <1>1, <1>2, <1>3, <1>5, <1>6, <1>7, <1>9, StopsStep DEF TypeOK, LeaseType
<1>11. Safe(t)'
  BY <1>2, <1>3, <1>5, <1>6, <1>7, <1>8 DEF Safe, Open, Finished, JournalType
<1>12. \A u \in Txns \ {t} : Safe(u)'
  BY <1>2, <1>5, <1>6, <1>7, <1>8, Others
<1>. QED
  BY <1>1, <1>10, <1>11, <1>12, StopsStep, LandedSafely DEF IInv

LEMMA BeginCommitIInv ==
    ASSUME IInv, NEW t \in Txns, BeginCommit(t)
    PROVE  IInv'
<1>. DEFINE j == [journal[t] EXCEPT !.status = "committing",
                                    !.planned = TRUE, !.recovery = FALSE]
<1>1. PICK n \in 1..3 :
          /\ SaveManifest(t, j, n, 1)
          /\ Renew(t, n, 2)
          /\ AppendLine(n, 3)
          /\ Stops(n, Upto(lease.owner # t, 2, Upto(auditTorn, 3, 3)))
  BY DEF BeginCommit, Upto
<1>2. /\ UNCHANGED <<secret, backups, audit, born, age, calm, row>>
      /\ journal[t].status = "authorized"
  BY DEF BeginCommit
<1>3. TypeOK /\ Safe(t) /\ journal[t] \in JournalType /\ lease \in LeaseType
  BY DEF IInv, TypeOK, LeaseType
<1>4. j \in JournalType
  BY <1>3 DEF JournalType, Statuses
<1>5. /\ journal' \in [Txns -> JournalType]
      /\ \A u \in Txns \ {t} : journal'[u] = journal[u]
      /\ journal'[t] = j
  BY <1>1, <1>3, <1>4, ManifestStep DEF TypeOK
<1>6. lease' \in LeaseType /\ lease'.owner \in {lease.owner, t}
  BY <1>1, <1>3, LeaseStep
<1>7. /\ lease.owner = t /\ secret[t].exists
      /\ journal[t].status = "authorized" \/ journal[t].planned =>
            journal[t].plan.existed \subseteq backups[t]
  BY <1>2, <1>3, OpenIsWhole DEF Open, Finished, Outcomes
<1>8. auditTorn' \in BOOLEAN
  BY <1>1, <1>3, AppendStep DEF TypeOK
<1>9. TypeOK'
  BY <1>1, <1>2, <1>3, <1>5, <1>6, <1>8, StopsStep DEF TypeOK, LeaseType
<1>10. Safe(t)'
  BY <1>2, <1>3, <1>5, <1>6, <1>7 DEF Safe, Open, Finished, JournalType
<1>11. \A u \in Txns \ {t} : Safe(u)'
  BY <1>2, <1>5, <1>6, <1>7, Others
<1>. QED
  BY <1>1, <1>9, <1>10, <1>11, StopsStep, LandedSafely DEF IInv

LEMMA FailUnresolvedIInv ==
    ASSUME IInv, NEW t \in Txns, FailUnresolved(t)
    PROVE  IInv'
<1>. DEFINE j(n) == [journal[t] EXCEPT !.status = "failed",
                                       !.recovery = TRUE, !.audited = n >= 3]
<1>1. PICK n \in 1..4 :
          /\ EnsureLine(t, "failed", n, 2)
          /\ SaveManifest(t, j(n), n, 1)
          /\ lease' = IF n >= 4 THEN [owner |-> t, live |-> FALSE] ELSE lease
          /\ Stops(n, Upto(EnsureRaises(t, "failed"), 2, 4))
  <2>1. 1..Upto(EnsureRaises(t, "failed"), 2, 4) \subseteq 1..4
    BY DEF Upto
  <2>. QED
    BY <2>1 DEF FailUnresolved
<1>2. /\ UNCHANGED <<secret, backups, born, age, calm, row>>
      /\ journal[t].status \in {"preparing", "authorized", "committing"}
  BY DEF FailUnresolved
<1>3. TypeOK /\ Safe(t) /\ journal[t] \in JournalType /\ lease \in LeaseType
  BY DEF IInv, TypeOK, LeaseType
<1>4. j(n) \in JournalType
  <2>1. "failed" \in Statuses /\ (n >= 3) \in BOOLEAN
    BY DEF Statuses, Outcomes
  <2>. QED
    BY <1>3, <2>1, ClosingFields
<1>5. /\ journal' \in [Txns -> JournalType]
      /\ \A u \in Txns \ {t} : journal'[u] = journal[u]
      /\ journal'[t] = j(n)
  BY <1>1, <1>3, <1>4, ManifestStep DEF TypeOK
<1>6. lease' \in LeaseType /\ lease'.owner \in {lease.owner, t}
  BY <1>1, <1>3 DEF LeaseType
<1>7. /\ lease.owner = t /\ secret[t].exists
      /\ journal[t].status = "authorized" \/ journal[t].planned =>
            journal[t].plan.existed \subseteq backups[t]
  BY <1>2, <1>3, OpenIsWhole DEF Open, Finished, Outcomes
<1>8. auditTorn' \in BOOLEAN /\ audit' \in [Txns -> Seq(Outcomes)]
  BY <1>1, <1>3, EnsureStep DEF TypeOK, Outcomes
<1>9. TypeOK'
  BY <1>1, <1>2, <1>3, <1>5, <1>6, <1>8, StopsStep DEF TypeOK, LeaseType
<1>10. Safe(t)'
  BY <1>2, <1>3, <1>5, <1>6, <1>7 DEF Safe, Open, Finished, JournalType
<1>11. \A u \in Txns \ {t} : Safe(u)'
  BY <1>2, <1>5, <1>6, <1>7, Others
<1>. QED
  BY <1>1, <1>9, <1>10, <1>11, StopsStep, LandedSafely DEF IInv

LEMMA RecoverIInv ==
    ASSUME IInv, NEW t \in Txns, Recover(t)
    PROVE  IInv'
<1>. DEFINE s(n) == [secret[t] EXCEPT
                        !.held = (n = 2), !.authorized = (n = 2),
                        !.unconfirmed = UnconfirmedNativeCreation(journal[t])]
<1>1. PICK n \in 1..2 :
          /\ SaveSecret(t, s(n), n, 1)
          /\ AppendLine(n, 2)
          /\ Stops(n, Upto(auditTorn, 2, 2))
  <2>1. 1..Upto(auditTorn, 2, 2) \subseteq 1..2
    BY DEF Upto
  <2>. QED
    BY <2>1 DEF Recover
<1>2. UNCHANGED <<lease, journal, backups, audit, born, age, calm, row>>
  BY DEF Recover
<1>3. TypeOK /\ Safe(t) /\ journal[t] \in JournalType /\ secret[t] \in SecretType
  BY DEF IInv, TypeOK
<1>4. UnconfirmedNativeCreation(journal[t]) \in BOOLEAN
  BY <1>3 DEF UnconfirmedNativeCreation, JournalType, PlanType
<1>5. s(n) \in SecretType
  BY <1>3, <1>4, SecretFields
<1>6. /\ secret' \in [Txns -> SecretType]
      /\ \A u \in Txns : secret'[u].exists = secret[u].exists
  <2>1. s(n).exists = secret[t].exists
    BY <1>3 DEF SecretType
  <2>2. secret \in [Txns -> SecretType]
    BY <1>3 DEF TypeOK
  <2>3. /\ secret' \in [Txns -> SecretType]
        /\ \A u \in Txns \ {t} : secret'[u] = secret[u]
        /\ secret'[t] = IF n >= 1 THEN s(n) ELSE secret[t]
    BY <1>1, <1>5, <2>2, SecretStep
  <2>. QED
    BY <2>1, <2>3
<1>7. auditTorn' \in BOOLEAN
  BY <1>1, <1>3, AppendStep DEF TypeOK
<1>8. TypeOK'
  BY <1>1, <1>2, <1>3, <1>6, <1>7, StopsStep DEF TypeOK
<1>9. Safe(t)'
  BY <1>2, <1>3, <1>6 DEF Safe, Kept
<1>10. \A u \in Txns \ {t} : Safe(u)'
  BY <1>2, <1>6, Others
<1>. QED
  BY <1>1, <1>8, <1>9, <1>10, StopsStep, LandedSafely DEF IInv

LEMMA IssueRestoreTokenIInv ==
    ASSUME IInv, NEW t \in Txns, IssueRestoreToken(t)
    PROVE  IInv'
<1>. DEFINE s == [secret[t] EXCEPT !.restoring = TRUE]
<1>1. PICK n \in 1..2 :
          /\ SaveSecret(t, s, n, 1)
          /\ AppendLine(n, 2)
          /\ Stops(n, Upto(auditTorn, 2, 2))
  BY DEF IssueRestoreToken, Upto
<1>2. UNCHANGED <<lease, journal, backups, audit, born, age, calm, row>>
  BY DEF IssueRestoreToken
<1>3. TypeOK /\ Safe(t) /\ secret[t] \in SecretType
  BY DEF IInv, TypeOK
<1>4. s \in SecretType
  BY <1>3, SecretFields
<1>5. /\ secret' \in [Txns -> SecretType]
      /\ \A u \in Txns : secret'[u].exists = secret[u].exists
  <2>1. s.exists = secret[t].exists
    BY <1>3 DEF SecretType
  <2>. QED
    BY <1>1, <1>3, <1>4, <2>1, SecretStep DEF TypeOK
<1>6. auditTorn' \in BOOLEAN
  BY <1>1, <1>3, AppendStep DEF TypeOK
<1>7. TypeOK'
  BY <1>1, <1>2, <1>3, <1>5, <1>6, StopsStep DEF TypeOK
<1>8. Safe(t)'
  BY <1>2, <1>3, <1>5 DEF Safe, Kept
<1>9. \A u \in Txns \ {t} : Safe(u)'
  BY <1>2, <1>5, Others
<1>. QED
  BY <1>1, <1>7, <1>8, <1>9, StopsStep, LandedSafely DEF IInv

LEMMA RenewLeaseIInv ==
    ASSUME IInv, NEW t \in Txns, RenewLease(t)
    PROVE  IInv'
<1>1. /\ UNCHANGED <<stage, subject, scan, journal, secret, backups, audit,
                     auditTorn, born, age, calm, row>>
      /\ lease.owner = t /\ Renew(t, 1, 1) /\ stage = "idle"
  BY DEF RenewLease
<1>2. TypeOK /\ lease \in LeaseType
  BY DEF IInv, TypeOK, LeaseType
<1>3. lease' \in LeaseType /\ lease'.owner = lease.owner
  BY <1>1, <1>2, LeaseStep
<1>4. TypeOK'
  BY <1>1, <1>2, <1>3 DEF TypeOK, LeaseType
<1>5. \A u \in Txns : Safe(u)'
  BY <1>1, <1>3 DEF IInv, Safe, Kept, Open, Finished
<1>. QED
  BY <1>1, <1>4, <1>5, LandedSafely DEF IInv

-----------------------------------------------------------------------------
(* The operations that close a transaction. *)

\* What retention makes of the journals js.
Retained(js, gone, half) ==
    /\ journal' \in [Txns -> JournalType]
    /\ secret' \in [Txns -> SecretType]
    /\ backups' \in [Txns -> SUBSET Files]
    /\ \A u \in Txns : journal'[u] \in {NoJournal, js[u]}
    /\ \A u \in gone : journal'[u] = NoJournal
    /\ \A u \in Txns \ (gone \cup half) : /\ journal'[u] = js[u]
                                         /\ secret'[u] = secret[u]
                                         /\ backups'[u] = backups[u]

LEMMA RetainStep ==
    ASSUME TypeOK, NEW js \in [Txns -> JournalType], NEW gone \in SUBSET Txns,
           NEW half \in SUBSET Txns, Retain(js, gone, half)
    PROVE  Retained(js, gone, half)
<1>1. PICK manifests \in SUBSET half, secrets \in SUBSET half, files \in SUBSET Files :
         /\ journal' = [t \in Txns |-> IF t \in gone \cup manifests THEN NoJournal ELSE js[t]]
         /\ secret'  = [t \in Txns |-> IF t \in gone \cup secrets THEN NoSecret ELSE secret[t]]
         /\ backups' = [t \in Txns |-> CASE t \in gone -> {}
                                       [] t \in half \ gone -> backups[t] \ files
                                       [] OTHER -> backups[t]]
  BY DEF Retain
<1>2. journal' \in [Txns -> JournalType] /\ secret' \in [Txns -> SecretType]
  BY <1>1, BlankTypes DEF TypeOK
<1>3. ASSUME NEW u \in Txns PROVE backups'[u] \in SUBSET Files
  BY <1>1, <1>3 DEF TypeOK
<1>4. backups' \in [Txns -> SUBSET Files]
  BY <1>1, <1>3
<1>5. \A u \in Txns : journal'[u] \in {NoJournal, js[u]}
  BY <1>1
<1>6. \A u \in gone : journal'[u] = NoJournal
  BY <1>1
<1>7. \A u \in Txns \ (gone \cup half) : /\ journal'[u] = js[u]
                                       /\ secret'[u] = secret[u]
                                       /\ backups'[u] = backups[u]
  BY <1>1
<1>. QED
  BY <1>2, <1>4, <1>5, <1>6, <1>7 DEF Retained

LEMMA RemovedIsSafe ==
    ASSUME NEW u, journal'[u] = NoJournal
    PROVE  Safe(u)'
BY DEF Safe, Open, NoJournal

LEMMA HalvesStep ==
    ASSUME NEW removable, NEW gone, NEW half \in Halves(removable, gone)
    PROVE  half \in SUBSET removable
BY DEF Halves

\* A directory that retention left half removed was past its window.
LEMMA HalfIsSafe ==
    ASSUME TypeOK, UNCHANGED <<born, age>>, NEW u \in Txns,
           NEW js \in [Txns -> JournalType], u \in Removable(js, secret),
           born[u] = 0 => js[u].status = "none",
           journal'[u] \in {NoJournal, js[u]}
    PROVE  Safe(u)'
<1>1. CASE journal'[u] = NoJournal
  BY <1>1, RemovedIsSafe
<1>2. CASE journal'[u] = js[u]
  <2>1. Finished(js[u]) /\ age[u] >= Window(js[u])
    BY DEF Removable, Rows
  <2>2. ~Open(js[u]) /\ ~js[u].recovery /\ born'[u] # 0
    BY <2>1 DEF Open, Finished, Outcomes
  <2>3. ~(age'[u] < Window(js[u]))
    <3>1. age'[u] \in 0..2 /\ age'[u] >= Window(js[u])
      BY <2>1 DEF TypeOK
    <3>. QED
      BY <3>1 DEF Window
  <2>4. ~Kept(u)'
    BY <1>2, <2>2, <2>3 DEF Kept
  <2>. QED
    BY <1>2, <2>2, <2>4 DEF Safe
<1>. QED
  BY <1>1, <1>2

LEMMA CloseIInv ==
    ASSUME IInv, NEW t \in Txns, Open(journal[t]), NEW j \in JournalType,
           j.status \in Outcomes, ~j.recovery,
           j.planned = journal[t].planned, j.plan = journal[t].plan,
           NEW n \in 1..5, Close(t, j, n)
    PROVE  IInv'
<1>. DEFINE closed == [j EXCEPT !.audited = n >= 3]
            js     == [journal EXCEPT ![t] = closed]
<1>1. /\ EnsureLine(t, j.status, n, 2)
      /\ Release(t, n, 4)
      /\ \E gone \in SUBSET Removable(js, secret) :
            \E half \in Halves(Removable(js, secret), gone) : Retain(js, gone, half)
      /\ \E reach : Stops(n, reach)
      /\ UNCHANGED <<born, age, calm, row>>
  BY DEF Close
<1>2. TypeOK /\ Safe(t) /\ lease \in LeaseType /\ journal[t] \in JournalType
  BY DEF IInv, TypeOK, LeaseType
<1>3. lease.owner = t
  BY <1>2 DEF Safe
<1>4. closed \in JournalType /\ closed.status = j.status /\ closed.recovery = j.recovery
      /\ closed.plan = j.plan /\ closed.planned = j.planned
  <2>1. (n >= 3) \in BOOLEAN
    OBVIOUS
  <2>2. closed \in JournalType
    BY <2>1, AuditedField
  <2>. QED
    BY <2>2 DEF JournalType
<1>5. js \in [Txns -> JournalType] /\ js[t] = closed
      /\ \A u \in Txns \ {t} : js[u] = journal[u]
  BY <1>2, <1>4 DEF TypeOK
<1>6. PICK gone \in SUBSET Txns, half \in SUBSET Txns :
          Retain(js, gone, half) /\ half \subseteq Removable(js, secret)
  <2>1. Removable(js, secret) \subseteq Txns
    BY DEF Removable, Rows
  <2>2. PICK gone \in SUBSET Removable(js, secret) :
            \E half \in Halves(Removable(js, secret), gone) : Retain(js, gone, half)
    BY <1>1
  <2>3. PICK half \in Halves(Removable(js, secret), gone) : Retain(js, gone, half)
    BY <2>2
  <2>4. half \in SUBSET Removable(js, secret)
    BY HalvesStep
  <2>. QED
    BY <2>1, <2>3, <2>4
<1>7. /\ journal' \in [Txns -> JournalType]
      /\ secret' \in [Txns -> SecretType]
      /\ backups' \in [Txns -> SUBSET Files]
      /\ \A u \in Txns : journal'[u] \in {NoJournal, js[u]}
      /\ \A u \in gone : journal'[u] = NoJournal
      /\ \A u \in Txns \ (gone \cup half) : /\ journal'[u] = js[u]
                                           /\ secret'[u] = secret[u]
                                           /\ backups'[u] = backups[u]
  <2>1. Retained(js, gone, half)
    BY <1>2, <1>5, <1>6, RetainStep
  <2>. QED
    BY <2>1 DEF Retained
<1>8. auditTorn' \in BOOLEAN /\ audit' \in [Txns -> Seq(Outcomes)]
  BY <1>1, <1>2, EnsureStep DEF TypeOK
<1>9. lease' \in LeaseType
  BY <1>1, <1>2, LeaseStep
<1>10. stage' \in {"idle", "down"} /\ subject' = Nobody /\ scan' = {}
  BY <1>1, StopsStep
<1>11. TypeOK'
  BY <1>1, <1>2, <1>7, <1>8, <1>9, <1>10 DEF TypeOK, LeaseType
<1>12. \A u \in gone : Safe(u)'
  BY <1>7, RemovedIsSafe
<1>13. ASSUME NEW u \in half PROVE Safe(u)'
  <2>1. born[u] = 0 => js[u].status = "none"
    BY <1>2, <1>5, <1>6 DEF IInv, Safe, Open
  <2>. QED
    BY <1>1, <1>2, <1>5, <1>6, <1>7, <2>1, HalfIsSafe
<1>14. ASSUME NEW u \in Txns \ (gone \cup half) PROVE Safe(u)'
  <2>1. CASE u = t
    <3>1. /\ journal'[t] = closed /\ secret'[t] = secret[t]
          /\ backups'[t] = backups[t] /\ born' = born /\ age' = age
      BY <1>1, <1>5, <1>7, <2>1
    <3>2. ~Open(closed) /\ ~closed.recovery /\ closed.status # "authorized"
      BY <1>4 DEF Open, Finished, Outcomes
    <3>3. journal[t].status # "none" /\ Kept(t)
      BY DEF Open, Kept
    <3>. QED
      BY <1>2, <1>4, <2>1, <3>1, <3>2, <3>3 DEF Safe
  <2>2. CASE u # t
    <3>1. /\ journal'[u] = journal[u] /\ secret'[u] = secret[u]
          /\ backups'[u] = backups[u] /\ born' = born /\ age' = age
      BY <1>1, <1>5, <1>7, <2>2
    <3>2. Safe(u) /\ ~Open(journal[u])
      BY <1>3, <2>2 DEF IInv, Safe
    <3>. QED
      BY <3>1, <3>2 DEF Safe, Kept
  <2>. QED
    BY <2>1, <2>2
<1>. QED
  BY <1>10, <1>11, <1>12, <1>13, <1>14, LandedSafely DEF IInv

LEMMA CommitReceiptIInv ==
    ASSUME IInv, NEW t \in Txns, CommitReceipt(t)
    PROVE  IInv'
<1>. DEFINE j == [journal[t] EXCEPT !.status = "committed", !.recovery = FALSE,
                                    !.received = TRUE]
<1>1. PICK n \in 1..5 : Close(t, j, n)
  BY DEF CommitReceipt
<1>2. Open(journal[t])
  BY DEF CommitReceipt, Open, Finished, Outcomes
<1>3. journal[t] \in JournalType
  BY DEF IInv, TypeOK
<1>4. /\ j \in JournalType /\ j.status = "committed" /\ ~j.recovery
      /\ j.planned = journal[t].planned /\ j.plan = journal[t].plan
  BY <1>3 DEF JournalType, Statuses, Outcomes
<1>. QED
  BY <1>1, <1>2, <1>4, CloseIInv DEF Outcomes

LEMMA FailCleanIInv ==
    ASSUME IInv, NEW t \in Txns, FailClean(t)
    PROVE  IInv'
<1>. DEFINE j == [journal[t] EXCEPT !.status = "failed", !.recovery = FALSE]
<1>1. PICK n \in 1..5 : Close(t, j, n)
  BY DEF FailClean
<1>2. Open(journal[t])
  BY DEF FailClean, Open, Finished, Outcomes
<1>3. journal[t] \in JournalType
  BY DEF IInv, TypeOK
<1>4. /\ j \in JournalType /\ j.status = "failed" /\ ~j.recovery
      /\ j.planned = journal[t].planned /\ j.plan = journal[t].plan
  BY <1>3 DEF JournalType, Statuses, Outcomes
<1>. QED
  BY <1>1, <1>2, <1>4, CloseIInv DEF Outcomes

LEMMA AbandonIInv ==
    ASSUME IInv, NEW t \in Txns, Abandon(t)
    PROVE  IInv'
<1>. DEFINE j == Abandoned(journal[t])
<1>1. PICK n \in 1..5 : Close(t, j, n)
  BY DEF Abandon
<1>2. Open(journal[t])
  BY DEF Abandon, Open, Finished, Outcomes
<1>3. journal[t] \in JournalType
  BY DEF IInv, TypeOK
<1>4. /\ j \in JournalType /\ j.status = "abandoned" /\ ~j.recovery
      /\ j.planned = journal[t].planned /\ j.plan = journal[t].plan
  BY <1>3 DEF JournalType, Statuses, Outcomes, Abandoned
<1>. QED
  BY <1>1, <1>2, <1>4, CloseIInv DEF Outcomes

LEMMA RollbackIInv ==
    ASSUME IInv, NEW t \in Txns, Rollback(t)
    PROVE  IInv'
<1>. DEFINE j == [journal[t] EXCEPT !.status = "rolled_back", !.recovery = FALSE]
<1>1. PICK n \in 1..5 : Close(t, j, n)
  BY DEF Rollback
<1>2. Open(journal[t])
  BY DEF Rollback, Open, Finished, Outcomes
<1>3. journal[t] \in JournalType
  BY DEF IInv, TypeOK
<1>4. /\ j \in JournalType /\ j.status = "rolled_back" /\ ~j.recovery
      /\ j.planned = journal[t].planned /\ j.plan = journal[t].plan
  BY <1>3 DEF JournalType, Statuses, Outcomes
<1>. QED
  BY <1>1, <1>2, <1>4, CloseIInv DEF Outcomes

-----------------------------------------------------------------------------
(* Taking the lease. *)

LEMMA AcquireFreeIInv ==
    ASSUME IInv, stage = "idle", NEW t \in Txns \cup {Nobody}, NEW op \in {"prepare", "revert"},
           op = "revert" => t \in Txns /\ Revertible(journal[t]),
           AcquireFree(op, t)
    PROVE  IInv'
<1>1. /\ lease.owner = Nobody
      /\ stage' = op /\ subject' = t /\ scan' = {}
      /\ UNCHANGED <<lease, journal, secret, backups, audit, auditTorn, born, age, calm, row>>
  BY DEF AcquireFree, LeaseAcquired
<1>2. TypeOK'
  BY <1>1 DEF IInv, TypeOK
<1>3. \A u \in Txns : Safe(u)'
  BY <1>1 DEF IInv, Safe, Kept
<1>4. AcquiredLeaseIsFree' /\ RevertTarget'
  BY <1>1 DEF AcquiredLeaseIsFree, RevertTarget
<1>. QED
  BY <1>2, <1>3, <1>4 DEF IInv

LEMMA AcquireOrphanedIInv ==
    ASSUME IInv, stage = "idle", NEW t \in Txns \cup {Nobody}, NEW op \in {"prepare", "revert"},
           op = "revert" => t \in Txns /\ Revertible(journal[t]),
           AcquireOrphaned(op, t)
    PROVE  IInv'
<1>1. /\ lease.owner \in Txns /\ journal[lease.owner].status = "none"
      /\ lease' = FreeLease
      /\ stage' = op /\ subject' = t /\ scan' = {}
      /\ UNCHANGED <<journal, secret, backups, audit, auditTorn, born, age, calm, row>>
  BY DEF AcquireOrphaned, LeaseAcquired
<1>2. TypeOK'
  BY <1>1, BlankTypes DEF IInv, TypeOK, LeaseType
<1>3. \A u \in Txns : Safe(u)'
  BY <1>1 DEF IInv, Safe, Kept, Open
<1>4. AcquiredLeaseIsFree' /\ RevertTarget'
  BY <1>1 DEF AcquiredLeaseIsFree, RevertTarget, FreeLease
<1>. QED
  BY <1>2, <1>3, <1>4 DEF IInv

LEMMA AcquireFinishedIInv ==
    ASSUME IInv, stage = "idle", NEW t \in Txns \cup {Nobody}, NEW op \in {"prepare", "revert"},
           op = "revert" => t \in Txns /\ Revertible(journal[t]),
           AcquireFinished(op, t)
    PROVE  IInv'
<1>. DEFINE o == lease.owner
            j == [journal[o] EXCEPT !.audited = TRUE]
            all == IF journal[o].audited THEN 1 ELSE 3
<1>1. /\ o \in Txns /\ Finished(journal[o])
      /\ UNCHANGED <<secret, backups, born, age, calm, row>>
  BY DEF AcquireFinished
<1>2. PICK n : /\ IF journal[o].audited
                  THEN UNCHANGED <<audit, auditTorn>>
                  ELSE EnsureLine(o, journal[o].status, n, 1)
               /\ SaveManifest(o, j, n, 2)
               /\ Release(o, n, all)
               /\ IF n = all THEN LeaseAcquired(op, t) ELSE \E reach : Stops(n, reach)
  BY DEF AcquireFinished
<1>3. TypeOK /\ Safe(o) /\ lease \in LeaseType /\ journal[o] \in JournalType
  BY <1>1 DEF IInv, TypeOK, LeaseType
<1>4. j \in JournalType
  BY <1>3, AuditedField
<1>5. /\ journal' \in [Txns -> JournalType]
      /\ \A u \in Txns \ {o} : journal'[u] = journal[u]
      /\ journal'[o] \in {journal[o], j}
  BY <1>1, <1>2, <1>3, <1>4, ManifestStep DEF TypeOK
<1>6. /\ j.status = journal[o].status /\ j.recovery = journal[o].recovery
      /\ j.plan = journal[o].plan /\ j.planned = journal[o].planned
      /\ j.received = journal[o].received
  BY <1>3 DEF JournalType
<1>7. lease' \in LeaseType
  BY <1>1, <1>2, <1>3, LeaseStep
<1>8. auditTorn' \in BOOLEAN /\ audit' \in [Txns -> Seq(Outcomes)]
  <2>1. CASE journal[o].audited
    BY <1>2, <1>3, <2>1 DEF TypeOK
  <2>2. CASE ~journal[o].audited
    BY <1>1, <1>2, <1>3, <2>2, EnsureStep DEF TypeOK, Finished
  <2>. QED
    BY <2>1, <2>2
<1>9. ASSUME NEW u \in Txns PROVE Safe(u)' /\ (Revertible(journal[u]) => Revertible(journal'[u]))
  <2>1. CASE u = o
    <3>1. ~Open(journal[o]) /\ ~Open(j) /\ ~j.recovery
      BY <1>1, <1>6 DEF Open, Finished
    <3>. QED
      BY <1>1, <1>3, <1>5, <1>6, <2>1, <3>1 DEF Safe, Kept, Window, Revertible
  <2>2. CASE u # o
    <3>1. Safe(u) /\ ~Open(journal[u]) /\ journal'[u] = journal[u]
      BY <1>5, <2>2 DEF IInv, Safe
    <3>. QED
      BY <1>1, <3>1 DEF Safe, Kept
  <2>. QED
    BY <2>1, <2>2
<1>10. CASE n = all
  <2>1. stage' = op /\ subject' = t /\ scan' = {}
    BY <1>2, <1>10 DEF LeaseAcquired
  <2>2. lease' = FreeLease
    BY <1>2, <1>10 DEF Release
  <2>3. TypeOK'
    BY <1>1, <1>3, <1>5, <1>7, <1>8, <2>1 DEF TypeOK, LeaseType
  <2>4. AcquiredLeaseIsFree' /\ RevertTarget'
    BY <1>9, <2>1, <2>2 DEF AcquiredLeaseIsFree, RevertTarget, FreeLease
  <2>. QED
    BY <1>9, <2>3, <2>4 DEF IInv
<1>11. CASE n # all
  <2>1. stage' \in {"idle", "down"} /\ subject' = Nobody /\ scan' = {}
    BY <1>2, <1>11, StopsStep
  <2>2. TypeOK'
    BY <1>1, <1>3, <1>5, <1>7, <1>8, <2>1 DEF TypeOK, LeaseType
  <2>. QED
    BY <1>9, <2>1, <2>2, LandedSafely DEF IInv
<1>. QED
  BY <1>10, <1>11

LEMMA AcquireStaleIInv ==
    ASSUME IInv, stage = "idle", NEW t \in Txns \cup {Nobody}, NEW op \in {"prepare", "revert"},
           op = "revert" => t \in Txns /\ Revertible(journal[t]),
           AcquireStale(op, t)
    PROVE  IInv'
<1>. DEFINE o == lease.owner
            j(n) == [Abandoned(journal[o]) EXCEPT !.audited = n >= 3]
<1>1. /\ o \in Txns /\ journal[o].status \in {"preparing", "authorized"}
      /\ UNCHANGED <<secret, backups, born, age, calm, row>>
  BY DEF AcquireStale
<1>2. PICK n \in 1..4 :
               /\ EnsureLine(o, "abandoned", n, 2)
               /\ SaveManifest(o, j(n), n, 1)
               /\ Release(o, n, 4)
               /\ IF n = 4 THEN LeaseAcquired(op, t) ELSE \E reach : Stops(n, reach)
  <2>1. 1..Upto(EnsureRaises(o, "abandoned"), 2, 4) \subseteq 1..4
    BY DEF Upto
  <2>. QED
    BY <2>1 DEF AcquireStale
<1>3. TypeOK /\ Safe(o) /\ lease \in LeaseType /\ journal[o] \in JournalType
  BY <1>1 DEF IInv, TypeOK, LeaseType
<1>4. Abandoned(journal[o]) \in JournalType /\ (n >= 3) \in BOOLEAN
  <2>1. "abandoned" \in Statuses /\ (n >= 3) \in BOOLEAN
    BY DEF Statuses, Outcomes
  <2>2. Abandoned(journal[o]) \in JournalType
    BY <1>3, <2>1, ClosingFields DEF Abandoned
  <2>. QED
    BY <2>1, <2>2
<1>5. j(n) \in JournalType
  BY <1>4, AuditedField
<1>6. /\ journal' \in [Txns -> JournalType]
      /\ \A u \in Txns \ {o} : journal'[u] = journal[u]
      /\ journal'[o] = j(n)
  BY <1>1, <1>2, <1>3, <1>5, ManifestStep DEF TypeOK
<1>7. /\ j(n).status = "abandoned" /\ ~j(n).recovery
      /\ j(n).plan = journal[o].plan /\ j(n).planned = journal[o].planned
  BY <1>3 DEF JournalType, Abandoned
<1>8. lease' \in LeaseType
  BY <1>1, <1>2, <1>3, LeaseStep
<1>9. auditTorn' \in BOOLEAN /\ audit' \in [Txns -> Seq(Outcomes)]
  BY <1>1, <1>2, <1>3, EnsureStep DEF TypeOK, Outcomes
<1>10. ASSUME NEW u \in Txns PROVE Safe(u)' /\ (Revertible(journal[u]) => Revertible(journal'[u]))
  <2>1. CASE u = o
    <3>1. ~Open(j(n)) /\ ~Revertible(journal[o]) /\ Open(journal[o])
      BY <1>1, <1>7 DEF Open, Finished, Outcomes, Revertible
    <3>2. /\ secret[o].exists
          /\ journal[o].planned => journal[o].plan.existed \subseteq backups[o]
      BY <1>3, <3>1, OpenIsWhole
    <3>. QED
      BY <1>1, <1>3, <1>6, <1>7, <2>1, <3>1, <3>2 DEF Safe
  <2>2. CASE u # o
    <3>1. Safe(u) /\ ~Open(journal[u]) /\ journal'[u] = journal[u]
      BY <1>6, <2>2 DEF IInv, Safe
    <3>. QED
      BY <1>1, <3>1 DEF Safe, Kept
  <2>. QED
    BY <2>1, <2>2
<1>11. CASE n = 4
  <2>1. stage' = op /\ subject' = t /\ scan' = {}
    BY <1>2, <1>11 DEF LeaseAcquired
  <2>2. lease' = FreeLease
    BY <1>2, <1>11 DEF Release
  <2>3. TypeOK'
    BY <1>1, <1>3, <1>6, <1>8, <1>9, <2>1 DEF TypeOK, LeaseType
  <2>4. AcquiredLeaseIsFree' /\ RevertTarget'
    BY <1>10, <2>1, <2>2 DEF AcquiredLeaseIsFree, RevertTarget, FreeLease
  <2>. QED
    BY <1>10, <2>3, <2>4 DEF IInv
<1>12. CASE n # 4
  <2>1. stage' \in {"idle", "down"} /\ subject' = Nobody /\ scan' = {}
    BY <1>2, <1>12, StopsStep
  <2>2. TypeOK'
    BY <1>1, <1>3, <1>6, <1>8, <1>9, <2>1 DEF TypeOK, LeaseType
  <2>. QED
    BY <1>10, <2>1, <2>2, LandedSafely DEF IInv
<1>. QED
  BY <1>11, <1>12

LEMMA AcquireRefusedIInv ==
    ASSUME IInv, stage = "idle", AcquireRefused
    PROVE  IInv'
<1>. DEFINE o == lease.owner
            j == [journal[o] EXCEPT !.recovery = TRUE]
<1>1. /\ o \in Txns /\ Open(journal[o])
      /\ journal[o].status \notin {"preparing", "authorized"}
      /\ SaveManifest(o, j, 1, 1)
      /\ UNCHANGED <<stage, subject, scan, lease, secret, backups, audit,
                     auditTorn, born, age, calm, row>>
  BY DEF AcquireRefused
<1>2. TypeOK /\ Safe(o) /\ journal[o] \in JournalType
  BY <1>1 DEF IInv, TypeOK
<1>3. /\ j \in JournalType /\ j.status = journal[o].status /\ j.recovery
      /\ j.plan = journal[o].plan /\ j.planned = journal[o].planned
  BY <1>2 DEF JournalType
<1>4. /\ journal' \in [Txns -> JournalType]
      /\ \A u \in Txns \ {o} : journal'[u] = journal[u]
      /\ journal'[o] = j
  BY <1>1, <1>2, <1>3, ManifestStep DEF TypeOK
<1>5. TypeOK'
  BY <1>1, <1>2, <1>4 DEF TypeOK
<1>6. journal[o].status \in {"committing", "reverting", "failed"}
  BY <1>1, <1>2 DEF Open, Finished, Safe, JournalType, Statuses, Outcomes
<1>7. Safe(o)'
  BY <1>1, <1>2, <1>3, <1>4, <1>6 DEF Safe, Kept
<1>8. \A u \in Txns \ {o} : Safe(u)'
  BY <1>1, <1>4, Others
<1>. QED
  BY <1>1, <1>5, <1>7, <1>8, LandedSafely DEF IInv

LEMMA AcquireLeaseIInv ==
    ASSUME IInv, stage = "idle", NEW t \in Txns \cup {Nobody}, NEW op \in {"prepare", "revert"},
           op = "revert" => t \in Txns /\ Revertible(journal[t]),
           AcquireLease(op, t)
    PROVE  IInv'
BY AcquireFreeIInv, AcquireOrphanedIInv, AcquireFinishedIInv, AcquireStaleIInv,
   AcquireRefusedIInv DEF AcquireLease

LEMMA PrepareIInv ==
    ASSUME IInv, NEW t \in Txns, NEW plan \in Plans, Prepare(t, plan)
    PROVE  IInv'
<1>. DEFINE s(n) == [NoSecret EXCEPT !.exists = TRUE, !.held = (n = 4)]
            j == [NoJournal EXCEPT !.status = "preparing", !.plan = plan]
<1>1. PICK n \in 0..4 :
          /\ \/ n > 0 /\ lease' = [owner |-> t, live |-> TRUE]
             \/ n = 0 /\ lease' = [owner |-> Torn, live |-> FALSE]
          /\ SaveSecret(t, s(n), n, 2)
          /\ SaveManifest(t, j, n, 3)
          /\ AppendLine(n, 4)
          /\ Stops(n, Upto(auditTorn, 4, 4))
  <2>1. 0..Upto(auditTorn, 4, 4) \subseteq 0..4
    BY DEF Upto
  <2>. QED
    BY <2>1 DEF Prepare
<1>2. /\ stage = "prepare" /\ born[t] = 0
      /\ born' = [born EXCEPT ![t] = Cardinality({u \in Txns : born[u] > 0}) + 1]
      /\ UNCHANGED <<backups, audit, age, calm, row>>
  BY DEF Prepare
<1>3. TypeOK /\ Safe(t) /\ AcquiredLeaseIsFree
  BY DEF IInv
<1>4. lease.owner = Nobody
  BY <1>2, <1>3 DEF AcquiredLeaseIsFree
<1>5. /\ lease' \in LeaseType
      /\ lease'.owner \in {t, Torn}
      /\ n > 0 => lease'.owner = t
  <2>1. \/ n > 0 /\ lease' = [owner |-> t, live |-> TRUE]
        \/ n = 0 /\ lease' = [owner |-> Torn, live |-> FALSE]
    BY <1>1
  <2>2. CASE n > 0 /\ lease' = [owner |-> t, live |-> TRUE]
    BY <2>2 DEF LeaseType
  <2>3. CASE n = 0 /\ lease' = [owner |-> Torn, live |-> FALSE]
    BY <2>3 DEF LeaseType
  <2>. QED
    BY <2>1, <2>2, <2>3
<1>6. s(n) \in SecretType /\ s(n).exists
  <2>1. (n = 4) \in BOOLEAN
    OBVIOUS
  <2>2. s(n) \in SecretType
    BY <2>1, BlankTypes, SecretFields
  <2>. QED
    BY BlankTypes DEF SecretType
<1>7. /\ j \in JournalType /\ j.status = "preparing" /\ ~j.recovery
      /\ ~j.planned
  <2>1. plan \in PlanType
    BY StoreAssumption
  <2>. QED
    BY <2>1, BlankTypes DEF JournalType, Statuses, NoJournal
<1>8. /\ secret' \in [Txns -> SecretType]
      /\ \A u \in Txns \ {t} : secret'[u] = secret[u]
      /\ secret'[t] = IF n >= 2 THEN s(n) ELSE secret[t]
  BY <1>1, <1>3, <1>6, SecretStep DEF TypeOK
<1>9. /\ journal' \in [Txns -> JournalType]
      /\ \A u \in Txns \ {t} : journal'[u] = journal[u]
      /\ journal'[t] = IF n >= 3 THEN j ELSE journal[t]
  BY <1>1, <1>3, <1>7, ManifestStep DEF TypeOK
<1>10. /\ born' \in [Txns -> Nat] /\ born'[t] # 0
       /\ \A u \in Txns \ {t} : born'[u] = born[u]
  <2>1. IsFiniteSet({u \in Txns : born[u] > 0})
    BY StoreAssumption, FS_Subset
  <2>2. Cardinality({u \in Txns : born[u] > 0}) \in Nat
    BY <2>1, FS_CardinalityType
  <2>. QED
    BY <1>2, <1>3, <2>2 DEF TypeOK
<1>11. auditTorn' \in BOOLEAN
  BY <1>1, <1>3, AppendStep DEF TypeOK
<1>12. TypeOK'
  BY <1>1, <1>2, <1>3, <1>5, <1>8, <1>9, <1>10, <1>11, StopsStep DEF TypeOK, LeaseType
<1>13. Safe(t)'
  <2>1. journal[t].status = "none" /\ ~Open(journal[t])
    BY <1>2, <1>3 DEF Safe, Open
  <2>2. CASE n >= 3
    <3>1. journal'[t] = j /\ secret'[t].exists /\ lease'.owner = t
      BY <1>5, <1>6, <1>8, <1>9, <2>2
    <3>. QED
      BY <1>7, <1>10, <3>1 DEF Safe
  <2>3. CASE ~(n >= 3)
    <3>1. journal'[t] = journal[t]
      BY <1>9, <2>3
    <3>. QED
      BY <1>2, <1>3, <1>10, <2>1, <3>1 DEF Safe, Kept
  <2>. QED
    BY <2>2, <2>3
<1>14. \A u \in Txns \ {t} : Safe(u)'
  BY <1>2, <1>4, <1>8, <1>9, <1>10, StoreAssumption, Others
<1>. QED
  BY <1>1, <1>12, <1>13, <1>14, StopsStep, LandedSafely DEF IInv

LEMMA BeginRevertIInv ==
    ASSUME IInv, NEW t \in Txns, BeginRevert(t)
    PROVE  IInv'
<1>. DEFINE s(n) == [secret[t] EXCEPT !.held = (n = 4)]
            j == [journal[t] EXCEPT !.status = "reverting", !.recovery = TRUE,
                                    !.audited = FALSE]
<1>1. PICK n \in 0..4 :
          /\ \/ n > 0 /\ lease' = [owner |-> t, live |-> TRUE]
             \/ n = 0 /\ lease' = [owner |-> Torn, live |-> FALSE]
          /\ SaveSecret(t, s(n), n, 2)
          /\ SaveManifest(t, j, n, 3)
          /\ AppendLine(n, 4)
          /\ Stops(n, Upto(auditTorn, 4, 4))
  <2>1. 0..Upto(auditTorn, 4, 4) \subseteq 0..4
    BY DEF Upto
  <2>. QED
    BY <2>1 DEF BeginRevert
<1>2. /\ stage = "revert" /\ subject = t /\ secret[t].exists
      /\ UNCHANGED <<backups, audit, born, age, calm, row>>
  BY DEF BeginRevert
<1>3. /\ TypeOK /\ Safe(t) /\ AcquiredLeaseIsFree /\ RevertTarget
      /\ secret[t] \in SecretType /\ journal[t] \in JournalType
  BY DEF IInv, TypeOK
<1>4. /\ lease.owner = Nobody
      /\ journal[t].status = "committed" /\ journal[t].plan.existed = {}
  BY <1>2, <1>3 DEF AcquiredLeaseIsFree, RevertTarget, Revertible
<1>5. /\ lease' \in LeaseType
      /\ lease'.owner \in {t, Torn}
      /\ n > 0 => lease'.owner = t
  <2>1. \/ n > 0 /\ lease' = [owner |-> t, live |-> TRUE]
        \/ n = 0 /\ lease' = [owner |-> Torn, live |-> FALSE]
    BY <1>1
  <2>2. CASE n > 0 /\ lease' = [owner |-> t, live |-> TRUE]
    BY <2>2 DEF LeaseType
  <2>3. CASE n = 0 /\ lease' = [owner |-> Torn, live |-> FALSE]
    BY <2>3 DEF LeaseType
  <2>. QED
    BY <2>1, <2>2, <2>3
<1>6. s(n) \in SecretType /\ s(n).exists = secret[t].exists
  <2>1. (n = 4) \in BOOLEAN
    OBVIOUS
  <2>2. s(n) \in SecretType
    BY <1>3, <2>1, SecretFields
  <2>. QED
    BY <1>3, <2>2 DEF SecretType
<1>7. /\ j \in JournalType /\ j.status = "reverting" /\ j.recovery
      /\ j.planned = journal[t].planned /\ j.plan = journal[t].plan
  BY <1>3 DEF JournalType, Statuses
<1>8. /\ secret' \in [Txns -> SecretType]
      /\ \A u \in Txns \ {t} : secret'[u] = secret[u]
      /\ secret'[t].exists
  BY <1>1, <1>2, <1>3, <1>6, SecretStep DEF TypeOK
<1>9. /\ journal' \in [Txns -> JournalType]
      /\ \A u \in Txns \ {t} : journal'[u] = journal[u]
      /\ journal'[t] = IF n >= 3 THEN j ELSE journal[t]
  BY <1>1, <1>3, <1>7, ManifestStep DEF TypeOK
<1>10. auditTorn' \in BOOLEAN
  BY <1>1, <1>3, AppendStep DEF TypeOK
<1>11. TypeOK'
  BY <1>1, <1>2, <1>3, <1>5, <1>8, <1>9, <1>10, StopsStep DEF TypeOK, LeaseType
<1>12. Safe(t)'
  <2>1. ~Open(journal[t])
    BY <1>2, <1>3, <1>4 DEF Open, RevertTarget, Revertible, Safe, Finished, Outcomes
  <2>2. CASE n >= 3
    <3>1. journal'[t] = j /\ lease'.owner = t
      BY <1>5, <1>9, <2>2
    <3>. QED
      BY <1>2, <1>3, <1>4, <1>7, <1>8, <3>1 DEF Safe
  <2>3. CASE ~(n >= 3)
    <3>1. journal'[t] = journal[t]
      BY <1>9, <2>3
    <3>. QED
      BY <1>2, <1>3, <1>8, <2>1, <3>1 DEF Safe, Kept
  <2>. QED
    BY <2>2, <2>3
<1>13. \A u \in Txns \ {t} : Safe(u)'
  BY <1>2, <1>4, <1>8, <1>9, StoreAssumption, Others
<1>. QED
  BY <1>1, <1>11, <1>12, <1>13, StopsStep, LandedSafely DEF IInv

-----------------------------------------------------------------------------
(* Start-up. *)

\* How far a journal of start-up got is never a stage that holds the lease.
LEMMA ScannedStep ==
    ASSUME TypeOK, NEW t \in Txns, NEW n, NEW reach, NEW all, Scanned(t, n, reach, all)
    PROVE  /\ stage' \in {"down", "startup"}
           /\ scan' \subseteq Txns
           /\ subject' \in Txns \cup {Nobody}
BY DEF Scanned, TypeOK

LEMMA ScanStagedIInv ==
    ASSUME IInv, NEW t \in Txns, ScanStaged(t)
    PROVE  IInv'
<1>. DEFINE j(n) == [Abandoned(journal[t]) EXCEPT !.audited = n >= 3]
<1>1. PICK n :
          /\ EnsureLine(t, "abandoned", n, 2)
          /\ SaveManifest(t, j(n), n, 1)
          /\ Release(t, n, 4)
          /\ \E reach : Scanned(t, n, reach, 4)
          /\ n >= 1 /\ n \in Int
  BY DEF ScanStaged
<1>2. /\ UNCHANGED <<secret, backups, born, age, calm, row>>
      /\ journal[t].status \in {"preparing", "authorized"}
  BY DEF ScanStaged
<1>3. TypeOK /\ Safe(t) /\ journal[t] \in JournalType /\ lease \in LeaseType
  BY DEF IInv, TypeOK, LeaseType
<1>4. j(n) \in JournalType
  <2>1. "abandoned" \in Statuses /\ (n >= 3) \in BOOLEAN
    BY DEF Statuses, Outcomes
  <2>2. Abandoned(journal[t]) \in JournalType
    BY <1>3, <2>1, ClosingFields DEF Abandoned
  <2>. QED
    BY <2>1, <2>2, AuditedField
<1>5. /\ journal' \in [Txns -> JournalType]
      /\ \A u \in Txns \ {t} : journal'[u] = journal[u]
      /\ journal'[t] = j(n)
  BY <1>1, <1>3, <1>4, ManifestStep DEF TypeOK
<1>6. /\ j(n).status = "abandoned" /\ ~j(n).recovery
      /\ j(n).plan = journal[t].plan /\ j(n).planned = journal[t].planned
  BY <1>3 DEF JournalType, Abandoned
<1>7. lease' \in LeaseType /\ lease.owner = t
  BY <1>1, <1>2, <1>3, LeaseStep DEF Safe, Open, Finished, Outcomes
<1>8. auditTorn' \in BOOLEAN /\ audit' \in [Txns -> Seq(Outcomes)]
  BY <1>1, <1>3, EnsureStep DEF TypeOK, Outcomes
<1>9. TypeOK'
  BY <1>1, <1>2, <1>3, <1>5, <1>7, <1>8, ScannedStep DEF TypeOK, LeaseType
<1>10. Safe(t)'
  BY <1>2, <1>3, <1>5, <1>6 DEF Safe, Kept, Open, Finished, Outcomes
<1>11. \A u \in Txns \ {t} : Safe(u)'
  BY <1>2, <1>5, <1>7, Others
<1>. QED
  BY <1>1, <1>3, <1>9, <1>10, <1>11, ScannedStep, LandedSafely DEF IInv

LEMMA ScanInterruptedIInv ==
    ASSUME IInv, NEW t \in Txns, ScanInterrupted(t)
    PROVE  IInv'
<1>. DEFINE j == [journal[t] EXCEPT !.recovery = TRUE]
<1>1. PICK n \in 1..3 :
          /\ SaveManifest(t, j, n, 1)
          /\ lease' = IF n >= 2 THEN [owner |-> t, live |-> FALSE] ELSE lease
          /\ AppendLine(n, 3)
          /\ \E reach : Scanned(t, n, reach, 3)
  <2>1. 1..Upto(auditTorn, 3, 3) \subseteq 1..3
    BY DEF Upto
  <2>. QED
    BY <2>1 DEF ScanInterrupted
<1>2. /\ UNCHANGED <<secret, backups, audit, born, age, calm, row>>
      /\ journal[t].status \in {"committing", "reverting"}
  BY DEF ScanInterrupted, Interrupted
<1>3. TypeOK /\ Safe(t) /\ journal[t] \in JournalType /\ lease \in LeaseType
  BY DEF IInv, TypeOK, LeaseType
<1>4. /\ j \in JournalType /\ j.status = journal[t].status /\ j.recovery
      /\ j.plan = journal[t].plan /\ j.planned = journal[t].planned
  BY <1>3 DEF JournalType
<1>5. /\ journal' \in [Txns -> JournalType]
      /\ \A u \in Txns \ {t} : journal'[u] = journal[u]
      /\ journal'[t] = j
  BY <1>1, <1>3, <1>4, ManifestStep DEF TypeOK
<1>6. /\ lease.owner = t /\ secret[t].exists
      /\ journal[t].status = "authorized" \/ journal[t].planned =>
            journal[t].plan.existed \subseteq backups[t]
  BY <1>2, <1>3, OpenIsWhole DEF Open, Finished, Outcomes
<1>7. lease' \in LeaseType /\ lease'.owner = t
  BY <1>1, <1>3, <1>6 DEF LeaseType
<1>8. auditTorn' \in BOOLEAN
  BY <1>1, <1>3, AppendStep DEF TypeOK
<1>9. TypeOK'
  BY <1>1, <1>2, <1>3, <1>5, <1>7, <1>8, ScannedStep DEF TypeOK, LeaseType
<1>10. Safe(t)'
  BY <1>2, <1>3, <1>4, <1>5, <1>6, <1>7 DEF Safe
<1>11. \A u \in Txns \ {t} : Safe(u)'
  BY <1>2, <1>5, <1>6, Others
<1>. QED
  BY <1>1, <1>3, <1>9, <1>10, <1>11, ScannedStep, LandedSafely DEF IInv

LEMMA ScanFailedIInv ==
    ASSUME IInv, NEW t \in Txns, ScanFailed(t)
    PROVE  IInv'
<1>1. /\ UNCHANGED <<journal, secret, backups, audit, auditTorn, born, age, calm, row>>
      /\ lease' = [owner |-> t, live |-> FALSE]
      /\ Scanned(t, 1, 1, 1)
      /\ journal[t].status = "failed" /\ journal[t].recovery
  BY DEF ScanFailed
<1>2. TypeOK /\ Safe(t)
  BY DEF IInv
<1>3. lease.owner = t
  BY <1>1, <1>2 DEF Safe, Open, Finished
<1>4. lease' \in LeaseType /\ lease'.owner = t
  BY <1>1 DEF LeaseType
<1>5. TypeOK'
  BY <1>1, <1>2, <1>4, ScannedStep DEF TypeOK, LeaseType
<1>6. \A u \in Txns : Safe(u)'
  BY <1>1, <1>3, <1>4 DEF IInv, Safe, Kept
<1>. QED
  BY <1>1, <1>2, <1>5, <1>6, ScannedStep, LandedSafely DEF IInv

LEMMA ScanFinishedIInv ==
    ASSUME IInv, NEW t \in Txns, ScanFinished(t)
    PROVE  IInv'
<1>. DEFINE j == [journal[t] EXCEPT !.audited = TRUE]
<1>1. /\ Finished(journal[t])
      /\ UNCHANGED <<secret, backups, born, age, calm, row>>
  BY DEF ScanFinished
<1>2. PICK n : /\ IF journal[t].audited
                  THEN UNCHANGED <<audit, auditTorn>>
                  ELSE EnsureLine(t, journal[t].status, n, 1)
               /\ SaveManifest(t, j, n, 2)
               /\ \E all : Release(t, n, all)
               /\ \E reach, all : Scanned(t, n, reach, all)
  BY DEF ScanFinished
<1>3. TypeOK /\ Safe(t) /\ lease \in LeaseType /\ journal[t] \in JournalType
  BY DEF IInv, TypeOK, LeaseType
<1>4. /\ j \in JournalType /\ j.status = journal[t].status
      /\ j.recovery = journal[t].recovery
      /\ j.plan = journal[t].plan /\ j.planned = journal[t].planned
  BY <1>3 DEF JournalType
<1>5. /\ journal' \in [Txns -> JournalType]
      /\ \A u \in Txns \ {t} : journal'[u] = journal[u]
      /\ journal'[t] \in {journal[t], j}
  BY <1>2, <1>3, <1>4, ManifestStep DEF TypeOK
<1>6. lease' \in LeaseType /\ (lease.owner # t => lease' = lease)
  BY <1>2, <1>3, LeaseStep
<1>7. auditTorn' \in BOOLEAN /\ audit' \in [Txns -> Seq(Outcomes)]
  <2>1. CASE journal[t].audited
    BY <1>2, <1>3, <2>1 DEF TypeOK
  <2>2. CASE ~journal[t].audited
    BY <1>1, <1>2, <1>3, <2>2, EnsureStep DEF TypeOK, Finished
  <2>. QED
    BY <2>1, <2>2
<1>8. TypeOK'
  BY <1>1, <1>2, <1>3, <1>5, <1>6, <1>7, ScannedStep DEF TypeOK, LeaseType
<1>9. Safe(t)'
  BY <1>1, <1>3, <1>4, <1>5 DEF Safe, Kept, Window, Open, Finished
<1>10. \A u \in Txns \ {t} : Safe(u)'
  BY <1>1, <1>5, <1>6, Others
<1>. QED
  BY <1>2, <1>3, <1>8, <1>9, <1>10, ScannedStep, LandedSafely DEF IInv

LEMMA StartupRetentionIInv ==
    ASSUME IInv, StartupRetention
    PROVE  IInv'
<1>1. /\ stage' \in {"idle", "down"}
      /\ \E gone \in SUBSET Removable(journal, secret) :
            \E half \in Halves(Removable(journal, secret), gone) :
               Retain(journal, gone, half)
      /\ UNCHANGED <<subject, scan, lease, audit, auditTorn, born, age, calm, row>>
  BY DEF StartupRetention
<1>2. TypeOK /\ journal \in [Txns -> JournalType]
  BY DEF IInv, TypeOK
<1>3. PICK gone \in SUBSET Txns, half \in SUBSET Txns :
          Retain(journal, gone, half) /\ half \subseteq Removable(journal, secret)
  <2>1. Removable(journal, secret) \subseteq Txns
    BY DEF Removable, Rows
  <2>2. PICK gone \in SUBSET Removable(journal, secret) :
            \E half \in Halves(Removable(journal, secret), gone) : Retain(journal, gone, half)
    BY <1>1
  <2>3. PICK half \in Halves(Removable(journal, secret), gone) : Retain(journal, gone, half)
    BY <2>2
  <2>4. half \in SUBSET Removable(journal, secret)
    BY HalvesStep
  <2>. QED
    BY <2>1, <2>3, <2>4
<1>4. /\ journal' \in [Txns -> JournalType]
      /\ secret' \in [Txns -> SecretType]
      /\ backups' \in [Txns -> SUBSET Files]
      /\ \A u \in Txns : journal'[u] \in {NoJournal, journal[u]}
      /\ \A u \in gone : journal'[u] = NoJournal
      /\ \A u \in Txns \ (gone \cup half) : /\ journal'[u] = journal[u]
                                           /\ secret'[u] = secret[u]
                                           /\ backups'[u] = backups[u]
  <2>1. Retained(journal, gone, half)
    BY <1>2, <1>3, RetainStep
  <2>. QED
    BY <2>1 DEF Retained
<1>5. TypeOK'
  BY <1>1, <1>2, <1>4 DEF TypeOK
<1>6. \A u \in gone : Safe(u)'
  BY <1>4, RemovedIsSafe
<1>7. ASSUME NEW u \in half PROVE Safe(u)'
  <2>1. born[u] = 0 => journal[u].status = "none"
    BY <1>3 DEF IInv, Safe
  <2>. QED
    BY <1>1, <1>2, <1>3, <1>4, <2>1, HalfIsSafe
<1>8. \A u \in Txns \ (gone \cup half) : Safe(u)'
  BY <1>1, <1>4 DEF IInv, Safe, Kept
<1>. QED
  BY <1>1, <1>5, <1>6, <1>7, <1>8, LandedSafely DEF IInv

-----------------------------------------------------------------------------
(* Steps that leave the manifests and the lease's owner alone. *)

LEMMA QuietIInv ==
    ASSUME IInv, TypeOK',
           UNCHANGED <<journal, backups, born>>,
           \A t \in Txns : Kept(t)' => Kept(t),
           lease'.owner = lease.owner,
           \A t \in Txns : secret'[t].exists = secret[t].exists,
           \/ stage' \in {"idle", "down", "startup"}
           \/ stage' = stage /\ subject' = subject
    PROVE  IInv'
<1>1. \A t \in Txns : Safe(t)'
  BY DEF IInv, Safe
<1>2. AcquiredLeaseIsFree' /\ RevertTarget'
  BY DEF IInv, AcquiredLeaseIsFree, RevertTarget
<1>. QED
  BY <1>1, <1>2 DEF IInv

LEMMA CredentialsLostIInv ==
    ASSUME IInv, NEW t \in Txns, CredentialsLost(t)
    PROVE  IInv'
<1>. DEFINE s == [secret[t] EXCEPT !.held = FALSE, !.authorized = FALSE]
<1>1. TypeOK /\ secret[t] \in SecretType
  BY DEF IInv, TypeOK
<1>2. s \in SecretType /\ s.exists = secret[t].exists
  BY <1>1 DEF SecretType
<1>3. /\ secret' \in [Txns -> SecretType]
      /\ \A u \in Txns : secret'[u].exists = secret[u].exists
  BY <1>1, <1>2, SecretStep DEF CredentialsLost, TypeOK
<1>4. TypeOK'
  BY <1>1, <1>3 DEF CredentialsLost, TypeOK
<1>. QED
  BY <1>3, <1>4, QuietIInv DEF CredentialsLost, Kept

LEMMA RestoreExpiresIInv ==
    ASSUME IInv, NEW t \in Txns, RestoreExpires(t)
    PROVE  IInv'
<1>. DEFINE s == [secret[t] EXCEPT !.restoring = FALSE]
<1>1. TypeOK /\ secret[t] \in SecretType
  BY DEF IInv, TypeOK
<1>2. s \in SecretType /\ s.exists = secret[t].exists
  BY <1>1 DEF SecretType
<1>3. /\ secret' \in [Txns -> SecretType]
      /\ \A u \in Txns : secret'[u].exists = secret[u].exists
  BY <1>1, <1>2, SecretStep DEF RestoreExpires, TypeOK
<1>4. TypeOK'
  BY <1>1, <1>3 DEF RestoreExpires, TypeOK
<1>. QED
  BY <1>3, <1>4, QuietIInv DEF RestoreExpires, Kept

LEMMA ScanRefusedIInv ==
    ASSUME IInv, NEW t \in Txns, ScanRefused(t)
    PROVE  IInv'
<1>1. TypeOK'
  BY DEF ScanRefused, IInv, TypeOK
<1>. QED
  BY <1>1, QuietIInv DEF ScanRefused, Kept

\* Rejected, Crash, Restart, the clock and the registry.
LEMMA OtherIInv ==
    ASSUME IInv,
           Rejected \/ Crash \/ Restart \/ LeaseExpires \/ MonthsPass \/ RowChanges \/ FailuresEnd
    PROVE  IInv'
<1>1. TypeOK
  BY DEF IInv
<1>2. CASE Rejected
  <2>1. TypeOK'
    BY <1>1, <1>2 DEF Rejected, TypeOK
  <2>. QED
    BY <1>2, <2>1, QuietIInv DEF Rejected, Kept
<1>3. CASE Crash
  <2>1. TypeOK'
    BY <1>1, <1>3 DEF Crash, TypeOK
  <2>. QED
    BY <1>3, <2>1, QuietIInv DEF Crash, Kept
<1>4. CASE Restart
  <2>1. TypeOK'
    BY <1>1, <1>4 DEF Restart, TypeOK
  <2>. QED
    BY <1>4, <2>1, QuietIInv DEF Restart, Kept
<1>5. CASE LeaseExpires
  <2>1. lease' \in LeaseType /\ lease'.owner = lease.owner
    BY <1>1, <1>5 DEF LeaseExpires, TypeOK, LeaseType
  <2>2. TypeOK'
    BY <1>1, <1>5, <2>1 DEF LeaseExpires, TypeOK, LeaseType
  <2>. QED
    BY <1>5, <2>1, <2>2, QuietIInv DEF LeaseExpires, Kept
<1>6. CASE MonthsPass
  <2>1. age' \in [Txns -> 0..2]
    <3>1. MaxAge \in 0..2 /\ age \in [Txns -> 0..2]
      BY <1>1, StoreAssumption DEF TypeOK
    <3>. QED
      BY <1>6, <3>1 DEF MonthsPass
  <2>2. TypeOK'
    BY <1>1, <1>6, <2>1 DEF MonthsPass, TypeOK
  <2>3. ASSUME NEW t \in Txns PROVE Kept(t)' => Kept(t)
    <3>1. age[t] \in 0..2 /\ age'[t] \in 0..2 /\ age[t] <= age'[t] /\ journal' = journal
      BY <1>1, <1>6 , <2>1 DEF MonthsPass, TypeOK
    <3>. QED
      BY <3>1 DEF Kept, Window
  <2>. QED
    BY <1>6, <2>2, <2>3, QuietIInv DEF MonthsPass
<1>7. CASE FailuresEnd
  <2>1. TypeOK'
    BY <1>1, <1>7 DEF FailuresEnd, TypeOK
  <2>. QED
    BY <1>7, <2>1, QuietIInv DEF FailuresEnd, Kept
<1>8. CASE RowChanges
  <2>1. TypeOK'
    BY <1>1, <1>8, StoreAssumption DEF RowChanges, TypeOK, StoreAssumption
  <2>. QED
    BY <1>8, <2>1, QuietIInv DEF RowChanges, Kept
<1>. QED
  BY <1>2, <1>3, <1>4, <1>5, <1>6, <1>7, <1>8

-----------------------------------------------------------------------------
(* Every step. *)

LEMMA WorkIInv ==
    ASSUME IInv, NEW t \in Txns, Work(t)
    PROVE  IInv'
<1>1. CASE StartRevert(t)
  BY <1>1, AcquireLeaseIInv DEF StartRevert
<1>2. CASE RecoverEnvironment(t)
  BY <1>2, ScanStagedIInv, ScanInterruptedIInv, ScanFailedIInv, ScanFinishedIInv,
     ScanRefusedIInv DEF RecoverEnvironment
<1>3. CASE (\E plan \in Plans : Prepare(t, plan)) \/ BeginRevert(t)
  BY <1>3, PrepareIInv, BeginRevertIInv
<1>4. CASE \/ \E f \in Files : UploadBackup(t, f)
           \/ Authorize(t) \/ BeginCommit(t) \/ FailUnresolved(t)
           \/ Recover(t) \/ IssueRestoreToken(t) \/ RenewLease(t)
  BY <1>4, UploadBackupIInv, AuthorizeIInv, BeginCommitIInv, FailUnresolvedIInv,
     RecoverIInv, IssueRestoreTokenIInv, RenewLeaseIInv
<1>5. CASE CommitReceipt(t) \/ FailClean(t) \/ Abandon(t) \/ Rollback(t)
  BY <1>5, CommitReceiptIInv, FailCleanIInv, AbandonIInv, RollbackIInv
<1>6. CASE CredentialsLost(t) \/ RestoreExpires(t)
  BY <1>6, CredentialsLostIInv, RestoreExpiresIInv
<1>. QED
  BY <1>1, <1>2, <1>3, <1>4, <1>5, <1>6 DEF Work

LEMMA NextIInv == IInv /\ [Next]_vars => IInv'
<1>. SUFFICES ASSUME IInv, [Next]_vars PROVE IInv'
  OBVIOUS
<1>1. CASE StartPrepare
  BY <1>1, AcquireLeaseIInv DEF StartPrepare
<1>2. CASE \E t \in Txns : Work(t)
  BY <1>2, WorkIInv
<1>3. CASE StartupRetention
  BY <1>3, StartupRetentionIInv
<1>4. CASE Rejected \/ Crash \/ Restart \/ LeaseExpires \/ MonthsPass \/ RowChanges \/ FailuresEnd
  BY <1>4, OtherIInv
<1>5. CASE UNCHANGED vars
  BY <1>5 DEF vars, IInv, TypeOK, Safe, Kept, AcquiredLeaseIsFree, RevertTarget
<1>. QED
  BY <1>1, <1>2, <1>3, <1>4, <1>5 DEF Next

-----------------------------------------------------------------------------
(* The theorems. *)

LEMMA InductiveInvariant == Spec => []IInv
<1>1. Init => IInv
  BY InitIInv
<1>2. IInv /\ [Next]_vars => IInv'
  BY NextIInv
<1>. QED
  BY <1>1, <1>2, PTL DEF Spec

\* In every state of every run the files and the stage have their types.
THEOREM TypeCorrect == Spec => []TypeOK
<1>1. IInv => TypeOK
  BY DEF IInv
<1>. QED
  BY <1>1, InductiveInvariant, PTL

\* Whatever crashes, expires, fails or is refused, work that may still touch
\* the source holds the lease of its environment (acquireLeaseInternal,
\* recoverEnvironment, releaseLeaseInternal).
THEOREM OpenWorkIsGuarded == Spec => []LeaseGuardsOpenWork
<1>1. IInv => LeaseGuardsOpenWork
  BY DEF IInv, Safe, LeaseGuardsOpenWork
<1>. QED
  BY <1>1, InductiveInvariant, PTL

\* While a transaction may write, and until it is past its retention window,
\* the original bytes of all its existing targets are there (uploadBackup,
\* authorize, beginCommit, and a retention pass cut short anywhere).
THEOREM BackupsPrecedeAuthority == Spec => []BackupsBeforeAuthority
<1>1. IInv => BackupsBeforeAuthority
  BY DEF IInv, Safe, BackupsBeforeAuthority
<1>. QED
  BY <1>1, InductiveInvariant, PTL

\* At every crash point a manifest that is open, or not past its retention
\* window, has its credentials file (prepare, applyRetentionInternal).
THEOREM CredentialsPrecedeJournal == Spec => []CredentialsBeforeJournal
<1>1. IInv => CredentialsBeforeJournal
  BY DEF IInv, Safe, CredentialsBeforeJournal
<1>. QED
  BY <1>1, InductiveInvariant, PTL

\* No two transactions of an environment are ever open together.
THEOREM OneOpenTransaction ==
    Spec => [](\A t, u \in Txns : Open(journal[t]) /\ Open(journal[u]) => t = u)
<1>1. IInv => \A t, u \in Txns : Open(journal[t]) /\ Open(journal[u]) => t = u
  BY DEF IInv, Safe
<1>. QED
  BY <1>1, InductiveInvariant, PTL

=============================================================================
