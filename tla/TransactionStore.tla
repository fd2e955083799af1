-------------------------- MODULE TransactionStore --------------------------
(***************************************************************************)
(* The durable transaction store of one environment, from                  *)
(* src/CitadelUI/server/transactions.mjs.                                   *)
(*                                                                         *)
(* The store runs one operation at a time for an environment (the promise  *)
(* queue of withEnvironment), but an operation is a sequence of separate   *)
(* file writes: lease.json, secret.json, manifest.json, a line of          *)
(* audit.jsonl, a backup file, the removal of an old journal.  Nobody else *)
(* sees the files between two of those writes, unless the process dies or  *)
(* a write fails there.  So each operation is one action that completes    *)
(* the first n of its writes, in the order of the code: all of them when   *)
(* nothing goes wrong, fewer when the process dies (stage = "down") or the *)
(* operation rejects half way (stage = "idle").  The two operations that   *)
(* first clear a stale lease, and start-up, are split where the code moves *)
(* from one journal to another; stage says how far they got.               *)
(*                                                                         *)
(* Time appears only where the code compares clocks: a live lease or token *)
(* may expire at any moment, and journals grow past the 30 and 90 day      *)
(* retention windows one month or two at a time.                           *)
(***************************************************************************)
EXTENDS Naturals, Sequences, FiniteSets

CONSTANTS
    Txns,             \* transaction ids that may be generated
    Files,            \* aliases of source files; every transaction changes all
    Plans,            \* what a prepare may propose
    Nobody,           \* owner of a lease file that does not exist
    Torn,             \* owner read from a lease file cut off while written
    MinimumPerTarget, \* newest journals retention always keeps
    MaxAge,           \* bound: age classes explored (2 = past 90 days)
    Tearing,          \* may a non-atomic write be cut inside the file?
    Failures,         \* "never", "always" possible, or possible until they "end"
    Restorable,       \* bound: transactions whose backups are asked for
    RowAfter          \* bound: what each row the registry may have may become

PlanType == [existed : SUBSET Files, native : BOOLEAN, creation : BOOLEAN]

ASSUME StoreAssumption ==
    /\ Nobody \notin Txns
    /\ Torn \notin Txns
    /\ Nobody # Torn
    /\ Plans \subseteq PlanType
    /\ IsFiniteSet(Txns)
    /\ MinimumPerTarget \in Nat
    /\ MaxAge \in 0..2
    /\ Tearing \in BOOLEAN
    /\ Failures \in {"never", "always", "end"}
    /\ Restorable \subseteq Txns
    /\ DOMAIN RowAfter \subseteq {"plain", "native", "retargeted"}
    /\ \A r \in DOMAIN RowAfter : RowAfter[r] \subseteq DOMAIN RowAfter

Outcomes  == {"committed", "rolled_back", "failed", "abandoned"}
Statuses  == Outcomes \cup {"none", "preparing", "authorized", "committing", "reverting"}

JournalType ==
    [status : Statuses, recovery : BOOLEAN, audited : BOOLEAN,
     verified : SUBSET Files, planned : BOOLEAN, received : BOOLEAN,
     plan : PlanType]
SecretType ==
    [exists : BOOLEAN, held : BOOLEAN, authorized : BOOLEAN,
     unconfirmed : BOOLEAN, restoring : BOOLEAN]

NoPlan    == [existed |-> {}, native |-> FALSE, creation |-> FALSE]
NoJournal == [status |-> "none", recovery |-> FALSE, audited |-> FALSE,
              verified |-> {}, planned |-> FALSE, received |-> FALSE,
              plan |-> NoPlan]
NoSecret  == [exists |-> FALSE, held |-> FALSE, authorized |-> FALSE,
              unconfirmed |-> FALSE, restoring |-> FALSE]
FreeLease == [owner |-> Nobody, live |-> FALSE]

VARIABLES
    stage,     \* what the server process is doing between two actions
    subject,   \* the transaction an interrupted stage is about, or Nobody
    scan,      \* the journals start-up has still to look at
    lease,     \* lease.json
    journal,   \* transactions/<id>/manifest.json
    secret,    \* transactions/<id>/secret.json
    backups,   \* transactions/<id>/files/*.backup
    audit,     \* the terminal events of each transaction in audit.jsonl
    auditTorn, \* does audit.jsonl end in half a line?
    born,      \* the order in which ids were generated, 0 when not yet
    age,       \* 0, 1 (past 30 days) or 2 (past 90 days)
    calm,      \* no more failures from here on
    row        \* what registry.json says of the environment

vars == <<stage, subject, scan, lease, journal, secret, backups, audit,
          auditTorn, born, age, calm, row>>

-----------------------------------------------------------------------------
(* Reading the durable state. *)

\* TERMINAL.has(status) && !recoveryRequired
Finished(j) == j.status \in Outcomes /\ ~j.recovery

\* A journal that still has, or may still get, authority over source bytes.
Open(j) == j.status # "none" /\ ~Finished(j)

Interrupted(j) == j.status \in {"committing", "reverting"}

\* readManifest refuses a native journal unless the environment's row is the
\* Terraform configuration the journal was prepared with, and another journal
\* when the row is any Terraform configuration.  A row is "plain" (Bicep, or
\* not there), "native" (that configuration) or "retargeted" (another one).
Refused(j) ==
    /\ j.status # "none"
    /\ row \in IF j.plan.native THEN {"plain", "retargeted"} ELSE {"native", "retargeted"}

\* Fault: trusts the flag of the manifest instead of reading the log.
LoggedByFlag(t, event) == journal[t].audited

Logged(t, event) == \E i \in DOMAIN audit[t] : audit[t][i] = event

\* assertTransactionToken and assertAuthorizationToken: only a browser that got
\* the answer that carried the current token can present it.
HasToken(t)         == secret[t].exists /\ secret[t].held
HasAuthorization(t) == secret[t].exists /\ secret[t].authorized

UnconfirmedNativeCreation(j) ==
    j.plan.native /\ j.status # "reverting" /\ j.plan.existed # Files /\ ~j.received

\* The age past which retention may remove a finished journal, and the journals
\* it must leave whole whatever their rank.
Window(j) == IF j.status \in {"failed", "abandoned"} THEN 1 ELSE 2
Kept(t)   == Open(journal[t]) \/ age[t] < Window(journal[t])

\* What applyRetentionInternal looks at, and what it may remove.
Rows(js, ss) == {t \in Txns : Finished(js[t]) /\ ~Refused(js[t]) /\ ~ss[t].restoring}
Newer(t, rows) == {u \in rows : born[u] > born[t]}

Removable(js, ss) ==
    {t \in Rows(js, ss) :
        /\ Cardinality(Newer(t, Rows(js, ss))) >= MinimumPerTarget
        /\ age[t] >= Window(js[t])}

-----------------------------------------------------------------------------
(* How an operation ends, and the writes several operations share.         *)
(* An operation has numbered writes.  It makes the first n of them; reach  *)
(* is the number it makes when nothing fails, which is short of the last   *)
(* one when a write first reads a file it cannot use and raises.           *)

\* The number of writes made of all when write k raises.
Upto(raises, k, all) == IF raises THEN k - 1 ELSE all

\* It answers, rejects or dies.
Stops(n, reach) ==
    /\ n < reach => ~calm
    /\ stage' \in IF n = reach THEN {"idle"} ELSE {"idle", "down"}
    /\ subject' = Nobody
    /\ scan' = {}

\* appendAudit as write k: it raises if the last line is half a line, and
\* leaves half a line if it is cut.
AppendLine(n, k) ==
    auditTorn' \in IF n = k - 1 /\ Tearing THEN {auditTorn, TRUE} ELSE {auditTorn}

\* ensureTerminalAudit: writes k (append if absent) and k + 1 (the flag).
EnsureRaises(t, event) == auditTorn /\ ~Logged(t, event)
\* Fault: logs the status the manifest had before the operation.
EnsureLineOfOldStatus(t, event, n, k) ==
    IF Logged(t, event)
    THEN UNCHANGED <<audit, auditTorn>>
    ELSE /\ AppendLine(n, k)
         /\ audit' = IF n >= k THEN [audit EXCEPT ![t] = Append(@, journal[t].status)]
                      ELSE audit
EnsureLine(t, event, n, k) ==
    IF Logged(t, event)
    THEN UNCHANGED <<audit, auditTorn>>
    ELSE /\ AppendLine(n, k)
         /\ audit' = IF n >= k THEN [audit EXCEPT ![t] = Append(@, event)] ELSE audit

\* The journals js survive retention but for the directories it removed.  Those
\* of gone are removed whole; a removal cut short leaves any part of one more.
Retain(js, gone, half) ==
    \E manifests \in SUBSET half, secrets \in SUBSET half, files \in SUBSET Files :
        /\ journal' = [t \in Txns |-> IF t \in gone \cup manifests THEN NoJournal ELSE js[t]]
        /\ secret'  = [t \in Txns |-> IF t \in gone \cup secrets THEN NoSecret ELSE secret[t]]
        /\ backups' = [t \in Txns |-> CASE t \in gone -> {}
                                      [] t \in half \ gone -> backups[t] \ files
                                      [] OTHER -> backups[t]]

\* The directory a removal of all but gone may have been working on.
Halves(removable, gone) == {{}} \cup {{t} : t \in removable \ gone}

\* The manifest of t becomes j as write k; its credentials become s.
SaveManifest(t, j, n, k) ==
    journal' = IF n >= k THEN [journal EXCEPT ![t] = j] ELSE journal
SaveSecret(t, s, n, k) ==
    secret' = IF n >= k THEN [secret EXCEPT ![t] = s] ELSE secret

\* renewLeaseInternal as write k; LEASE_LOST when the file is not t's.
Renew(t, n, k) ==
    lease' = IF n >= k THEN [owner |-> t, live |-> TRUE] ELSE lease

\* releaseLeaseInternal as write k: a lease of another transaction is left
\* alone, one that cannot be parsed raises.
\* Fault: releases whatever lease there is.
ReleaseAny(t, n, k) ==
    lease' = IF n >= k THEN FreeLease ELSE lease
Release(t, n, k) ==
    lease' = IF n >= k /\ lease.owner = t THEN FreeLease ELSE lease

\* The five writes that close transaction t with the terminal manifest j:
\* manifest, audit line, audit flag, lease, retention.
Close(t, j, n) ==
    LET reach == IF EnsureRaises(t, j.status) THEN 1 ELSE Upto(lease.owner = Torn, 4, 5)
        js    == [journal EXCEPT ![t] = [j EXCEPT !.audited = n >= 3]]
    IN  /\ n <= reach
        /\ EnsureLine(t, j.status, n, 2)
        /\ Release(t, n, 4)
        /\ \E gone \in SUBSET Removable(js, secret) :
              \E half \in Halves(Removable(js, secret), gone) :
                 /\ n < 4 => gone = {} /\ half = {}
                 /\ n = 5 => gone = Removable(js, secret)
                 /\ Retain(js, gone, half)
        /\ Stops(n, reach)
        /\ UNCHANGED <<born, age, calm, row>>

-----------------------------------------------------------------------------
(* prepare and beginRevert first take the environment's lease. *)

\* acquireLeaseInternal found nothing in the way.
LeaseAcquired(op, t) ==
    /\ stage' = op
    /\ subject' = t
    /\ scan' = {}

\* No lease file.
AcquireFree(op, t) ==
    /\ lease.owner = Nobody
    /\ LeaseAcquired(op, t)
    /\ UNCHANGED <<lease, journal, secret, backups, audit, auditTorn, born, age, calm, row>>

\* A lease whose journal was never written: dropped once it has expired.
AcquireOrphaned(op, t) ==
    /\ lease.owner \in Txns
    /\ journal[lease.owner].status = "none"
    /\ ~lease.live
    /\ lease' = FreeLease
    /\ LeaseAcquired(op, t)
    /\ UNCHANGED <<journal, secret, backups, audit, auditTorn, born, age, calm, row>>

\* A lease left by finished work: its terminal audit is completed first.
AcquireFinished(op, t) ==
    LET o == lease.owner
        all == IF journal[o].audited THEN 1 ELSE 3
        reach == Upto(~journal[o].audited /\ EnsureRaises(o, journal[o].status), 1, all)
    IN  /\ o \in Txns
        /\ ~Refused(journal[o])
        /\ Finished(journal[o])
        /\ \E n \in 0..reach :
              /\ IF journal[o].audited
                 THEN UNCHANGED <<audit, auditTorn>>
                 ELSE EnsureLine(o, journal[o].status, n, 1)
              /\ SaveManifest(o, [journal[o] EXCEPT !.audited = TRUE], n, 2)
              /\ Release(o, n, all)
              /\ IF n = all THEN LeaseAcquired(op, t) ELSE Stops(n, reach)
        /\ UNCHANGED <<secret, backups, born, age, calm, row>>

Abandoned(j) ==
    [j EXCEPT !.status = "abandoned", !.recovery = FALSE, !.audited = FALSE]

\* An expired lease of work that never reached committing: abandoned for it.
AcquireStale(op, t) ==
    LET o == lease.owner
        reach == Upto(EnsureRaises(o, "abandoned"), 2, 4)
    IN
    /\ o \in Txns
    /\ ~Refused(journal[o])
    /\ ~lease.live
    /\ journal[o].status \in {"preparing", "authorized"}
    /\ \E n \in 1..reach :
          /\ EnsureLine(o, "abandoned", n, 2)
          /\ SaveManifest(o, [Abandoned(journal[o]) EXCEPT !.audited = n >= 3], n, 1)
          /\ Release(o, n, 4)
          /\ IF n = 4 THEN LeaseAcquired(op, t) ELSE Stops(n, reach)
    /\ UNCHANGED <<secret, backups, born, age, calm, row>>

\* Fault: drops the expired lease of work that may have touched the source.
AcquireRefusedDropping ==
    LET o == lease.owner IN
    /\ o \in Txns
    /\ ~Refused(journal[o])
    /\ ~lease.live
    /\ Open(journal[o])
    /\ journal[o].status \notin {"preparing", "authorized"}
    /\ SaveManifest(o, [journal[o] EXCEPT !.recovery = TRUE], 1, 1)
    /\ lease' = FreeLease
    /\ UNCHANGED <<stage, subject, scan, secret, backups, audit, auditTorn,
                   born, age, calm, row>>

\* Fault: refuses without marking the journal for recovery.
AcquireRefusedUnmarked ==
    LET o == lease.owner IN
    /\ o \in Txns
    /\ ~Refused(journal[o])
    /\ ~lease.live
    /\ Open(journal[o])
    /\ journal[o].status \notin {"preparing", "authorized"}
    /\ UNCHANGED vars

\* An expired lease of work that may have touched the source: the operation
\* is refused and the journal marked, so that History offers recovery.
AcquireRefused ==
    LET o == lease.owner IN
    /\ o \in Txns
    /\ ~Refused(journal[o])
    /\ ~lease.live
    /\ Open(journal[o])
    /\ journal[o].status \notin {"preparing", "authorized"}
    /\ SaveManifest(o, [journal[o] EXCEPT !.recovery = TRUE], 1, 1)
    /\ UNCHANGED <<stage, subject, scan, lease, secret, backups, audit,
                   auditTorn, born, age, calm, row>>

AcquireLease(op, t) ==
    \/ AcquireFree(op, t)
    \/ AcquireOrphaned(op, t)
    \/ AcquireFinished(op, t)
    \/ AcquireStale(op, t)
    \/ AcquireRefused

StartPrepare ==
    /\ stage = "idle"
    /\ AcquireLease("prepare", Nobody)

\* Fault: the manifest is written before its credentials.
PrepareManifestFirst(t, plan) ==
    /\ stage = "prepare"
    /\ born[t] = 0
    /\ \E n \in 1..Upto(auditTorn, 4, 4) :
          /\ lease' = [owner |-> t, live |-> TRUE]
          /\ SaveManifest(t, [NoJournal EXCEPT !.status = "preparing", !.plan = plan], n, 2)
          /\ SaveSecret(t, [NoSecret EXCEPT !.exists = TRUE, !.held = (n = 4)], n, 3)
          /\ AppendLine(n, 4)
          /\ Stops(n, Upto(auditTorn, 4, 4))
    /\ born' = [born EXCEPT ![t] = Cardinality({u \in Txns : born[u] > 0}) + 1]
    /\ UNCHANGED <<backups, audit, age, calm, row>>

\* The writes of prepare: lease, secret, manifest, audit line 'prepared'.
Prepare(t, plan) ==
    /\ stage = "prepare"
    /\ born[t] = 0
    /\ \E n \in 0..Upto(auditTorn, 4, 4) :
          /\ \/ n > 0 /\ lease' = [owner |-> t, live |-> TRUE]
             \/ n = 0 /\ Tearing /\ lease' = [owner |-> Torn, live |-> FALSE]
          /\ SaveSecret(t, [NoSecret EXCEPT !.exists = TRUE, !.held = (n = 4)], n, 2)
          /\ SaveManifest(t, [NoJournal EXCEPT !.status = "preparing", !.plan = plan], n, 3)
          /\ AppendLine(n, 4)
          /\ Stops(n, Upto(auditTorn, 4, 4))
    /\ born' = [born EXCEPT ![t] = Cardinality({u \in Txns : born[u] > 0}) + 1]
    /\ UNCHANGED <<backups, audit, age, calm, row>>

\* prepare or beginRevert rejects between the lease it cleared and its first
\* write: always when the credentials to revert with are no longer there, or
\* when the bound leaves no id to generate.
Rejected ==
    /\ stage \in {"prepare", "revert"}
    /\ \/ ~calm
       \/ stage = "prepare" /\ \A t \in Txns : born[t] > 0
       \/ stage = "revert" /\ ~secret[subject].exists
    /\ stage' = "idle"
    /\ subject' = Nobody
    /\ UNCHANGED <<scan, lease, journal, secret, backups, audit, auditTorn,
                   born, age, calm, row>>

Revertible(j) ==
    /\ j.status = "committed"
    /\ j.plan.creation
    /\ j.plan.existed = {}
    /\ j.received

StartRevert(t) ==
    /\ stage = "idle"
    /\ ~Refused(journal[t])
    /\ Revertible(journal[t])
    /\ AcquireLease("revert", t)

\* The writes of beginRevert: lease, secret, manifest, audit line 'reverting'.
BeginRevert(t) ==
    /\ stage = "revert"
    /\ subject = t
    /\ secret[t].exists
    /\ \E n \in 0..Upto(auditTorn, 4, 4) :
          /\ \/ n > 0 /\ lease' = [owner |-> t, live |-> TRUE]
             \/ n = 0 /\ Tearing /\ lease' = [owner |-> Torn, live |-> FALSE]
          /\ SaveSecret(t, [secret[t] EXCEPT !.held = (n = 4)], n, 2)
          /\ SaveManifest(t, [journal[t] EXCEPT !.status = "reverting",
                                !.recovery = TRUE, !.audited = FALSE], n, 3)
          /\ AppendLine(n, 4)
          /\ Stops(n, Upto(auditTorn, 4, 4))
    /\ UNCHANGED <<backups, audit, born, age, calm, row>>

-----------------------------------------------------------------------------
(* The operations of an open transaction. *)

\* uploadBackup: backup bytes (re-read and verified), manifest, lease.
UploadBackup(t, f) ==
    /\ stage = "idle"
    /\ ~Refused(journal[t])
    /\ journal[t].status = "preparing"
    /\ HasToken(t)
    /\ f \in journal[t].plan.existed
    /\ \E n \in 1..Upto(lease.owner # t, 3, 3) :
          /\ backups' = [backups EXCEPT ![t] = @ \cup {f}]
          /\ SaveManifest(t, [journal[t] EXCEPT !.verified = @ \cup {f}], n, 2)
          /\ Renew(t, n, 3)
          /\ Stops(n, Upto(lease.owner # t, 3, 3))
    /\ UNCHANGED <<secret, audit, auditTorn, born, age, calm, row>>

\* Fault: authorizes without looking at the backups.
AuthorizeUnchecked(t) ==
    LET reach == Upto(lease.owner # t, 3, Upto(auditTorn, 4, 4)) IN
    /\ stage = "idle"
    /\ ~Refused(journal[t])
    /\ journal[t].status = "preparing"
    /\ HasToken(t)
    /\ \E n \in 1..reach :
          /\ SaveSecret(t, [secret[t] EXCEPT !.authorized = (n = 4)], n, 1)
          /\ SaveManifest(t, [journal[t] EXCEPT !.status = "authorized"], n, 2)
          /\ Renew(t, n, 3)
          /\ AppendLine(n, 4)
          /\ Stops(n, reach)
    /\ UNCHANGED <<backups, audit, born, age, calm, row>>

\* authorize: secret, manifest, lease, audit line 'authorized'.
Authorize(t) ==
    LET reach == Upto(lease.owner # t, 3, Upto(auditTorn, 4, 4)) IN
    /\ stage = "idle"
    /\ ~Refused(journal[t])
    /\ journal[t].status = "preparing"
    /\ HasToken(t)
    /\ journal[t].plan.existed \subseteq journal[t].verified \cap backups[t]
    /\ \E n \in 1..reach :
          /\ SaveSecret(t, [secret[t] EXCEPT !.authorized = (n = 4)], n, 1)
          /\ SaveManifest(t, [journal[t] EXCEPT !.status = "authorized"], n, 2)
          /\ Renew(t, n, 3)
          /\ AppendLine(n, 4)
          /\ Stops(n, reach)
    /\ UNCHANGED <<backups, audit, born, age, calm, row>>

\* beginCommit: manifest (the final hashes are now journaled), lease, audit
\* line 'committing'.  From here on the browser may write the source.
BeginCommit(t) ==
    LET reach == Upto(lease.owner # t, 2, Upto(auditTorn, 3, 3)) IN
    /\ stage = "idle"
    /\ ~Refused(journal[t])
    /\ journal[t].status = "authorized"
    /\ HasAuthorization(t)
    /\ \E n \in 1..reach :
          /\ SaveManifest(t, [journal[t] EXCEPT !.status = "committing",
                                !.planned = TRUE, !.recovery = FALSE], n, 1)
          /\ Renew(t, n, 2)
          /\ AppendLine(n, 3)
          /\ Stops(n, reach)
    /\ UNCHANGED <<secret, backups, audit, born, age, calm, row>>

\* commitReceipt, with receipts that match every planned final hash (a receipt
\* always carries a hash, so none matches before the plan is journaled).
CommitReceipt(t) ==
    /\ stage = "idle"
    /\ ~Refused(journal[t])
    /\ HasAuthorization(t)
    /\ ~secret[t].unconfirmed
    /\ journal[t].planned
    /\ \/ journal[t].status = "committing"
       \/ /\ journal[t].status = "failed"
          /\ journal[t].recovery
          /\ ~UnconfirmedNativeCreation(journal[t])
    /\ \E n \in 1..5 :
          Close(t, [journal[t] EXCEPT !.status = "committed", !.recovery = FALSE,
                                      !.received = TRUE], n)

\* Fault: a late fail is accepted whatever the status.
FailCleanLate(t) ==
    /\ stage = "idle"
    /\ ~Refused(journal[t])
    /\ HasToken(t)
    /\ journal[t].status # "none"
    /\ \E n \in 1..5 :
          Close(t, [journal[t] EXCEPT !.status = "failed", !.recovery = FALSE], n)

\* fail, when the browser reports that no file is left changed.
FailClean(t) ==
    /\ stage = "idle"
    /\ ~Refused(journal[t])
    /\ HasToken(t)
    /\ journal[t].status \in {"preparing", "authorized", "committing"}
    /\ \E n \in 1..5 :
          Close(t, [journal[t] EXCEPT !.status = "failed", !.recovery = FALSE], n)

\* fail, with changed files: manifest, audit line, audit flag, and a lease
\* that blocks the environment and is already expired.
FailUnresolved(t) ==
    LET reach == Upto(EnsureRaises(t, "failed"), 2, 4) IN
    /\ stage = "idle"
    /\ ~Refused(journal[t])
    /\ HasToken(t)
    /\ journal[t].status \in {"preparing", "authorized", "committing"}
    /\ \E n \in 1..reach :
          /\ EnsureLine(t, "failed", n, 2)
          /\ SaveManifest(t, [journal[t] EXCEPT !.status = "failed",
                                !.recovery = TRUE, !.audited = n >= 3], n, 1)
          /\ lease' = IF n >= 4 THEN [owner |-> t, live |-> FALSE] ELSE lease
          /\ Stops(n, reach)
    /\ UNCHANGED <<secret, backups, born, age, calm, row>>

\* abandon, asked by the client.
Abandon(t) ==
    /\ stage = "idle"
    /\ ~Refused(journal[t])
    /\ HasToken(t)
    /\ journal[t].status \in {"preparing", "authorized"}
    /\ \E n \in 1..5 : Close(t, Abandoned(journal[t]), n)

\* rollback, with receipts that show the original bytes or the removal.
Rollback(t) ==
    /\ stage = "idle"
    /\ ~Refused(journal[t])
    /\ HasToken(t)
    /\ \/ journal[t].status \in {"committing", "reverting"}
       \/ journal[t].status = "failed" /\ journal[t].recovery
    /\ \E n \in 1..5 :
          Close(t, [journal[t] EXCEPT !.status = "rolled_back", !.recovery = FALSE], n)

\* recover: new credentials for ten minutes, audit line.
Recover(t) ==
    /\ stage = "idle"
    /\ ~Refused(journal[t])
    /\ journal[t].recovery
    /\ journal[t].status \in {"committing", "reverting", "failed"}
    /\ secret[t].exists
    /\ \E n \in 1..Upto(auditTorn, 2, 2) :
          /\ SaveSecret(t, [secret[t] EXCEPT
                             !.held = (n = 2),
                             !.authorized = (n = 2),
                             !.unconfirmed = UnconfirmedNativeCreation(journal[t])], n, 1)
          /\ AppendLine(n, 2)
          /\ Stops(n, Upto(auditTorn, 2, 2))
    /\ UNCHANGED <<lease, journal, backups, audit, born, age, calm, row>>

\* issueRestoreToken: a short-lived credential that reads backups, audit line.
IssueRestoreToken(t) ==
    /\ stage = "idle"
    /\ ~Refused(journal[t])
    /\ t \in Restorable
    /\ journal[t].status \in {"committed", "rolled_back"}
    /\ secret[t].exists
    /\ \E n \in 1..Upto(auditTorn, 2, 2) :
          /\ SaveSecret(t, [secret[t] EXCEPT !.restoring = TRUE], n, 1)
          /\ AppendLine(n, 2)
          /\ Stops(n, Upto(auditTorn, 2, 2))
    /\ UNCHANGED <<lease, journal, backups, audit, born, age, calm, row>>

\* renewLease: refused for TERMINAL statuses, whatever recoveryRequired says.
RenewLease(t) ==
    /\ stage = "idle"
    /\ ~Refused(journal[t])
    /\ HasToken(t)
    /\ journal[t].status \notin Outcomes \cup {"none"}
    /\ lease.owner = t
    /\ Renew(t, 1, 1)
    /\ UNCHANGED <<stage, subject, scan, journal, secret, backups, audit,
                   auditTorn, born, age, calm, row>>

-----------------------------------------------------------------------------
(* Crashes, and initialize: every journal in turn, then retention. *)

Crash ==
    /\ stage # "down"
    /\ ~calm
    /\ stage' = "down"
    /\ subject' = Nobody
    /\ scan' = {}
    /\ UNCHANGED <<lease, journal, secret, backups, audit, auditTorn, born, age, calm, row>>

Restart ==
    /\ stage = "down"
    /\ stage' = "startup"
    /\ scan' = {t \in Txns : journal[t].status # "none"}
    /\ UNCHANGED <<subject, lease, journal, secret, backups, audit, auditTorn,
                   born, age, calm, row>>

\* One journal of start-up made n of its writes: on to the others, or
\* initialize rejects and the process ends.
Scanned(t, n, reach, all) ==
    /\ n < reach => ~calm
    /\ stage' = IF n = all THEN "startup" ELSE "down"
    /\ scan' = IF n = all THEN scan \ {t} ELSE {}
    /\ UNCHANGED subject

ScanStaged(t) ==
    LET reach == IF EnsureRaises(t, "abandoned") THEN 1 ELSE Upto(lease.owner = Torn, 4, 4) IN
    /\ journal[t].status \in {"preparing", "authorized"}
    /\ \E n \in 1..reach :
          /\ EnsureLine(t, "abandoned", n, 2)
          /\ SaveManifest(t, [Abandoned(journal[t]) EXCEPT !.audited = n >= 3], n, 1)
          /\ Release(t, n, 4)
          /\ Scanned(t, n, reach, 4)
    /\ UNCHANGED <<secret, backups, born, age, calm, row>>

ScanInterrupted(t) ==
    LET reach == Upto(auditTorn, 3, 3) IN
    /\ Interrupted(journal[t])
    /\ \E n \in 1..reach :
          /\ SaveManifest(t, [journal[t] EXCEPT !.recovery = TRUE], n, 1)
          /\ lease' = IF n >= 2 THEN [owner |-> t, live |-> FALSE] ELSE lease
          /\ AppendLine(n, 3)
          /\ Scanned(t, n, reach, 3)
    /\ UNCHANGED <<secret, backups, audit, born, age, calm, row>>

ScanFailed(t) ==
    /\ journal[t].status = "failed"
    /\ journal[t].recovery
    /\ lease' = [owner |-> t, live |-> FALSE]
    /\ Scanned(t, 1, 1, 1)
    /\ UNCHANGED <<journal, secret, backups, audit, auditTorn, born, age, calm, row>>

\* Fault: start-up does not complete the audit of finished work.
ScanFinishedUnaudited(t) ==
    LET reach == Upto(lease.owner = Torn, 1, 1) IN
    /\ Finished(journal[t])
    /\ \E n \in 0..reach :
          /\ Release(t, n, 1)
          /\ Scanned(t, n, reach, 1)
    /\ UNCHANGED <<journal, audit, auditTorn, secret, backups, born, age, calm, row>>

ScanFinished(t) ==
    LET j   == journal[t]
        all == IF j.audited THEN 1 ELSE 3
        reach == IF ~j.audited /\ EnsureRaises(t, j.status)
                 THEN 0 ELSE Upto(lease.owner = Torn, all, all)
    IN
    /\ Finished(j)
    /\ \E n \in 0..reach :
          /\ IF j.audited
             THEN UNCHANGED <<audit, auditTorn>>
             ELSE EnsureLine(t, j.status, n, 1)
          /\ SaveManifest(t, [journal[t] EXCEPT !.audited = TRUE], n, 2)
          /\ Release(t, n, all)
          /\ Scanned(t, n, reach, all)
    /\ UNCHANGED <<secret, backups, born, age, calm, row>>

\* A journal that readManifest refuses is passed over.
ScanRefused(t) ==
    /\ scan' = scan \ {t}
    /\ UNCHANGED <<stage, subject, lease, journal, secret, backups, audit,
                   auditTorn, born, age, calm, row>>

RecoverEnvironment(t) ==
    /\ stage = "startup"
    /\ t \in scan
    /\ IF Refused(journal[t])
       THEN ScanRefused(t)
       ELSE \/ ScanStaged(t)
            \/ ScanInterrupted(t)
            \/ ScanFailed(t)
            \/ ScanFinished(t)

\* The retention pass that ends initialize.
StartupRetention ==
    /\ stage = "startup"
    /\ scan = {}
    /\ \E gone \in SUBSET Removable(journal, secret) :
          \E half \in Halves(Removable(journal, secret), gone) :
             /\ Retain(journal, gone, half)
             /\ \/ gone = Removable(journal, secret) /\ stage' = "idle"
                \/ gone \cup half # {} /\ ~calm /\ stage' = "down"
    /\ UNCHANGED <<subject, scan, lease, audit, auditTorn, born, age, calm, row>>

-----------------------------------------------------------------------------
(* The clock, and the end of failures. *)

LeaseExpires ==
    /\ lease.owner \in Txns
    /\ lease.live
    /\ lease' = [lease EXCEPT !.live = FALSE]
    /\ UNCHANGED <<stage, subject, scan, journal, secret, backups, audit,
                   auditTorn, born, age, calm, row>>

\* The tab that holds the credentials of open work is closed, its answer was
\* lost, or the ten minutes of recovery credentials are over.
CredentialsLost(t) ==
    /\ Open(journal[t])
    /\ secret[t].held \/ secret[t].authorized
    /\ SaveSecret(t, [secret[t] EXCEPT !.held = FALSE, !.authorized = FALSE], 1, 1)
    /\ UNCHANGED <<stage, subject, scan, lease, journal, backups, audit,
                   auditTorn, born, age, calm, row>>

\* The ten minutes of a restore credential are over.
RestoreExpires(t) ==
    /\ secret[t].restoring
    /\ SaveSecret(t, [secret[t] EXCEPT !.restoring = FALSE], 1, 1)
    /\ UNCHANGED <<stage, subject, scan, lease, journal, backups, audit,
                   auditTorn, born, age, calm, row>>

\* Leases and credentials are over long before a month is.
MonthsPass ==
    /\ stage \in {"idle", "down"}
    /\ ~lease.live
    /\ \A t \in Txns : ~secret[t].restoring
    /\ \E t \in Txns : journal[t].status # "none" /\ age[t] < MaxAge
    /\ age' = [t \in Txns |->
                  IF journal[t].status # "none" /\ age[t] < MaxAge
                  THEN age[t] + 1 ELSE age[t]]
    /\ UNCHANGED <<stage, subject, scan, lease, journal, secret, backups,
                   audit, auditTorn, born, calm, row>>

\* reconcile changes the environment's registry row, or removes it or brings it
\* back, without asking the store.  The server is not listening in start-up.
RowChanges ==
    /\ stage \notin {"startup", "down"}
    /\ row' \in RowAfter[row]
    /\ UNCHANGED <<stage, subject, scan, lease, journal, secret, backups,
                   audit, auditTorn, born, age, calm>>

FailuresEnd ==
    /\ Failures = "end"
    /\ ~calm
    /\ calm' = TRUE
    /\ UNCHANGED <<stage, subject, scan, lease, journal, secret, backups,
                   audit, auditTorn, born, age, row>>

-----------------------------------------------------------------------------
Init ==
    /\ stage = "idle"
    /\ subject = Nobody
    /\ scan = {}
    /\ lease = FreeLease
    /\ journal = [t \in Txns |-> NoJournal]
    /\ secret = [t \in Txns |-> NoSecret]
    /\ backups = [t \in Txns |-> {}]
    /\ audit = [t \in Txns |-> <<>>]
    /\ auditTorn = FALSE
    /\ born = [t \in Txns |-> 0]
    /\ age = [t \in Txns |-> 0]
    /\ calm = (Failures = "never")
    /\ row \in DOMAIN RowAfter

Work(t) ==
    \/ \E plan \in Plans : Prepare(t, plan)
    \/ StartRevert(t)
    \/ BeginRevert(t)
    \/ \E f \in Files : UploadBackup(t, f)
    \/ Authorize(t)
    \/ BeginCommit(t)
    \/ CommitReceipt(t)
    \/ FailClean(t)
    \/ FailUnresolved(t)
    \/ Abandon(t)
    \/ Rollback(t)
    \/ Recover(t)
    \/ IssueRestoreToken(t)
    \/ RenewLease(t)
    \/ RecoverEnvironment(t)
    \/ CredentialsLost(t)
    \/ RestoreExpires(t)

Next ==
    \/ StartPrepare
    \/ Rejected
    \/ \E t \in Txns : Work(t)
    \/ Crash
    \/ Restart
    \/ StartupRetention
    \/ LeaseExpires
    \/ MonthsPass
    \/ RowChanges
    \/ FailuresEnd

Spec == Init /\ [][Next]_vars

\* What the liveness run assumes.  The process is restarted and gets through
\* start-up, the clock moves, and people keep using the workspace: saves are
\* attempted again, and History recovery is asked for and carried out.
Fairness ==
    /\ WF_vars(FailuresEnd)
    /\ WF_vars(Restart)
    /\ WF_vars(StartupRetention)
    /\ WF_vars(LeaseExpires)
    /\ WF_vars(Rejected)
    /\ SF_vars(StartPrepare)
    /\ \A t \in Txns :
          /\ WF_vars(RecoverEnvironment(t))
          /\ WF_vars(\E plan \in Plans : Prepare(t, plan))
          /\ WF_vars(BeginRevert(t))
          /\ SF_vars(Recover(t))
          /\ SF_vars(Rollback(t))

FairSpec == Spec /\ Fairness

-----------------------------------------------------------------------------
(* What the store promises. *)

\* Type correctness of the durable files and of the server's volatile stage.
TypeOK ==
    /\ stage \in {"down", "startup", "idle", "prepare", "revert"}
    /\ subject \in Txns \cup {Nobody}
    /\ scan \subseteq Txns
    /\ lease \in [owner : Txns \cup {Nobody, Torn}, live : BOOLEAN]
    /\ journal \in [Txns -> JournalType]
    /\ secret \in [Txns -> SecretType]
    /\ backups \in [Txns -> SUBSET Files]
    /\ audit \in [Txns -> Seq(Outcomes)]
    /\ auditTorn \in BOOLEAN
    /\ born \in [Txns -> Nat]
    /\ age \in [Txns -> 0..2]
    /\ calm \in BOOLEAN
    /\ row \in DOMAIN RowAfter

\* Whatever crashes, expires or is refused, the lease file belongs to the
\* transaction that may still have source bytes to write or to recover; so two
\* mutations of an environment are never open together, and no save can start
\* over an interrupted one (acquireLeaseInternal, recoverEnvironment).
LeaseGuardsOpenWork ==
    \A t \in Txns : Open(journal[t]) => lease.owner = t

\* A journal the browser may write under, however old, and every journal it was
\* written under for as long as its retention window promises, keeps the
\* original bytes of each existing target on disk (uploadBackup, authorize,
\* beginCommit, applyRetentionInternal cut short).
BackupsBeforeAuthority ==
    \A t \in Txns :
        journal[t].planned /\ Kept(t) => journal[t].plan.existed \subseteq backups[t]

\* At any crash point a journal has its credentials file, but for the half of a
\* directory that retention left: recover, which is the only way out of an
\* interrupted commit, needs it (prepare, applyRetentionInternal).
CredentialsBeforeJournal ==
    \A t \in Txns : journal[t].status # "none" /\ Kept(t) => secret[t].exists

\* The audit log tells each outcome once, and once auditRecorded says so its
\* last word on the transaction is the journal's (ensureTerminalAudit and its
\* retries at start-up and at the next prepare).
AuditMatchesOutcome ==
    \A t \in Txns :
        /\ \A i, k \in DOMAIN audit[t] : audit[t][i] = audit[t][k] => i = k
        /\ journal[t].status \in Outcomes /\ journal[t].audited =>
              audit[t] # <<>> /\ audit[t][Len(audit[t])] = journal[t].status

\* Retention never deletes a journal that is open or whose outcome the audit
\* log lacks (an operation that closes a journal may then remove it), one with
\* a live restore credential, or one of the newest MinimumPerTarget finished
\* journals (applyRetentionInternal).
RetentionIsSafe ==
    [][\A t \in Txns :
          journal[t].status # "none" /\ journal'[t].status = "none" =>
              /\ IF Open(journal[t])
                 THEN Len(audit'[t]) > Len(audit[t])
                 ELSE \E i \in DOMAIN audit'[t] : audit'[t][i] = journal[t].status
              /\ ~secret[t].restoring
              /\ Cardinality({u \in Txns : Finished(journal'[u]) /\ born[u] > born[t]})
                    >= MinimumPerTarget]_vars

\* A finished transaction keeps its outcome: no late request, restart or
\* cleanup reopens it, but for the undo of a committed creation (beginRevert).
OutcomeIsFinal ==
    [][\A t \in Txns :
          Finished(journal[t]) =>
              \/ journal'[t].status \in {journal[t].status, "none"}
                    /\ ~journal'[t].recovery
              \/ journal[t].status = "committed" /\ journal'[t].status = "reverting"]_vars

\* However a mutation was interrupted, it does not block its environment for
\* ever: an expired lease is reclaimed or the journal becomes recoverable, and
\* recovery closes it (acquireLeaseInternal, recoverEnvironment, recover), unless
\* a change of the registry makes the store refuse the journal.  A start-up that
\* passed the journal over while it was refused does not stop this.
InterruptedWorkEnds ==
    \A t \in Txns : Open(journal[t]) ~> (~Open(journal[t]) \/ Refused(journal[t]))

\* The phase of SaveJournal that a manifest stands for.
PhaseOf(t) ==
    LET j == journal[t] IN
    CASE j.status = "none" /\ audit[t] # <<>>       -> "forgotten"
      [] j.status = "none" /\ audit[t] = <<>>       -> "new"
      [] j.status \in {"preparing", "authorized"}   -> "staged"
      [] j.status = "committing"                    -> "writing"
      [] j.status = "failed" /\ j.recovery          -> "writing"
      [] j.status = "reverting"                     -> "removing"
      [] j.status = "committed"                     -> "committed"
      [] j.status = "rolled_back"                   -> "undone"
      [] OTHER                                      -> "dropped"

Journal == INSTANCE SaveJournal WITH phase <- [t \in Txns |-> PhaseOf(t)]

\* At every crash point and with every retry, the files implement the journal
\* of SaveJournal: one active save, only the legal steps, and an outcome that
\* nothing but cleanup or the undo of a creation replaces.
ImplementsSaveJournal == Journal!Spec
=============================================================================
