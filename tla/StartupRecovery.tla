--------------------------- MODULE StartupRecovery ---------------------------
(***************************************************************************)
(* One process, many environments: start-up.  The server listens only when *)
(* TransactionStore.initialize has been through every environment of the   *)
(* data directory, one after the other, and one environment's error ends   *)
(* the whole start-up (server/index.mjs, server/transactions.mjs).         *)
(*                                                                         *)
(* TransactionStore has the writes of one environment in detail.  Here an  *)
(* environment is the journal of its newest mutation and two files that    *)
(* are not written atomically: lease.json, which createLeaseInternal       *)
(* creates and then fills, and audit.jsonl, to which a line is appended.   *)
(* readManifest may refuse the journal, because registry.json lost the     *)
(* environment's row or has another one; start-up passes such a one over.  *)
(***************************************************************************)
EXTENDS Naturals, Sequences

CONSTANTS
    Order,      \* the environments in the order readdir lists them
    Tearing,    \* may a write be cut inside lease.json or audit.jsonl?
    Changing,   \* may the registry row of an environment change?
    MaxCrashes  \* bound: how often the process dies by itself

Environments == {Order[i] : i \in DOMAIN Order}

ASSUME StartupAssumption ==
    /\ Order \in Seq(Environments) /\ Order # <<>>
    /\ Tearing \in BOOLEAN
    /\ Changing \in BOOLEAN
    /\ MaxCrashes \in Nat

VARIABLES
    process,   \* "down", "startup" or "serving"
    next,      \* the environment start-up looks at next
    status,    \* the newest journal of each environment
    marked,    \* its recoveryRequired
    leaseTorn, \* is its lease.json cut off?
    auditTorn, \* does its audit.jsonl end in half a line?
    refused,   \* environments whose journal readManifest refuses
    orphaned,  \* environments whose writes a crash interrupted, unmarked since
    crashes    \* how often the process died

vars == <<process, next, status, marked, leaseTorn, auditTorn, refused, orphaned,
          crashes>>

Statuses == {"none", "preparing", "committing", "reverting", "failed", "closed"}
Writing  == {"committing", "reverting"}

\* The process is gone; what was being written to a source is an orphan.
Down(statuses) ==
    /\ process' = "down"
    /\ orphaned' = {e \in Environments : statuses[e] \in Writing /\ ~marked[e]}

\* An operation on e moved its journal to s.  Its audit line may be cut, by
\* a failure that only this request sees or by the end of the process.
Moves(e, s) ==
    /\ process = "serving"
    /\ status' = [status EXCEPT ![e] = s]
    /\ auditTorn' \in {auditTorn} \cup (IF Tearing THEN {[auditTorn EXCEPT ![e] = TRUE]} ELSE {})
    /\ orphaned' = orphaned \ {e}
    /\ UNCHANGED <<process, next, leaseTorn, crashes>>

\* prepare and beginRevert; acquireLeaseInternal cannot get past a lease file
\* that does not parse, nor past closed work it cannot complete the audit of.
MayBegin(e) ==
    /\ ~leaseTorn[e]
    /\ \/ status[e] = "none"
       \/ status[e] = "closed" /\ ~auditTorn[e]

\* A new journal, which the row it was prepared under accepts.
Prepare(e) ==
    /\ MayBegin(e)
    /\ Moves(e, "preparing")
    /\ marked' = [marked EXCEPT ![e] = FALSE]
    /\ refused' = refused \ {e}

BeginRevert(e) ==
    /\ MayBegin(e)
    /\ status[e] = "closed"
    /\ e \notin refused
    /\ Moves(e, "reverting")
    /\ marked' = [marked EXCEPT ![e] = TRUE]
    /\ UNCHANGED refused

\* createLeaseInternal stops between creating the file and filling it.
TearLease(e) ==
    /\ process = "serving"
    /\ Tearing
    /\ MayBegin(e)
    /\ leaseTorn' = [leaseTorn EXCEPT ![e] = TRUE]
    /\ UNCHANGED <<process, next, status, marked, auditTorn, refused, orphaned, crashes>>

Commit(e) ==
    /\ status[e] = "preparing"
    /\ e \notin refused
    /\ Moves(e, "committing")
    /\ UNCHANGED <<marked, refused>>

\* The browser could not restore the files.
Fail(e) ==
    /\ status[e] = "committing"
    /\ e \notin refused
    /\ Moves(e, "failed")
    /\ marked' = [marked EXCEPT ![e] = TRUE]
    /\ UNCHANGED refused

\* commitReceipt, rollback, fail or abandon.
Close(e) ==
    /\ status[e] \in {"preparing", "committing", "reverting", "failed"}
    /\ e \notin refused
    /\ Moves(e, "closed")
    /\ marked' = [marked EXCEPT ![e] = FALSE]
    /\ UNCHANGED refused

\* A prepare is refused: the lease of interrupted work has expired, and
\* acquireLeaseInternal marks it.
RefusePrepare(e) ==
    /\ process = "serving"
    /\ ~leaseTorn[e]
    /\ status[e] \in Writing
    /\ e \notin refused
    /\ marked' = [marked EXCEPT ![e] = TRUE]
    /\ orphaned' = orphaned \ {e}
    /\ UNCHANGED <<process, next, status, leaseTorn, auditTorn, refused, crashes>>

\* reconcile removes the registry row of e or registers e differently, or
\* registers it as it was, without asking the store.
RowChanges(e) ==
    /\ process = "serving"
    /\ Changing
    /\ status[e] # "none"
    /\ refused' = IF e \in refused THEN refused \ {e} ELSE refused \cup {e}
    /\ UNCHANGED <<process, next, status, marked, leaseTorn, auditTorn, orphaned, crashes>>

Crash ==
    /\ process # "down"
    /\ crashes < MaxCrashes
    /\ crashes' = crashes + 1
    /\ Down(status)
    /\ UNCHANGED <<next, status, marked, leaseTorn, auditTorn, refused>>

Restart ==
    /\ process = "down"
    /\ process' = "startup"
    /\ next' = 1
    /\ UNCHANGED <<status, marked, leaseTorn, auditTorn, refused, orphaned, crashes>>

\* Fault: takes only an interrupted removal for interrupted.
MarksRevertingOnly(s) == s = "reverting"

\* The statuses recoverEnvironment marks for recovery.
Marks(s) == s \in Writing

\* Does recoverEnvironment, or the release of a lease, raise in e?
Raises(e) ==
    \/ auditTorn[e] /\ status[e] \in {"preparing", "committing", "reverting", "closed"}
    \/ leaseTorn[e] /\ status[e] = "closed"

\* recoverEnvironment, of a journal that is accepted: abandons staged work,
\* marks interrupted work, and only then writes the audit line or reads the
\* lease that may make it raise.
RecoverJournal(e) ==
    /\ status' = [status EXCEPT ![e] = IF @ = "preparing" THEN "closed" ELSE @]
    /\ marked' = [marked EXCEPT ![e] = @ \/ Marks(status[e])]
    /\ orphaned' = IF Marks(status[e]) THEN orphaned \ {e} ELSE orphaned
    /\ IF Raises(e)
       THEN process' = "down" /\ UNCHANGED next
       ELSE next' = next + 1 /\ UNCHANGED process

\* It catches what readManifest throws, and goes on to the next one.
PassOver(e) ==
    /\ next' = next + 1
    /\ UNCHANGED <<process, status, marked, orphaned>>

RecoverEnvironment ==
    LET e == Order[next] IN
    /\ process = "startup"
    /\ next \in DOMAIN Order
    /\ IF e \in refused THEN PassOver(e) ELSE RecoverJournal(e)
    /\ UNCHANGED <<leaseTorn, auditTorn, refused, crashes>>

\* Fault: listens while initialize is still running.
ServeEarly ==
    /\ process = "startup"
    /\ process' = "serving"
    /\ UNCHANGED <<next, status, marked, leaseTorn, auditTorn, refused, orphaned, crashes>>

\* initialize returned; the server listens.
Serve ==
    /\ process = "startup"
    /\ next \notin DOMAIN Order
    /\ process' = "serving"
    /\ UNCHANGED <<next, status, marked, leaseTorn, auditTorn, refused, orphaned, crashes>>

Init ==
    /\ process = "down"
    /\ next = 1
    /\ status = [e \in Environments |-> "none"]
    /\ marked = [e \in Environments |-> FALSE]
    /\ leaseTorn = [e \in Environments |-> FALSE]
    /\ auditTorn = [e \in Environments |-> FALSE]
    /\ refused = {}
    /\ orphaned = {}
    /\ crashes = 0

Next ==
    \/ \E e \in Environments :
          \/ Prepare(e) \/ BeginRevert(e) \/ TearLease(e)
          \/ Commit(e) \/ Fail(e) \/ Close(e)
          \/ RefusePrepare(e) \/ RowChanges(e)
    \/ Crash
    \/ Restart
    \/ RecoverEnvironment
    \/ Serve

Spec == Init /\ [][Next]_vars

\* The process is started again whenever it ended, and its start-up runs.
FairSpec ==
    Spec /\ WF_vars(Restart) /\ WF_vars(RecoverEnvironment) /\ WF_vars(Serve)

-----------------------------------------------------------------------------
\* A restart marks interrupted committing/reverting work for recovery
\* (BACKUP-RECOVERY.md:60-61): when the server opens, every mutation in the middle
\* of its writes is marked, however often it was restarted (index.mjs awaits
\* initialize before it listens).  The document knows no exception; the code has
\* one, the journals that the registry makes readManifest refuse.
OpensWithMarkedWork ==
    [][process # "serving" /\ process' = "serving" =>
          \A e \in Environments \ refused : status[e] \in Writing => marked[e]]_vars

\* And a crash is followed by a start that gets there, with the same exception
\* and a second one: a file was cut off somewhere, perhaps in another environment,
\* and initialize ends there.
Damaged == \E e \in Environments : leaseTorn[e] \/ auditTorn[e]

RestartMarksUndamagedWork ==
    \A e \in Environments :
        process = "down" /\ e \in orphaned ~>
            (marked[e] \/ status[e] \notin Writing \/ Damaged \/ e \in refused)
=============================================================================
