----------------------------- MODULE LocalSave -----------------------------
(***************************************************************************)
(* Saving to a local folder: browser tabs that own the folder's handle and *)
(* the files in it, a server that keeps the journal, and whoever else      *)
(* edits the folder.  The server never sees the folder and a tab never     *)
(* sees the journal but through requests, whose answers may be lost and    *)
(* which may reach the server late.                                        *)
(*                                                                         *)
(* web/js/transaction-client.mjs (the save and its inline rollback),       *)
(* web/js/mutation-coordinator.mjs (receipts, History recovery, undo of a  *)
(* creation), web/js/directory-provider.mjs (checked writes and removals)  *)
(* and, one request at a time, server/transactions.mjs.  What a crash in   *)
(* the middle of a request leaves on the server is TransactionStore's      *)
(* subject; its theorem OpenWorkIsGuarded is why the lease is reduced here *)
(* to a flag of the one open transaction.                                  *)
(***************************************************************************)
EXTENDS Naturals, FiniteSets

CONSTANTS
    Tabs,       \* browser tabs attached to the folder
    Workspaces, \* the kinds of workspace and what is saved in them, see below
    Edits,      \* bytes other programs may write, each used once
    NoTxn,      \* a tab with no transaction
    NoFile,     \* a tab between two files
    MaxGen      \* bound: credentials handed out per transaction

ASSUME LocalSaveAssumption ==
    /\ \A w \in Workspaces :
          /\ w.native \in BOOLEAN
          /\ NoTxn \notin w.txns
          /\ NoFile \notin w.files
          /\ w.txns \cap ({"absent", "empty", "base"} \cup Edits) = {}
          /\ w.late \in Nat
          /\ w.edits \subseteq Edits
    /\ MaxGen \in Nat \ {0}

VARIABLES
    workspace, \* the workspace that was opened
    disk,   \* the folder
    edits,  \* the edits other programs have not made yet
    record, \* the server's journal of each transaction, with its credentials
    late,   \* requests whose tab gave up on the answer
    tab,    \* what each tab is doing
    told,   \* what the user was last told of each transaction
    seen,   \* the files in which the bytes of each transaction were on disk
    rushed  \* history: was a recovery begun while a tab was at work on that save?

vars == <<workspace, disk, edits, record, late, tab, told, seen, rushed>>

Native  == workspace.native \* is the workspace native Terraform?
Txns    == workspace.txns   \* transaction ids that may be generated; also the bytes each writes
Files   == workspace.files  \* the files every transaction changes
MaxLate == workspace.late   \* bound: requests under way after the tab gave up on them

\* What a file may hold: nothing, the zero bytes of a file just created, the
\* bytes it began with, another program's, or those a transaction writes.
Content == {"absent", "empty", "base"} \cup Edits \cup Txns

Statuses == {"none", "preparing", "authorized", "committing", "committed",
             "reverting", "rolled_back", "failed", "abandoned"}

Blank == [status |-> "none", recovery |-> FALSE, live |-> FALSE, gen |-> 0,
          backed |-> FALSE, received |-> FALSE, unconfirmed |-> FALSE,
          original |-> [f \in Files |-> "absent"]]

Rest == [pc |-> "idle", txn |-> NoTxn, gen |-> 0, at |-> NoFile, left |-> {},
         wrote |-> {}, unconfirmed |-> FALSE, saw |-> [f \in Files |-> "absent"]]

-----------------------------------------------------------------------------
(* The server: whether it accepts a request, and the journal afterwards.   *)
(* A request carries its operation, its transaction, the number of the     *)
(* credentials it presents and what it says of the files.                  *)

Finished(r) == r.status \in {"committed", "rolled_back", "failed", "abandoned"} /\ ~r.recovery
Open(r)     == r.status # "none" /\ ~Finished(r)

\* An open transaction whose lease expired before it could write.
Stale(r) == Open(r) /\ ~r.live /\ r.status \in {"preparing", "authorized"}

\* acquireLeaseInternal: stale work is abandoned; other expired work refuses
\* the newcomer and is marked for recovery.
LeaseIsFree == \A t \in Txns : Open(record[t]) => Stale(record[t])
Reclaimed ==
    [t \in Txns |->
        IF Stale(record[t]) THEN [record[t] EXCEPT !.status = "abandoned"]
        ELSE IF Open(record[t]) /\ ~record[t].live
             THEN [record[t] EXCEPT !.recovery = TRUE]
             ELSE record[t]]

UnconfirmedNativeCreation(r) ==
    /\ Native
    /\ r.status # "reverting"
    /\ ~r.received
    /\ \E f \in Files : r.original[f] = "absent"

\* The statuses and credentials under which each operation is accepted.
Accepts(q) ==
    LET r == record[q.txn] IN
    CASE q.op = "prepare"   -> r.status = "none" /\ LeaseIsFree
      [] q.op = "authorize" -> r.status = "preparing" /\ q.gen = r.gen
      [] q.op = "commit"    -> r.status = "authorized" /\ q.gen = r.gen
      [] q.op = "receipt"   -> /\ q.gen = r.gen
                               /\ ~r.unconfirmed
                               /\ \/ r.status = "committing"
                                  \/ /\ r.status = "failed"
                                     /\ r.recovery
                                     /\ ~UnconfirmedNativeCreation(r)
                               /\ \A f \in Files : q.files[f] = q.txn
      [] q.op \in {"fail", "unresolved"} ->
             r.status \in {"preparing", "authorized", "committing"} /\ q.gen = r.gen
      [] q.op = "rollback"  -> /\ q.gen = r.gen
                               /\ \/ r.status \in {"committing", "reverting"}
                                  \/ r.status = "failed" /\ r.recovery
                               /\ q.files = r.original
      [] q.op = "recover"   -> /\ r.recovery
                               /\ r.status \in {"committing", "reverting", "failed"}
      [] q.op = "revert"    -> /\ r.status = "committed"
                               /\ r.received
                               /\ \A f \in Files : r.original[f] = "absent"
                               /\ LeaseIsFree

\* Fault: writes a status that no reader knows.
RolledBackMisspelt(r) == [r EXCEPT !.status = "rolled-back", !.recovery = FALSE]
RolledBack(r) == [r EXCEPT !.status = "rolled_back", !.recovery = FALSE]

\* The journal of an accepted request's transaction.
Updated(q) ==
    LET r == record[q.txn] IN
    CASE q.op = "prepare"    -> [Blank EXCEPT !.status = "preparing", !.live = TRUE,
                                              !.gen = 1, !.original = q.files]
      [] q.op = "authorize"  -> [r EXCEPT !.status = "authorized", !.backed = TRUE,
                                          !.live = TRUE]
      [] q.op = "commit"     -> [r EXCEPT !.status = "committing", !.live = TRUE]
      [] q.op = "receipt"    -> [r EXCEPT !.status = "committed", !.recovery = FALSE,
                                          !.received = TRUE]
      [] q.op = "fail"       -> [r EXCEPT !.status = "failed", !.recovery = FALSE]
      [] q.op = "unresolved" -> [r EXCEPT !.status = "failed", !.recovery = TRUE,
                                          !.live = FALSE]
      [] q.op = "rollback"   -> RolledBack(r)
      [] q.op = "recover"    -> [r EXCEPT !.gen = @ + 1,
                                          !.unconfirmed = UnconfirmedNativeCreation(r)]
      [] q.op = "revert"     -> [r EXCEPT !.status = "reverting", !.recovery = TRUE,
                                          !.live = TRUE, !.gen = @ + 1]

\* The journals after a request, accepted or not.
Served(q) ==
    LET base == IF q.op = "prepare" \/ (q.op = "revert" /\ record[q.txn].status = "committed")
                THEN Reclaimed ELSE record
    IN  IF Accepts(q) THEN [base EXCEPT ![q.txn] = Updated(q)] ELSE base

-----------------------------------------------------------------------------
(* The tab: a request and its four ends. *)

\* What the tab does next: its new state and, if it is done, what it says.
Go(b, next, word) ==
    /\ tab' = [tab EXCEPT ![b] = next]
    /\ told' = IF word = "" THEN told ELSE [told EXCEPT ![tab[b].txn] = word]

Request(b, op, files) ==
    [op |-> op, txn |-> tab[b].txn, gen |-> tab[b].gen, files |-> files]

Delayed(q) == IF Cardinality(late) < MaxLate THEN late \cup {q} ELSE late

\* The tab sends q.  It is answered, refused, its answer is lost, or it does
\* not arrive in time: the tab then sees the error and q may arrive later.
Ask(b, q, next, word, otherwise, errorWord) ==
    /\ \/ /\ Accepts(q)
          /\ record' = Served(q)
          /\ late' = late
          /\ Go(b, next, word)
       \/ /\ record' = Served(q)
          /\ late' = late
          /\ Go(b, otherwise, errorWord)
       \/ /\ record' = record
          /\ late' = Delayed(q)
          /\ Go(b, otherwise, errorWord)
    /\ UNCHANGED <<workspace, disk, edits, seen, rushed>>

At(b, pc) == [tab[b] EXCEPT !.pc = pc, !.at = NoFile, !.left = Files]

\* A request that was given up on reaches the server.
Deliver(q) ==
    /\ q \in late
    /\ q.op \in {"recover", "revert"} => record[q.txn].gen < MaxGen
    /\ record' = Served(q)
    /\ late' = late \ {q}
    /\ UNCHANGED <<workspace, disk, edits, tab, told, seen, rushed>>

-----------------------------------------------------------------------------
(* The save, up to its first write. *)

\* The user saves: the tab has read the bytes it is going to replace.
StartSave(b) ==
    /\ tab[b].pc = "idle"
    /\ tab' = [tab EXCEPT ![b] = [Rest EXCEPT !.pc = "prepare", !.saw = disk]]
    /\ UNCHANGED <<workspace, disk, edits, record, late, told, seen, rushed>>

\* The id exists only when prepare runs; a tab that gets no answer has none.
Prepare(b, t) ==
    LET q == [op |-> "prepare", txn |-> t, gen |-> 0, files |-> tab[b].saw] IN
    /\ tab[b].pc = "prepare"
    /\ record[t].status = "none"
    /\ \A p \in late : p.txn # t
    /\ Ask(b, q, [tab[b] EXCEPT !.pc = "stage", !.txn = t, !.gen = 1], "", Rest, "")

\* The backups and authorize.
Stage(b) ==
    /\ tab[b].pc = "stage"
    /\ Ask(b, Request(b, "authorize", tab[b].saw), At(b, "recheck"), "", At(b, "giveup"), "")

\* Every target is read again before the journal may enter committing.
Recheck(b) ==
    /\ tab[b].pc = "recheck"
    /\ Go(b, At(b, IF disk = tab[b].saw THEN "commit" ELSE "giveup"), "")
    /\ UNCHANGED <<workspace, disk, edits, record, late, seen, rushed>>

BeginCommit(b) ==
    /\ tab[b].pc = "commit"
    /\ Ask(b, Request(b, "commit", tab[b].saw), At(b, "write"), "", At(b, "giveup"), "")

\* No source write was attempted: the journal is closed with fail.
GiveUp(b) ==
    /\ tab[b].pc = "giveup"
    /\ Ask(b, Request(b, "fail", tab[b].saw), Rest, "unchanged", Rest, "recovery")

-----------------------------------------------------------------------------
(* Checked writes.  provider.write reads the file, compares it with what   *)
(* is expected and publishes the new bytes afterwards: two steps.          *)

\* The file is as expected; a file to be created exists empty from here on.
Check(b, f, pc, expected) ==
    /\ tab[b].pc = pc
    /\ tab[b].at = NoFile
    /\ f \in tab[b].left
    /\ disk[f] = expected
    /\ disk' = IF expected = "absent" THEN [disk EXCEPT ![f] = "empty"] ELSE disk
    /\ tab' = [tab EXCEPT ![b] = [@ EXCEPT !.at = f, !.left = tab[b].left \ {f}]]
    /\ UNCHANGED <<workspace, edits, record, late, told, seen, rushed>>

WriteCheck(b, f) == Check(b, f, "write", tab[b].saw[f])

\* Fault: counts a file as written without reading it back.
WritePublishUnverified(b) ==
    /\ tab[b].pc = "write"
    /\ tab[b].at # NoFile
    /\ tab' = [tab EXCEPT ![b] = [@ EXCEPT !.at = NoFile, !.wrote = tab[b].wrote \cup {tab[b].at}]]
    /\ UNCHANGED <<workspace, disk, edits, record, late, told, seen, rushed>>

\* The bytes are published and verified by reading them back; a native write
\* looks once more before it publishes (ensureUnpublished).
WritePublish(b) ==
    LET f == tab[b].at
        t == tab[b].txn IN
    /\ tab[b].pc = "write"
    /\ f # NoFile
    /\ Native => disk[f] = IF tab[b].saw[f] = "absent" THEN "empty" ELSE tab[b].saw[f]
    /\ disk' = [disk EXCEPT ![f] = t]
    /\ seen' = [seen EXCEPT ![t] = @ \cup {f}]
    /\ tab' = [tab EXCEPT ![b] = [@ EXCEPT !.at = NoFile, !.wrote = tab[b].wrote \cup {f}]]
    /\ UNCHANGED <<workspace, edits, record, late, told, rushed>>

\* A write fails: the file is not as expected, or an operation on it throws
\* before the bytes are published or after (then they are not in `written`).
\* A native creation takes back the empty file it made.
WriteFails(b) ==
    LET f == tab[b].at
        t == tab[b].txn IN
    /\ tab[b].pc = "write"
    /\ tab[b].wrote # Files
    /\ \/ UNCHANGED <<disk, seen>>
       \/ /\ f # NoFile
          /\ Native /\ disk[f] = "empty" /\ tab[b].saw[f] = "absent"
          /\ disk' = [disk EXCEPT ![f] = "absent"]
          /\ seen' = seen
       \/ /\ f # NoFile
          /\ disk' = [disk EXCEPT ![f] = t]
          /\ seen' = [seen EXCEPT ![t] = @ \cup {f}]
    /\ tab' = [tab EXCEPT ![b] = [At(b, "undo") EXCEPT !.left = tab[b].wrote]]
    /\ UNCHANGED <<workspace, edits, record, late, told, rushed>>

-----------------------------------------------------------------------------
(* The receipt.  Once it was sent nothing is undone: the tab reads the     *)
(* journal to learn what became of it.                                     *)

Final(b) == [f \in Files |-> tab[b].txn]

\* The receipt carries the hashes read back after each write, or, for History
\* Complete, those of the inspection.
Receipt(b) ==
    /\ \/ tab[b].pc = "write" /\ tab[b].wrote = Files
       \/ tab[b].pc = "complete"
    /\ Ask(b, Request(b, "receipt", IF tab[b].pc = "write" THEN Final(b) ELSE tab[b].saw),
           Rest, "applied", At(b, "confirm"), "")

\* commitLocalReceipt reads the journal, and so do its later steps; the read
\* may fail.
Confirm(b) ==
    LET r == record[tab[b].txn] IN
    /\ tab[b].pc = "confirm"
    /\ \/ Go(b, Rest, "recovery")
       \/ r.status = "committed" /\ Go(b, Rest, "applied")
       \/ r.status = "failed" /\ r.recovery /\ Go(b, Rest, "recovery")
       \/ /\ r.status # "committed"
          /\ ~(r.status = "failed" /\ r.recovery)
          /\ Go(b, At(b, "unconfirmed"), "")
    /\ UNCHANGED <<workspace, disk, edits, record, late, seen, rushed>>

Unconfirmed(b) ==
    /\ tab[b].pc = "unconfirmed"
    /\ Ask(b, Request(b, "unresolved", disk), Rest, "recovery", At(b, "reconfirm"), "")

Reconfirm(b) ==
    /\ tab[b].pc = "reconfirm"
    /\ \/ Go(b, Rest, "recovery")
       \/ record[tab[b].txn].status = "committed" /\ Go(b, Rest, "applied")
    /\ UNCHANGED <<workspace, disk, edits, record, late, seen, rushed>>

-----------------------------------------------------------------------------
(* The inline rollback of a failed save. *)

\* Fault: overwrites whatever the file holds by now.
UndoCheckAny(b, f) == Check(b, f, "undo", disk[f])

\* A file the tab wrote still holds those bytes.
UndoCheck(b, f) == Check(b, f, "undo", tab[b].txn)

\* The backup, or nothing, takes their place.
UndoPublish(b) ==
    LET f == tab[b].at IN
    /\ tab[b].pc = "undo"
    /\ f # NoFile
    /\ disk' = [disk EXCEPT ![f] = tab[b].saw[f]]
    /\ tab' = [tab EXCEPT ![b] = [@ EXCEPT !.at = NoFile]]
    /\ UNCHANGED <<workspace, edits, record, late, told, seen, rushed>>

\* It does not, or the request for the backup or the write fails.
UndoFails(b) ==
    LET f == tab[b].at IN
    /\ tab[b].pc = "undo"
    /\ \/ f # NoFile /\ tab' = [tab EXCEPT ![b] = [@ EXCEPT !.at = NoFile]]
       \/ /\ f = NoFile
          /\ \E g \in tab[b].left : tab' = [tab EXCEPT ![b] = [@ EXCEPT !.left = tab[b].left \ {g}]]
    /\ UNCHANGED <<workspace, disk, edits, record, late, told, seen, rushed>>

\* Fault: believes that the undo of each file worked.
InspectNothing(b) ==
    /\ tab[b].pc = "undo"
    /\ tab[b].at = NoFile
    /\ tab[b].left = {}
    /\ Go(b, At(b, "rollback"), "")
    /\ UNCHANGED <<workspace, disk, edits, record, late, seen, rushed>>

\* Every target is inspected: all as before the save, or recovery is needed.
Inspect(b) ==
    /\ tab[b].pc = "undo"
    /\ tab[b].at = NoFile
    /\ tab[b].left = {}
    /\ \/ disk = tab[b].saw /\ Go(b, At(b, "rollback"), "")
       \/ Go(b, At(b, "unresolved"), "")
    /\ UNCHANGED <<workspace, disk, edits, record, late, seen, rushed>>

\* Fault: reports a clean failure though the rollback receipt got no answer.
RollbackReceiptHasty(b) ==
    /\ tab[b].pc = "rollback"
    /\ Ask(b, Request(b, "rollback", tab[b].saw), Rest, "unchanged", Rest, "unchanged")

\* The receipts of the inspection close the journal.
RollbackReceipt(b) ==
    /\ tab[b].pc = "rollback"
    /\ Ask(b, Request(b, "rollback", tab[b].saw), Rest, "unchanged", Rest, "recovery")

Unresolved(b) ==
    /\ tab[b].pc = "unresolved"
    /\ Ask(b, Request(b, "unresolved", tab[b].saw), Rest, "recovery", Rest, "recovery")

-----------------------------------------------------------------------------
(* History: recovery of an interrupted save, and undo of a creation.       *)

\* Only the history variable rushed asks for this: the code does not.
Working(t) == {b \in Tabs : tab[b].txn = t}

\* canComplete, of an inspection that found the files as in saw.
CanComplete(t, saw) ==
    /\ record[t].status # "reverting"
    /\ ~UnconfirmedNativeCreation(record[t])
    /\ \A f \in Files : saw[f] = t

\* The inspection: the journal and the files as they are now.  It goes on with
\* the button the user presses, Complete or Roll back.
InspectRecovery(b, t) ==
    /\ tab[b].pc = "idle"
    /\ record[t].recovery \/ record[t].status \in {"committing", "reverting"}
    /\ \E pc \in {"unwind"} \cup (IF CanComplete(t, disk) THEN {"resume"} ELSE {}) :
          tab' = [tab EXCEPT ![b] =
                     [Rest EXCEPT !.pc = pc, !.txn = t, !.saw = disk,
                                  !.unconfirmed = UnconfirmedNativeCreation(record[t])]]
    /\ rushed' = (rushed \/ Working(t) # {})
    /\ UNCHANGED <<workspace, disk, edits, record, late, told, seen>>

\* recover rotates the credentials; the answer carries the only copy.
Recover(b) ==
    /\ tab[b].pc \in {"unwind", "resume"}
    /\ record[tab[b].txn].gen < MaxGen
    /\ Ask(b, Request(b, "recover", disk),
           [At(b, IF tab[b].pc = "resume" THEN "complete" ELSE "restore")
               EXCEPT !.gen = record[tab[b].txn].gen + 1], "", Rest, "")

\* Fault: overwrites foreign bytes in a native workspace too.
RestoreCheckAny(b, f) ==
    /\ tab[b].pc \in {"restore", "remove"}
    /\ Check(b, f, tab[b].pc, disk[f])

\* One file of the rollback.  A created file is removed only while it holds
\* the planned bytes; an existing one is overwritten with its backup whatever
\* it holds, but in a native workspace only if it holds the planned bytes.
RestoreCheck(b, f) ==
    LET t == tab[b].txn
        was == record[t].original[f] IN
    /\ tab[b].pc \in {"restore", "remove"}
    /\ \/ /\ was = "absent" => ~tab[b].unconfirmed
          /\ Check(b, f, tab[b].pc, t)
       \/ /\ ~Native
          /\ was # "absent"
          /\ disk[f] \notin {t, was}
          /\ Check(b, f, tab[b].pc, disk[f])

RestorePublish(b) ==
    LET f == tab[b].at IN
    /\ tab[b].pc \in {"restore", "remove"}
    /\ f # NoFile
    /\ disk' = [disk EXCEPT ![f] = record[tab[b].txn].original[f]]
    /\ tab' = [tab EXCEPT ![b] = [@ EXCEPT !.at = NoFile]]
    /\ UNCHANGED <<workspace, edits, record, late, told, seen, rushed>>

\* A file that is as before the save needs no write.
RestoreSkip(b, f) ==
    /\ tab[b].pc = "restore"
    /\ tab[b].at = NoFile
    /\ f \in tab[b].left
    /\ disk[f] = record[tab[b].txn].original[f]
    /\ tab' = [tab EXCEPT ![b] = [@ EXCEPT !.left = tab[b].left \ {f}]]
    /\ UNCHANGED <<workspace, disk, edits, record, late, told, seen, rushed>>

\* Anything unexpected or failing ends the attempt; it may be tried again.
RestoreFails(b) ==
    /\ tab[b].pc \in {"restore", "remove"}
    /\ tab[b].at # NoFile \/ tab[b].left # {}
    /\ Go(b, Rest, "")
    /\ UNCHANGED <<workspace, disk, edits, record, late, seen, rushed>>

RestoreReceipt(b) ==
    /\ tab[b].pc \in {"restore", "remove"}
    /\ tab[b].at = NoFile
    /\ tab[b].left = {}
    /\ Ask(b, Request(b, "rollback", record[tab[b].txn].original), Rest, "undone", Rest, "recovery")

\* Undo of a creation: all its files still hold what was saved, before the
\* journal is reopened and again after; then they are removed one by one.
StartUndo(b, t) ==
    /\ tab[b].pc = "idle"
    /\ record[t].status = "committed"
    /\ \A f \in Files : disk[f] = t
    /\ tab' = [tab EXCEPT ![b] = [Rest EXCEPT !.pc = "revert", !.txn = t]]
    /\ UNCHANGED <<workspace, disk, edits, record, late, told, seen, rushed>>

Revert(b) ==
    /\ tab[b].pc = "revert"
    /\ record[tab[b].txn].gen < MaxGen
    /\ Ask(b, Request(b, "revert", disk),
           [At(b, "verify") EXCEPT !.gen = record[tab[b].txn].gen + 1], "", Rest, "")

VerifyUndo(b) ==
    /\ tab[b].pc = "verify"
    /\ Go(b, IF \A f \in Files : disk[f] = tab[b].txn THEN At(b, "remove") ELSE Rest, "")
    /\ UNCHANGED <<workspace, disk, edits, record, late, seen, rushed>>

-----------------------------------------------------------------------------
(* The world. *)

\* A tab is closed, reloaded or crashes at any moment.
TabGone(b) ==
    /\ tab[b].pc # "idle"
    /\ tab' = [tab EXCEPT ![b] = Rest]
    /\ UNCHANGED <<workspace, disk, edits, record, late, told, seen, rushed>>

\* Another program writes or deletes a file.  Not in the instant between the
\* check of a file and its publication: the browser API has no way to exclude
\* that (BACKUP-RECOVERY.md:97-99).
ExternalEdit(f) ==
    /\ \A b \in Tabs : tab[b].at # f
    /\ \E e \in edits :
          /\ edits' = edits \ {e}
          /\ disk' \in {[disk EXCEPT ![f] = e], [disk EXCEPT ![f] = "absent"]}
    /\ UNCHANGED <<workspace, record, late, tab, told, seen, rushed>>

LeaseExpires(t) ==
    /\ Open(record[t])
    /\ record[t].live
    /\ record' = [record EXCEPT ![t] = [@ EXCEPT !.live = FALSE]]
    /\ UNCHANGED <<workspace, disk, edits, late, tab, told, seen, rushed>>

\* The server restarts: initialize abandons staged work, marks interrupted work.
Restart ==
    /\ \E t \in Txns : Open(record[t])
    /\ record' = [t \in Txns |->
          CASE record[t].status \in {"preparing", "authorized"} ->
                  [record[t] EXCEPT !.status = "abandoned"]
            [] record[t].status \in {"committing", "reverting"} ->
                  [record[t] EXCEPT !.recovery = TRUE, !.live = FALSE]
            [] OTHER -> record[t]]
    /\ late' = {}
    /\ UNCHANGED <<workspace, disk, edits, tab, told, seen, rushed>>

Init ==
    /\ workspace \in Workspaces
    /\ disk \in [Files -> {"absent", "base"}]
    /\ edits = workspace.edits
    /\ record = [t \in Txns |-> Blank]
    /\ late = {}
    /\ tab = [b \in Tabs |-> Rest]
    /\ told = [t \in Txns |-> "nothing"]
    /\ seen = [t \in Txns |-> {}]
    /\ rushed = FALSE

Save(b) ==
    \/ StartSave(b)
    \/ \E t \in Txns : Prepare(b, t)
    \/ Stage(b)
    \/ Recheck(b)
    \/ BeginCommit(b)
    \/ GiveUp(b)
    \/ \E f \in Files : WriteCheck(b, f)
    \/ WritePublish(b)
    \/ WriteFails(b)
    \/ Receipt(b)
    \/ Confirm(b)
    \/ Unconfirmed(b)
    \/ Reconfirm(b)

InlineRollback(b) ==
    \/ \E f \in Files : UndoCheck(b, f)
    \/ UndoPublish(b)
    \/ UndoFails(b)
    \/ Inspect(b)
    \/ RollbackReceipt(b)
    \/ Unresolved(b)

History(b) ==
    \/ \E t \in Txns : InspectRecovery(b, t) \/ StartUndo(b, t)
    \/ Recover(b)
    \/ Revert(b)
    \/ VerifyUndo(b)
    \/ \E f \in Files : RestoreCheck(b, f) \/ RestoreSkip(b, f)
    \/ RestorePublish(b)
    \/ RestoreFails(b)
    \/ RestoreReceipt(b)

Next ==
    \/ \E b \in Tabs : Save(b) \/ InlineRollback(b) \/ History(b) \/ TabGone(b)
    \/ \E q \in late : Deliver(q)
    \/ \E f \in Files : ExternalEdit(f)
    \/ \E t \in Txns : LeaseExpires(t)
    \/ Restart

Spec == Init /\ [][Next]_vars

-----------------------------------------------------------------------------
(* What saving promises. *)

\* Types of the folder, the journal, the tabs and what was said of each save.
TypeOK ==
    /\ disk \in [Files -> Content]
    /\ edits \subseteq Edits
    /\ \A t \in Txns :
          /\ DOMAIN record[t] = DOMAIN Blank
          /\ record[t].status \in Statuses
          /\ record[t].gen \in 0..MaxGen
          /\ record[t].original \in [Files -> Content]
    /\ Cardinality(late) <= MaxLate
    /\ \A b \in Tabs :
          /\ DOMAIN tab[b] = DOMAIN Rest
          /\ tab[b].txn \in Txns \cup {NoTxn}
          /\ tab[b].at \in Files \cup {NoFile}
          /\ tab[b].left \subseteq Files
          /\ tab[b].wrote \subseteq Files
          /\ tab[b].saw \in [Files -> Content]
    /\ told \in [Txns -> {"nothing", "applied", "unchanged", "undone", "recovery"}]
    /\ seen \in [Txns -> SUBSET Files]
    /\ rushed \in BOOLEAN

\* The journal never claims more than the folder shows: bytes of a save that
\* nobody edited away are on disk only while its transaction is committed or
\* still open to recovery.  So it is whatever was lost, late, closed or
\* restarted, on one condition that is left to the users: no recovery was begun
\* while a tab was still at work on that save.  After a restart or the expiry
\* of a lease nothing in the code prevents that (mutation-coordinator.mjs:197-203),
\* and a write of the slow tab then lands behind a rollback already told.
NoUnaccountedBytes ==
    ~rushed => \A t \in Txns, f \in Files :
        disk[f] = t => Open(record[t]) \/ record[t].status = "committed"

\* A commit receipt is truthful: each planned file has held its final bytes.
CommittedWasOnDisk ==
    \A t \in Txns : record[t].status = "committed" => seen[t] = Files

\* What the user was told is so: "applied" is a committed transaction, or one
\* whose creation was undone since; after a plain failure, a History rollback
\* or the undo of a creation nothing of the save is left and nothing waits for
\* recovery.  The second half, again, on the condition that no recovery was
\* begun while a tab was still at work on that save.
ToldTheTruth ==
    \A t \in Txns :
        /\ told[t] = "applied" =>
              \/ record[t].status \in {"committed", "reverting"}
              \/ /\ record[t].status = "rolled_back"
                 /\ \A f \in Files : record[t].original[f] = "absent"
        /\ ~rushed /\ told[t] \in {"unchanged", "undone"} =>
              /\ ~Open(record[t])
              /\ \A f \in Files : disk[f] # t

\* Every byte Citadel replaces was its own or is kept as a backup.
Kept(f) ==
    \/ disk[f] \in {"absent", "empty"} \cup Txns
    \/ \E t \in Txns : record[t].backed /\ record[t].original[f] = disk[f]

\* The save and its inline rollback never destroy another program's bytes
\* that are not backed up.
SavesKeepForeignBytes ==
    [][\A f \in Files :
          disk'[f] # disk[f] /\ edits' = edits
             /\ (\A b \in Tabs : tab[b].at = f => tab[b].pc # "restore") => Kept(f)]_vars

\* Nor does History recovery (README.md:1234-1236).
RecoveryKeepsForeignBytes ==
    [][\A f \in Files : disk'[f] # disk[f] /\ edits' = edits => Kept(f)]_vars

\* Where the code has a guard for it: a native file (mutation-coordinator.mjs:263-265).
NativeRecoveryKeepsForeignBytes ==
    [][Native => \A f \in Files : disk'[f] # disk[f] /\ edits' = edits => Kept(f)]_vars
=============================================================================
