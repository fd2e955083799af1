# Citadel UI: a TLA+ model of what it writes

TLA+ modules, TLC configurations and TLAPS proofs for the parts of
`src/CitadelUI` that can lose, overwrite or misreport somebody's work: the
journaled save of Local workspaces, the commits of GitHub workspaces, the copy
of a source snapshot into a new repository, the list of workspaces that browsers
share, and the credentials all of these work under. Paths below are relative to `src/CitadelUI`.

    tlc -config StoreCrash.cfg MCTransactionStore      (and the other runs)
    tlapm TransactionStoreProofs.tla                   (and the other ...Proofs)

## 1. The system

| Component | State | Operations | Talks to |
| --- | --- | --- | --- |
| Transaction store (`server/transactions.mjs`, `transaction-manifest.mjs`) | per environment: `lease.json`, per transaction `manifest.json`, `secret.json`, backups; `audit.jsonl` | prepare, uploadBackup, authorize, beginCommit, commitReceipt, fail, abandon, rollback, recover, beginRevert, issueRestoreToken, renewLease, retention | the routes; the file system |
| Start-up (`TransactionStore.initialize`, `server/index.mjs:876-881`) | none of its own | recoverEnvironment for each environment, then retention, then listen | the stores |
| Routes (`server/index.mjs:655-758`) | none | one store operation per request | the browser |
| Save (`web/js/transaction-client.mjs`) | local variables of `commitFiles` | the save and its inline rollback | routes, folder |
| Coordinator (`web/js/mutation-coordinator.mjs`) | none | receipt reconciliation, History inspection, Complete, Roll back, undo of a creation | routes, folder |
| Folder provider (`web/js/directory-provider.mjs`) | the folder | checked read, write, remove | the browser's File System Access API |
| GitHub commits (`server/github/workspace.mjs`, `workspace-routes.mjs`, `history.mjs`, `audit.mjs`, `web/js/github-*.mjs`) | audit, branch on GitHub, drafts in tabs | review, commit, record, move the ref, reconcile, undo, name a branch | GitHub |
| Registry (`server/registry-store.mjs`, `web/js/registry*.mjs`, `workspace-attachment.mjs`) | `registry.json` with epoch and revision; rows and tombstones of each browser | start, reconcile, attach, rename, detach | tabs |
| Connections, sessions, vault (`server/github/connection-lifecycle.mjs`, `sessions.mjs`, `connections.mjs`, `credentials.mjs`) | profiles, sessions, encrypted tokens | connect, create, reconnect, resume, persistence, disconnect, remove | GitHub, tabs |
| Session manager (`web/js/github-session-manager.mjs`, `github-session.mjs`) | the account a tab shows, its session id, the generation | connect, establish, disconnect, restore | the connection routes |
| Repository creation (`server/github/repository-creation.mjs`) | checkpointed operations, a queue with one runner | prepare, start, pause, resume; pin, create, copy, publish, rename, verify | GitHub |
| Owner (`server/owner.mjs`) | the owner record | claim, verify | routes |
| Reattachment (`web/js/workspace-activation.mjs:69-245`) | reviews and what is pending, per tab; the row in the browser's database | review, commit (stage, mirror, confirm), revalidate | registry, session manager, GitHub |
| Activation and views (`web/js/workspace-activation.mjs`, `workspace-view-state.mjs`, `single-flight.mjs`, `document-action.mjs`) | generations, tickets, locks | open, supersede, run once | all views |
| Migration (`web/js/migration-*.mjs`, `server/migration-snapshots.mjs`) | session, snapshots | compare, apply | the save |
| Desktop (`desktop/`) | phase of an update | check, confirm, download, restart | Electron |

Outside `src/CitadelUI` the repository holds Bicep templates, notebooks and
usage reports: declarative or sample material without a state to model.

What is hard here. The server never sees the folder, and the browser never
sees the journal except through requests whose answers can be lost. An
operation of the store is several file writes and the process may die between
any two of them, or inside the two that are not atomic. Leases and credentials
expire while their browser is still at work. Tabs are closed at any moment, two
tabs can be at work, and other programs edit the same folder. GitHub answers
late or not at all, carries out what its caller gave up on, and lets colleagues
push, rename and delete between a check and the write it protects. What makes
it correct:

- *store*: an open transaction holds the lease; backups precede authority;
  the audit log and the outcome agree; an outcome is final; retention never
  takes what is still needed; interrupted work ends;
- *save and recovery*: journal and folder agree on every byte a save left
  behind; a commit is truthful; so is what the user is told; nobody else's bytes
  are destroyed;
- *start-up*: nothing is served before interrupted work is marked, if the registry
  still knows its workspace;
- *GitHub commits*: what is told is so; what was refused stays off the branch;
  a commit has its record until newer ones push it out; only reviewed bytes are
  replaced; a draft goes only when it is saved;
- *repository creation*: nothing of anybody else is taken up or overwritten, what
  is published is what was reviewed, and a started copy can be completed from
  wherever it was interrupted;
- *registry*: what was removed stays removed;
- *reattachment*: it replaces only what was seen by only what was reviewed, is
  told only when it is so, and a pending one can be brought to its end;
- *connections*: a connection stays with its account, keeps a token only if it is
  persistent, forgets it when it is removed or replaced, and a tab shows the
  account its requests run under.

PROJECT.json lists the hazards behind these, each with its line and the
properties that would notice it going wrong.

## 2. The modules

**SaveJournal** is the abstract promise: the life of each save
(new, staged, writing, committed, removing, undone, dropped, forgotten) and that
one is active at a time.

**TransactionStore** is one environment of the store. `withEnvironment` queues
its operations, so one action is one operation; but an operation is a sequence
of file writes, so the action makes the *first n* of them. With n the last, the
operation answers; with fewer, the process died or the operation rejected half
way. A write that raises by itself (`JSON.parse` of a torn `lease.json` or of a
torn last audit line) bounds n even without a failure (`Upto`). `AcquireLease`
is split off because `acquireLeaseInternal` writes another transaction's journal
before `prepare` or `beginRevert` write theirs; `stage` and `subject` remember
where the code stands. Start-up scans one journal per step in any order and ends
with retention. `row` is what the registry says of the environment: "plain" (a
Bicep workspace, or no row any more), "native" (the row of a native Terraform
workspace) or "retargeted" (one of another configuration). `readManifest`
refuses a native journal under any row but its own (185-205): every operation on
it then fails, and start-up passes it over without marking it (`catch {
continue; }`, 989-993; `ScanRefused`). The registry is another store, so its row
may change between any two operations (`RowChanges`; `RowAfter` bounds what it
becomes), but not during start-up, which ends before the server listens
(`index.mjs:876-881, 1131`). A removal of old journals may stop in the middle of
a directory and leave any part of its manifest, secret and backups. Tokens are
the two facts the code asks of them: does the current one exist, and does
anybody still hold it. Ages are classes (0, past 30 days, past 90 days). Hashes
are reduced to whether the journaled plan is matched, the 250 files of a plan to
a set. Not in the model: soft byte limit of retention (it only reorders victims
that all go), labels, proofs, directories.

**LocalSave** is the other side: tabs, folder, other programs and the server's
journals, one request at a time. `workspace` says which kind was opened, Bicep
or native Terraform, what is saved in it, what other programs may write and how
many requests may be late. Every request has four ends (`Ask`): accepted and
answered; answered with a refusal; served but with the answer lost; given up on,
in which case it stays in `late` and may be delivered whenever it likes. A
checked write is two steps, `Check` and the publication, so that closing the
tab, a failing operation or a late request can come between them, and a file
being created exists empty in between, as `getFileHandle({create: true})` leaves
it. Bytes are named by who wrote them: `base`, an edit, or a transaction. The
lease is reduced to a flag of the one open transaction, which is what the
theorem OpenWorkIsGuarded justifies. Restore prior is an ordinary save. A second
tab may recover a save that a first one is still at work on, as in the code;
`rushed` is history and remembers that one did.

**StartupRecovery** is the loop of `initialize` over several environments, with
`lease.json` and `audit.jsonl` cut off while they are written, and with journals
that the registry makes `readManifest` refuse (`refused`), which it passes over.

**GitHubSave** has the tabs with their drafts and the commit they were read
from, the server's requests by stage (inspect an undo, propose, build the
commit, record it in the audit, move the ref, reconcile, look for an equal
commit, answer), and GitHub as the commit objects and the list that is the
branch. A colleague pushes between any two stages. An answer of GitHub can be
lost, the server can stop, and an update given up on can be applied later
(`delayed`). The subscription bridge is the same commit with another way of
telling. `audit` is the file: the newest `MaxRecords` records (500 in the code)
of all workspaces of the installation together, the oldest of which go when
another is appended; `log` is history, everything ever recorded. Other
workspaces write to the file at any time (`OthersRecord`); undoing a commit and
naming its branch need its record there. Blobs are named by their contents, so
an equal commit is one with an equal change.

**RepositoryCreation** keeps two copies of every operation, `disk` and `mem`:
`checkpoint` writes both, or its write fails and the runner goes to its catch.
One step of the runner is one request or checkpoint that something else can
overtake, and `serial` lets the user's requests run between two of them. A write
to GitHub (`Write`) has four ends: carried out and answered, carried out and
not answered, refused, or not carried out, unless `late`. The repository is the
one that has the name now; `made` remembers who made each one, which is what the
nonce in the description tells. A commit is the version it is a snapshot of,
since its hash is determined by tree, parent and the operation. Paused and failed
are one state here; preparing, creating, copying and verifying another.
A repository that somebody puts in the place of Citadel's has only `main`, so a
rename sent to the old one finds nothing to rename in the new one.

**RegistrySync** is the list in `/data` under its epoch and revision, and of each
browser its rows, its tombstones and what its tab last learnt. `Put` is
`syncRegistryMetadata` with `reconcile`: taken only if the authority is current.
A start with tombstones learns a new authority, sends the removals *and all its
rows*, and only then reads the list.

**Reattachment** gives a workspace whose connection is gone another one. The list
has one row, and each browser a copy of it in its database: that of one browser
is `local`, its tabs share it, other browsers change the list (`Elsewhere`). A
tab is at one of the places between two awaits of `review`, `commit` or
`revalidate` (`work`); at each of them another tab may stage, a start may replace
the rows, the account may be switched and a branch move. A tab knows the list's
revision or an old one (`fresh`), which is all the server's comparison asks.
`seen` is history: what was true since a commit began.

**Connections** has the three stores of the server, each with the queue or the
single thread that orders its own writes: `profile` (connections.json, whose
updates wait in `line`), `envelope` (the vault: an envelope is the token sealed
in it, and an operation takes effect in the order it was queued) and `session`
(memory only). A request that establishes a session is a `job` that goes from
one store to the next, and everything else may come between two of its steps:
another tab's request, a panel's toggle, a removal, expiry, a restart. The store
of an envelope can fail, so can a deletion, which nobody looks at. `tab` is
`GitHubSessionManager`: one exchange at a time, a generation that disconnect
advances (`stale`), the displaced session that is revoked before the new one is
adopted, the id in sessionStorage, and restore. `setting` says who takes part:
tabs without their managers, so that requests overlap freely, or one tab with
all of its manager. A session id is a number that is issued again only when
nobody knows it. The history variables `replaced` and `amiss` remember what
properties need: the tokens a reconnect came to replace, and what went wrong; and
`mixed`, of a tab, that restore asked while a connect of it was pending.

**TransactionStoreProofs**, **TransactionStoreAuditProofs**, **LocalSaveProofs**,
**StartupRecoveryProofs**, **GitHubSaveProofs**, **RepositoryCreationProofs**,
**ConnectionsProofs** and **ReattachmentProofs** have the theorems; **MC...** modules give the constants values. PROJECT.json maps each definition to its lines. A definition
commented `Fault:` is not used by any specification: it is the operator below it
with a plausible mistake, put there to see that a property notices it.

## 3. The runs

| Run | Instance | Asks | Result |
| --- | --- | --- | --- |
| StoreCrash | 2 transactions, 1 file, an edit and a native creation, both age limits, crash/failure/tear after any write, removals cut short, a registry row that is removed | type invariant, four safety invariants, OutcomeIsFinal, RetentionIsSafe, ImplementsSaveJournal | hold, ~1 057 000 states |
| StoreLive | 2 transactions that create a file, live restore credentials, failures that end, a changing row, fairness | InterruptedWorkEnds | holds, ~288 000 states |
| SaveLocal | 2 tabs, 2 credentials; 1 save of 2 Bicep files or of 1 native file, with 1 late request and 1 foreign edit, or 2 saves of 1 native file | type invariant, NoUnaccountedBytes, CommittedWasOnDisk, ToldTheTruth, SavesKeepForeignBytes, NativeRecoveryKeepsForeignBytes | hold, ~1 875 000 states |
| SaveForeign | as SaveLocal, Bicep only | RecoveryKeepsForeignBytes | **violated** |
| StartupMarks | 2 environments, 2 crashes, torn files, rows that change | OpensWithMarkedWork, RestartMarksUndamagedWork | hold, ~9 400 states |
| GitHubSave | 2 tabs, 2 requests that save, 1 commit of a colleague or 1 record of another workspace, an audit of 2 records, 1 failed or lost call | type invariant, ToldTheTruth, RefusedStaysOff, CommitsAreAudited, OverwritesOnlyReviewed, DraftGoesOnlyWhenSaved | hold, ~2 098 000 states |
| GitHubSubscription | as GitHubSave | SubscriptionSaved | **violated** |
| RepositoryCreation | 2 operations for 1 name, 2 versions of the source, 1 act of somebody else, 2 failures or restarts, 1 pause, fairness | type invariant, CreatedIsOnDisk, TakesUpOnlyItsOwn, PublishesWhatWasReviewed, OneOwnerOfTheName, CompleteIsTrue, NothingIsOverwritten, StartedCompletes | hold, ~286 000 states |
| RegistryReplay | 2 browsers, 2 workspaces, no failure | RemovedStaysRemoved | **violated** |
| Reattachment | 2 tabs of 1 browser, 2 connections, 2 reviews, 2 events (lost answer, reload, switch, push, another browser), fairness | CommitReplacesOnlyReviewed, ConfirmedIsTrue, PendingEnds | hold, ~615 000 states |
| Connections | 1 connection, 2 session slots; 2 tabs and a panel, with tokens of 2 accounts, 2 tokens of 1 or too few slots, or 1 tab and its manager | type invariant, AccountBound, SessionOnlyKeepsNothing, RemovedIsForgotten, ReplacedStaysOut, ShownIsUsedUnmixed | hold, ~1 545 000 states |
| ConnectionsRestore | 1 tab and its manager | ShownIsUsed | **violated** |

Bounds.

- *Store.* Two transactions are one that is interrupted and one that comes after
  it, and the store treats all others alike (the proofs are for any number);
  with MinimumPerTarget = 1 the second is also the one that exceeds the rank in
  retention.
- *Saves.* One file tells in the store whether *all* backups are there from
  *none*; the mix of done and undone files matters in the browser, where there
  are two. Two tabs are the saver and somebody else; one late request is one
  surprise; two generations of credentials are the first and those of a
  recovery. The run of two native saves has no foreign edit: what an edit
  between them does is left to the proofs, which bound neither.
- *Time and retention.* Age classes beyond 2 are indistinguishable to the code.
  StoreCrash has no restore credentials (`Restorable` is empty) and no row of
  another configuration, which refuses a native journal just as a missing one
  does: that retention spares a live restore credential is the theorem
  RetentionLosesNothing, and StoreLive has such credentials in its states.
- *GitHub.* On GitHub, two requests are a save and the one that repeats, undoes
  or conflicts with it, and one commit of a colleague falls into any gap. An
  audit of two records is full after two saves of the three that can be
  recorded, so that the oldest record is pushed out while its commit is under
  way, listed or being undone (`MaxOthers` bounds what colleagues and other
  workspaces do together).
- *Copies.* Two operations for a name are the one that holds it and the one that
  would replace it; two failures are, for example, a lost answer and the crash
  after it, one pause and one foreign act come anywhere among them, and two
  versions of the source tell the reviewed one from a later one. Operations are
  numbered as the journal lists them, which halves the states without symmetry
  (unsound under liveness).
- *Connections.* Connections do not share anything but the session slots, so one
  is enough; two requests and a panel are any two that overlap and a toggle
  between them; two slots are one in use and the one that fills the store, and
  four ids are those of the slots and those that the tabs still know. A tab's
  manager sees of the others only that its session ends, which expiry, removal
  and restart show it.
- *Reattachment.* In Reattachment two reviews are two tabs that compete, or one
  that tries again with another connection; two events are a lost answer and
  what comes before its retry. The former connection is gone, so nobody chooses
  it.
- *Symmetry.* In the cfgs symmetry permutes interchangeable transactions, tabs
  and files in runs that check safety only; action properties do not name
  individual elements.

Some runs turn off TLC's deadlock check. In GitHubSave, GitHubSubscription,
RepositoryCreation, Reattachment and RegistryReplay all that the bounds allow may have been
done: saves used up and told, a copy complete. In StartupMarks a server
all of whose environments have a torn lease can do nothing any more, which is
what the code does.

### What the violations show

*SaveForeign.* `recover` overwrites an existing Bicep file with its backup
whatever it holds (`web/js/mutation-coordinator.mjs:262-279`; only native
workspaces refuse). README.md:1234-1236 promises that foreign changes "retain
explicit recovery instead of overwriting". The trace is short: a save is
interrupted before it writes, another program edits the file, Roll back replaces
the edit. SaveLocal checks the same promise where the code has the guard
(NativeRecoveryKeepsForeignBytes).

*GitHubSubscription.* The bridge that changes a subscription id answers `changed:
true` for every result of `commitChangeSet` (`server/github/workspace-routes.mjs:
255-266`, "The commit has landed"), also one whose outcome is pending because a
protected branch refused the ref. The commit object exists, so the verifying
read succeeds, and the user is told "updated" for a change that is on no branch.

*ConnectionsRestore.* `restore` looks at `account` and `restoring`
(`web/js/github-session-manager.mjs:131-136`), not at a pending connect, and opening
a GitHub workspace calls it at any time (`workspace-activation.mjs:388`,
`workspace-context.mjs:283`). A reloaded tab has a stored id and shows no account
yet; the user connects; restore asks about the stored id meanwhile; the connect is
adopted, and the late answer about the old id replaces the account shown, while
requests carry the new one. The module's header (4-18) promises the opposite, since
that disagreement is what the manager was written to end. ShownIsUsedUnmixed is
what remains true: the promise holds for a tab in which no restore has asked while
a connect was pending.

*RegistryReplay.* Two browsers know workspaces 1 and 2. The first removes 1. The
second removes 2, is refused because its revision is old, keeps a tombstone and
is reloaded, as the refusal asks. Its start learns the current revision, then
sends the removal of 2 together with all its rows, 1 among them, and the server
takes them: 1 is back (`web/js/registry-sync.mjs:93`). The same replay reverts
any label the first browser changed. test/registry-store.test.mjs:809 claims that
stale epochs and revisions "cannot resurrect deleted metadata"; the comments at
registry-sync.mjs:63 and workspace-attachment.mjs:137 rule such a replay out, and
local imports avoid it with a scope. Two more ways back, not run: an undone
attachment clears all tombstones, those of an unconfirmed detach too
(`workspace-attachment.mjs:300`); and two tabs of one browser share a database but
not the revision they learnt.

### Limits found by the models

A property excepts each by name, and without the exception TLC violates it. The
first two contradict a document; the others contradict none, or only a comment.

- BACKUP-RECOVERY.md:60-61 says that a server restart marks interrupted committing
  or reverting work for recovery. There are two exceptions in the code.
  *Refused journals*: a native save is committing, another browser removes the
  workspace from the list or registers another configuration for it, and the
  process dies. Start-up calls `readManifest`, which throws, and continues with
  the next journal (`server/transactions.mjs:989-993`); the server serves with the
  work unmarked. OpensWithMarkedWork and RestartMarksUndamagedWork except journals
  that are refused, InterruptedWorkEnds only for as long as they are: if the row
  comes back, the next refused prepare marks the work.
- *Torn files*: lease.json is created and then filled (421-431), audit lines are
  appended (950-952). A file that was cut off in between makes `initialize` reject
  (117-127) at this and every later start, so the server does not listen and
  interrupted work of environments listed after it is never marked.
  RestartMarksUndamagedWork excepts it (`Damaged`).

- RefusedStaysOff excepts `delayed`: GitHub may apply a ref update after the
  server gave up on it (20 s) and asked the branch.
- StartedCompletes excepts `Wedged`. `prepare`, `start` and `resume` set an active
  state and then save the journal (`repository-creation.mjs:328-330, 353-358,
  376-380`). If that save fails the operation is active but in no queue: `start`
  answers IMPORT_NOT_READY, `resume` IMPORT_NOT_RESUMABLE; a pause, which stops it
  (`:393`), or a restart of the server frees it. A failing save inside the runner is handled (`Stop`).
- The properties of Connections except what `amiss` marks. *kept*: the vault
  reports that an envelope could not be deleted and no caller looks at the answer
  (`connection-lifecycle.mjs:254, 417, 487`), so a session-only or removed
  connection keeps a sealed token. *cut*: the process died between two stores,
  and nothing compares them at start-up. *late*: a reconnect or resume under way
  while its connection is removed ends in an envelope or a session without a
  connection; `profiles.update` throws, but after the store. *crossed*: a resume
  that read the old token before a reconnect replaced it opens its session
  afterwards, and of two reconnects the earlier may win. *unstored*: of two
  overlapping reconnects one fails to store and marks the envelope of the other
  as session-only.
- Two overlapping requests that create a connection for one account both pass
  `findByAccount` (`connection-lifecycle.mjs:158`), which reads outside the queue
  of `create`; the run has one connection.
- A disconnect that comes while the displaced session is being revoked is undone:
  the generation is compared before that await (`github-session-manager.mjs:
  228-240`), and the session is adopted, although the comment at 279-280 says that
  a connect in flight is superseded. ShownIsUsedUnmixed holds all the same.
- PendingEnds excepts a browser whose row is not the reviewed one. The row is
  staged once (`workspace-activation.mjs:191`): when another tab starts and puts
  the list's row back, `currentEnvironment` still accepts it, as the original, but
  every retry fails at the snapshot until the tab is reloaded and forgets the
  review.
- CommitReplacesOnlyReviewed is about the commit's own request. A retry that is
  refused because the list has a later connection has learnt the later revision
  all the same (`workspace-activation.mjs:168`), so the next full synchronization
  of that tab, when any workspace is opened or renamed, sends the staged row over
  it. A full synchronization also publishes a staged row nobody confirmed.
- ConfirmedIsTrue says the account was in use at some time since the user
  confirmed, not that it still is: the generation advances when an exchange begins
  and the account changes when it ends (`github-session-manager.mjs:222-238`), so
  one that began before the validation is not noticed.
- NoUnaccountedBytes, and the second half of ToldTheTruth, hold on the condition
  `~rushed`: no recovery of a save was begun while a tab was still at work on it.
  Nothing in the code enforces this (no Web Lock, the browser does not look at the
  lease again before each write, `mutation-coordinator.mjs:197-203` checks nothing
  about other tabs), and LocalSave has these recoveries. Without the condition TLC
  violates both: a tab is between two writes, its lease expires or the server
  restarts, the work is marked, a second tab rolls it back and has the rollback
  confirmed, and the first tab publishes its next file. CommittedWasOnDisk and the
  three properties about foreign bytes hold through all this, without a condition.
- CommitsAreAudited is bounded by the audit's size. The file keeps the newest 500
  records of all workspaces (`server/github/audit.mjs:20, 62-65`), so the commits of
  a quiet workspace lose theirs to a busy one. They stay on the branch, but are not
  listed as Citadel's, cannot be undone and get no branch any more, and an undo
  offered by History may be refused a moment later (`history.mjs:163-175`). The
  property says that a commit on a branch was recorded first, for its workspace,
  and that its record goes only behind 500 newer ones. History looks only among
  the newest 100 commits of the branch (`history.mjs:7, 30`), which is not modelled.
  ToldTheTruth therefore says of an answered save that it *was* recorded.

### Assumptions

- *Fairness.* `StoreLive` assumes that failures come to an end (`FailuresEnd`),
  that the process is restarted and its start-up loop runs, that leases expire,
  that a queued operation runs, and that people keep working: a save is tried
  again and again (SF of `StartPrepare`), and recovery offered in History is asked
  for and carried out (SF of `Recover` and `Rollback`; strong, because the
  credentials can be lost any number of times in between). Nothing in the server
  ends an interrupted commit by itself, so less would not do. `StartupRecovery`
  assumes that the process is restarted and its start-up runs. `RepositoryCreation`
  assumes that the runner's loop runs (WF), that failures, pauses and what others
  do are finitely many (the bounds), and that people resume an operation that
  keeps being stopped (SF of each `Resume`): no timer in the code does it for
  them. `Reattachment` assumes that an operation of a tab goes on (WF of
  `Proceed`) and that people keep trying what is pending (SF of `Try`): they
  connect again, revalidate when a branch moved and otherwise retry, as the dialog
  offers. Nothing in LocalSave, GitHubSave, RegistrySync and Connections is assumed
  fair: their properties are safety.
- *GitHub.* A ref update without force moves a branch only forward from the head
  it was built on; creating a repository or renaming a branch refuses a name that
  is taken; objects uploaded to a repository stay in it while the importer is at
  work. This is how `src/` uses the API; it is modelled as external.
- *Edits.* Another program does not edit a file in the instant between the hash
  check and the publication: the API offers no exclusion, and
  BACKUP-RECOVERY.md:97-99 says so. Everywhere else it may.

## 4. The proofs

`TransactionStoreProofs.tla` proves for any sets of transactions, files and
plans, any retention minimum and with or without tearing, under the named
assumption `StoreAssumption` alone:

| Theorem | Statement |
| --- | --- |
| TypeCorrect | `Spec => []TypeOK` |
| OpenWorkIsGuarded | `Spec => []LeaseGuardsOpenWork` |
| OneOpenTransaction | two transactions are never open together |
| BackupsPrecedeAuthority | `Spec => []BackupsBeforeAuthority` |
| CredentialsPrecedeJournal | `Spec => []CredentialsBeforeJournal` |

None of the last four is inductive on its own. The invariant `IInv` adds to
TypeOK, for each transaction, the conjuncts of `Safe`: an open journal owns the
lease; a recovery flag stands only on a journal that is committing, reverting or
failed; an id not yet generated has no journal; and while a journal is `Kept`
(open, or within the `Window` after which retention may remove it), an
authorized or planned one has the backups of every file that existed and one
with a status has its credentials. Past the window a removal cut short may leave
a manifest without either, so the promise ends there; that time only makes a
journal less kept, and that closing one does not make it kept again without its
files, are what the proof adds for it (`OpenIsWhole`, `HalvesStep`,
`HalfIsSafe`).

Two more conjuncts speak of the stages between actions. `AcquiredLeaseIsFree`
says that while `stage` is "prepare" or "revert" nobody owns the lease, hence by
`Safe` no transaction is open: `acquireLeaseInternal` has just established it,
and without it the `Prepare` step could open a second transaction.
`RevertTarget` says that a revert's subject is still the committed creation
`StartRevert` looked at. The proof has one step per action; what several of them
need (a write cut after n keeps an unchanged transaction safe, closing frees the
lease only of a closed transaction, retention removes finished journals only)
are lemmas.

`TransactionStoreAuditProofs.tla` goes on from `IInv` to what the store remembers
of finished work:

| Theorem | Statement |
| --- | --- |
| AuditIsFaithful | `Spec => []AuditMatchesOutcome` |
| OutcomesAreKept | `Spec => OutcomeIsFinal` |
| RetentionLosesNothing | `Spec => RetentionIsSafe` |
| StoreKeepsTheJournal | `Spec => ImplementsSaveJournal` |

Its invariant `AInv` has three parts. `Told` is about one transaction: the lines
are distinct and end with the outcome, the flag `audited` is never ahead of the
line, there is none before an outcome, a failure that awaits recovery is the only
one so far, and what is committed or being undone was not rolled back before.
`UntoldHoldsLease` says that a finished transaction whose outcome the log lacks
still owns the lease, since the line is written before the lease is freed, and
retention runs only after that. `ScannedIsTold` says the same of start-up, which
completes the log of a journal before it leaves it. A step does one of three
things to a transaction: it works on (`Works`), gives it an outcome (`Closes`) or
only completes the log (`Completes`). That a removed journal leaves
MinimumPerTarget newer ones behind is not clear when several go at once, each
judged by its rank before any has gone. Among the removed ones that are no
older, take the one with the fewest newer rows: none of the rows above it is
removed, and they are enough (`NewestRemain`).

StoreKeepsTheJournal is the refinement of `SaveJournal`: the initial states map to
its initial state, and every step of the store maps to a step of it or a stutter
(`Simulates`): retention on its own to Forget, and each turn, which is about one
transaction, to a stutter, an Open or a Move of that one. That an Open finds no
other transaction active is `Safe` after the step, by which both would own the
lease. Closing, after which the same turn may run retention, is a Move that forgets
what retention removes: the log has the outcome of each, which is how
`PhaseOf` tells a forgotten transaction from a new one. The places where a turn
may be cut short are all in `Scanned` and `SaveManifest`, so that a crash adds no
case of its own.

`LocalSaveProofs.tla` proves for any sets of tabs, saves and files and any bound on
late requests, under `LocalSaveAssumption` (the bytes of a save are nobody
else's, and at least one credential can be issued), every property SaveLocal checks:

| Theorem | Statement |
| --- | --- |
| TypeCorrect | `Spec => []TypeOK` |
| ReceiptsAreTruthful | `Spec => []CommittedWasOnDisk` |
| SavesReplaceOnlyKeptBytes | `Spec => SavesKeepForeignBytes` |
| NativeRecoveryReplacesOnlyKeptBytes | `Spec => NativeRecoveryKeepsForeignBytes` |
| NoBytesUnaccounted | `Spec => []NoUnaccountedBytes` |
| UsersAreToldTheTruth | `Spec => []ToldTheTruth` |

Two invariants carry them. `IInv` holds whatever tabs do to each other. It says of
each journal, request under way and tab what it knows by itself: a tab that writes
has backed up what it read (`StateOK`), a target being published was read with the
bytes that are replaced (`TargetOK`), a receipt under way lists only files that
have held their bytes (`QueryOK`). The first four theorems follow from it.

`PInv` is proved for the states in which `rushed` is still false, which is the
condition the two last properties state themselves (see *Limits*): the history
variable never becomes false again, so the steps that matter start in such states.
It relates a tab to its journal and each tab to the others. What a late request can still make of its journal is bounded by the journal's
status (`QueryFits`, `Serves`), and expiry or a restart only ever make less of it
(`Fades`); credentials issued by a recover are newer than those of every request
sent before, so that these change nothing any more; nobody recovers the save a tab
is at work on, and no request that would close it is under way (`NoClash`,
`Coexist`); and a save that was rolled back has left no bytes on disk because the
tab that closed it had seen each file restored (`JournalFits`, `StageFits`). The proof has
a lemma per action for what each does to its own tab, and one for what each kind
of change (of the folder, of a journal, of a request) does to the others.

`StartupRecoveryProofs.tla` proves OpeningImpliesMarked
(`Spec => OpensWithMarkedWork`) for any order of any environments, with rows that
change and files that are torn. Its invariant is that of a loop: while the process
starts up, an environment before `next` has an orphan left only if its journal is
refused (`BehindIsMarked`), so the step that opens the server finds no other.

`GitHubSaveProofs.tla` proves for any number of tabs, branches' files, attempts and
losses, under `GitHubAssumption`, every property of the commit path:

| Theorem | Statement |
| --- | --- |
| GitHubTypeCorrect | `Spec => []TypeOK` |
| ToldTruly | `Spec => []ToldTheTruth` |
| RefusedCommitsStayOff | `Spec => []RefusedStaysOff` |
| BranchHoldsAuditedCommits | `Spec => []CommitsAreAudited` |
| ReviewedBytesOnly | `Spec => []OverwritesOnlyReviewed` |
| DraftsOutliveRefusals | `Spec => DraftGoesOnlyWhenSaved` |

The invariant follows one commit from its objects to the answer. *The store*
(`StoreInv`): the branch is a chain, each commit on top of its predecessor, so that
a ref update from a parent is a comparison with the parent's tree. *The attempt*
(`AttemptInv`): what it refers to exists (`Refers`), its commit is made of exactly
the change that was reviewed on the commit that was reviewed (`Made`), its
record is written before the ref can move (`Ordered`), and what it has been answered is so and
stays so (`Answered`). *The tab* (`TabInv`): it waits for one attempt and what it
was told is what that attempt was answered. `Unique` says that two attempts never
made the same commit; without it a refused attempt could be on the branch by the
success of another. *The file* (`FileInv`): it is the last part of everything ever
recorded (`log`), at most `MaxRecords` long. Appending keeps that, so what was once
written is kept until as many newer records follow (`WrittenIsKept`), for any cap.

`RepositoryCreationProofs.tla` proves for any set of operations, versions and
bounds, under `CreationAssumption`, every safety property of the copy:

| Theorem | Statement |
| --- | --- |
| TypeCorrect | `Spec => []TypeOK` |
| AttemptsAreJournalled | `Spec => []CreatedIsOnDisk` |
| OnlyItsOwnIsTakenUp | `Spec => []TakesUpOnlyItsOwn` |
| ReviewedIsPublished | `Spec => []PublishesWhatWasReviewed` |
| NameHasOneOwner | `Spec => []OneOwnerOfTheName` |
| CompleteIsPublished | `Spec => []CompleteIsTrue` |
| NothingOverwritten | `Spec => NothingIsOverwritten` |

The argument has three links. *The two copies*: `mem` and `disk` each satisfy
`RecordOK` and `Single` for themselves, and `mem` is `Extended` from `disk`, so
that a restart, which makes `mem` from `disk`, forgets nothing a property needs.
*The runner*: `StepOK` says what it knows at each step, above all that from
validation on nothing is in memory that is not on disk, which is what each
checkpoint before a request is for: a write sent to GitHub therefore rests on
the journal even if it is carried out when its caller is long gone (`LateOK`).
*GitHub*: `RepositoryOK` gives the shape of every branch (Boot first, a snapshot
only as the second commit after it, only Alien ones where Somebody is the creator),
from which a PATCH without force can append to Boot or change nothing, and a
rename finds an empty main. Each write has its lemma (`CreatedHolds`,
`PatchedHolds`, `RenamedHolds`), used both for the runner's own step and for the
same write carried out late.

`ConnectionsProofs.tla` proves for any number of tabs, panels, connections,
tokens and sessions, under `ConnectionsAssumption`, whatever requests overlap and
whatever fails:

| Theorem | Statement |
| --- | --- |
| ConnectionsKeepTheirAccount | `Spec => []AccountBound` |
| RemovalForgets | `Spec => []RemovedIsForgotten` |
| TabsShowWhatTheyUse | `Spec => []ShownIsUsedUnmixed` |
| ReplacedTokensStayOut | `Spec => []ReplacedStaysOut` |
| ModesTellWhatIsSealed | `Spec => []SessionOnlyKeepsNothing` |
| ConnectionsTypeCorrect | `Spec => []TypeOK` |

The first two share an invariant. `Fits` says what a request under way carries:
from the check of its token on, a token of its connection's account, which stays
true however long the request takes because a connection never changes its
account. `UnusedOK` and `RemovedOK` say that a connection not yet made, or removed
without a request being overtaken, has no session and no request, and after its
erasure no envelope. Nearly every step has the shape `Gentle`: a token is sealed,
or a session opened, only out of a session of the same connection or by a request
whose token was checked. Creation, removal, its erasure and the restart do not,
and have proofs of their own. The third is about each tab alone (`Steady`): while
restore asks about an id nothing is shown or adopted, unless the tab is `mixed`,
which it stays; ConnectionsRestore shows that for those the statement is false.

The next two share `CInv`, of two parts. `HeldOK` is about tokens: what a request
carries, a session uses or an envelope seals was not replaced (`OutOK`). Every step
but `Replace` is `Tidy`: a token comes to be held for a connection only out of what
is held for it already, or for a connection that is new. `Replace` takes away
exactly what it replaces, and nobody else is at work for the connection then,
unless two requests met (`Sole`, the mark "crossed").

`KeptOK` is about the mode. Between a request's change of the envelope and its
change of the list others may do both, so mode and envelope disagree in most
reachable states. What always holds is `Agrees`: the last request in line for a
connection, or else its mode, says whether there is an envelope. It is stated of
the states in which no token is about to be sealed; for the others `StoreOK` says
that whoever is about to seal was asked to persist and, for a creation, that
nobody waits in line for that connection, which is the order that the vault's
queue gives. The line moves in three ways (`LineMoves`): it stays, somebody joins
at its end, its head leaves; who acts in a step is named (`Acts`), and a connection
it is not about is `Aside`. When nothing is under way for a connection (`AtRest`),
`Agrees` is the property.

For TypeOK, opening a session is only possible below the limit and every other step
ends some (`Limited`), and the line, in which nobody waits twice, is an injection into the tabs
and panels (`LineIsShort`). The assumption that each setting has finitely many
tabs and panels is for this theorem only.

`ReattachmentProofs.tla`:

| Theorem | Statement |
| --- | --- |
| OnlyReviewedIsReplaced | `Spec => CommitReplacesOnlyReviewed` |
| ToldIsTrue | `Spec => ConfirmedIsTrue` |

The invariant speaks of each tab by itself. `Known`: if the revision a commit
learnt is still the current one, the list has what the commit accepted, because
every change of the list makes all other tabs' revisions old; this is what lets
the server's comparison stand for a look at the list. `Seen`: what the commit has
passed is in its history. A step of one tab disturbs another only through the list
(`Untouched`), so each action is proved for its own tab. The assumption is that
`Absent` and `None` are no connections.

Every safety invariant, every action property and the refinement that a passing
run checks are thereby proved. Only model-checked are the liveness properties
(InterruptedWorkEnds, StartedCompletes, PendingEnds and RestartMarksUndamagedWork): fairness, ENABLED and the
induction they need are beyond the prover.

## 5. Plan

The plan of modules, runs and theorems is carried out. What would come next is
more of the program: the activation of a workspace (`openEnvironment` and
its generations), and a second tab in the synchronization of views; each needs a
module of its own before there is something to prove.

## 6. Not modelled

- *Of the connections*: names, renaming, the limits on connections and attempts,
  the vault's cryptography and its key, a token whose account changes
  (`connection-lifecycle.mjs:323-338`; GitHub does not do that), and the reading
  routes.
- *Owner*: one exclusive creation of one record, and a comparison with it.
- *Of reattachment*: the identity of source and native binding, which no operation
  changes, and the row's other columns.
- *Activation, views, single flight.* `openEnvironment` compares its generation
  before it assigns `active` but awaits `getHandle` in between
  (`workspace-activation.mjs:368-374`), so the check does not cover the
  assignment. Single flight is a synchronous check of one key; a tab
  of GitHubSave waits for one save at a time because of it.
- *Migration* is data transformation whose saves go through the modelled save.
- *Desktop*: the phases of an update.
- *Parsers, editors, policy, Terraform export, presentation, diagnostics*: pure
  functions of text and views. They are most of the lines of `src/CitadelUI`.
