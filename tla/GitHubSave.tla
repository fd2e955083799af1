----------------------------- MODULE GitHubSave -----------------------------
(***************************************************************************)
(* Saves of a workspace whose source is a branch on GitHub                 *)
(* (server/github/workspace.mjs, history.mjs, audit.mjs and the browser's  *)
(* github-coordinator.mjs, github-provider.mjs, workspace-service.mjs).    *)
(* A save builds a commit on the reviewed head, records it in the server's *)
(* audit and asks GitHub to move the branch without force; what it tells   *)
(* the user must be true although each of the three parties can lose the   *)
(* other's answer, and although colleagues push and protect the branch.    *)
(* A commit is its number in commits; blobs are named by their contents.   *)
(***************************************************************************)
EXTENDS Naturals, Sequences, FiniteSets

CONSTANTS
    Tabs,          \* browser tabs that edit the workspace
    Environment,   \* Environment[t]: the workspace of tab t, all on one branch
    Files,         \* files in its scope
    Bridge,        \* those that the subscription bridge edits, .azure/<name>/.env
    Contents,      \* what a file may hold
    Absent,        \* not one of them: there is no such file
    None,          \* not a commit, attempt or draft
    Start,         \* what the branch holds at first
    MaxAttempts,   \* bound: requests that save
    MaxForeign,    \* bound: commits of colleagues
    MaxOthers,     \* bound: those, and records of other workspaces and branches
    MaxLosses,     \* bound: failed or lost calls
    MaxRecords,    \* MAX_RECORDS
    Depth          \* MAX_RECONCILE_DEPTH

ASSUME GitHubAssumption ==
    /\ Bridge \subseteq Files
    /\ Absent \notin Contents
    /\ Start \in [Files -> Contents \cup {Absent}]
    /\ None \notin Nat
    /\ MaxAttempts \in Nat /\ MaxForeign \in Nat /\ MaxLosses \in Nat
    /\ MaxOthers \in Nat
    /\ MaxRecords \in Nat \ {0} /\ Depth \in Nat \ {0}

Attempts == 1..MaxAttempts
Commits  == 1..(1 + MaxAttempts + MaxForeign)
Trees    == [Files -> Contents \cup {Absent}]

VARIABLES
    commits,     \* GitHub: the commit objects, [parent, tree]
    branch,      \* GitHub: the commits of the working branch, oldest first
    side,        \* GitHub: the commit of a branch the user named, or None
    delayed,     \* GitHub: updates whose caller gave up before they were applied
    audit,       \* server: the records [commit, environment] in github-audit.json
    log,         \* history: all the records that were ever written there
    attempt,     \* server: the request that saves, by number
    snapshot,    \* tab: the commit its source tree was read from
    draft,       \* tab: the edit it has not saved
    waiting,     \* tab: the attempt it waits for
    told,        \* tab: what it last told the user of a save
    foreign,     \* how many commits colleagues made
    losses       \* how many calls failed or were lost

remote  == <<commits, branch, side, delayed>>
records == <<audit, log>>
browser == <<snapshot, draft, waiting, told>>
counts  == <<foreign, losses>>
vars    == <<remote, records, attempt, browser, counts>>

NoChange == [files |-> {}, before |-> <<>>, after |-> <<>>]
Unused   == [stage |-> "unused", kind |-> "edit", tab |-> None, base |-> None, change |-> NoChange,
             target |-> None, commit |-> None, found |-> None, outcome |-> "none", names |-> None]
Nothing  == [outcome |-> "nothing", attempt |-> None]

Tip      == branch[Len(branch)]
OnBranch == {branch[i] : i \in DOMAIN branch}
Tree(c)  == commits[c].tree
Changed(c) == {f \in Files : Tree(c)[f] # Tree(commits[c].parent)[f]}

\* A record of this branch, and one of any other.
Entry(c, e) == [commit |-> c, environment |-> e]
Elsewhere   == Entry(None, None)

Kept    == {audit[i] : i \in DOMAIN audit}
Written == {log[i] : i \in DOMAIN log}
Attributed(c, e) == Entry(c, e) \in Kept    \* audit.find finds it
Recorded(c, e)   == Entry(c, e) \in Written \* it was there once

\* Fault: commits.slice(0, maxRecords).
OldestOf(s) == IF Len(s) > MaxRecords THEN SubSeq(s, 1, MaxRecords) ELSE s
\* commits.slice(-maxRecords): one file serves every workspace.
NewestOf(s) == IF Len(s) > MaxRecords THEN SubSeq(s, Len(s) - MaxRecords + 1, Len(s)) ELSE s

Appends(x) == /\ audit' = NewestOf(Append(audit, x))
              /\ log' = Append(log, x)

\* A call fails, or its answer is lost.
Lose == losses < MaxLosses /\ losses' = losses + 1

\* Attempt a moves to stage s.
Move(a, s) == attempt' = [attempt EXCEPT ![a] = [@ EXCEPT !.stage = s]]
\* The server's answer to a: outcome o and the commit it names.
Answer(a, o, c) ==
    attempt' = [attempt EXCEPT ![a] =
                  [@ EXCEPT !.stage = "answered", !.outcome = o, !.names = c]]

-----------------------------------------------------------------------------
(* GitHub, and the people who use it beside Citadel. *)

Init ==
    /\ commits = <<[parent |-> 1, tree |-> Start]>>
    /\ branch = <<1>>
    /\ side = None /\ delayed = {}
    /\ audit = <<>> /\ log = <<>>
    /\ attempt = [a \in Attempts |-> Unused]
    /\ snapshot = [t \in Tabs |-> 1]
    /\ draft = [t \in Tabs |-> None]
    /\ waiting = [t \in Tabs |-> None]
    /\ told = [t \in Tabs |-> Nothing]
    /\ foreign = 0 /\ losses = 0

\* A new commit object; parents are immutable, so only the ref update races.
NewCommit(parent, tree) == Append(commits, [parent |-> parent, tree |-> tree])

OthersAct == foreign + Cardinality({i \in DOMAIN log : log[i] = Elsewhere}) < MaxOthers

ColleaguePushes(f, c) ==
    /\ foreign < MaxForeign /\ OthersAct
    /\ Tree(Tip)[f] # c
    /\ commits' = NewCommit(Tip, [Tree(Tip) EXCEPT ![f] = c])
    /\ branch' = Append(branch, Len(commits'))
    /\ foreign' = foreign + 1
    /\ UNCHANGED <<side, delayed, records, attempt, browser, losses>>

\* Fault: force: true.
AcceptsForced(c) == c \in DOMAIN commits
\* PATCH of the ref with force: false; a protected branch refuses it all the same.
Accepts(c) == commits[c].parent = Tip

DelayedUpdateArrives(c) ==
    /\ c \in delayed
    /\ c \notin OnBranch
    /\ Accepts(c)
    /\ branch' = Append(branch, c)
    /\ UNCHANGED <<commits, side, delayed, records, attempt, browser, counts>>

\* A commit is recorded that is not on this branch.
RecordElsewhere ==
    /\ OthersAct
    /\ Appends(Elsewhere)

\* Another workspace, or this one on another branch, saves.
OthersRecord ==
    /\ RecordElsewhere
    /\ UNCHANGED <<remote, attempt, browser, counts>>

-----------------------------------------------------------------------------
(* The browser, before it saves. *)

\* Bound: nothing is edited that could not be saved any more.
SavesLeft == \E a \in Attempts : attempt[a] = Unused

\* The provider drops its snapshot and reads the branch again; a reload of the
\* document keeps a draft only if it was made on the same bytes.
Reload(t) ==
    /\ SavesLeft /\ waiting[t] = None
    /\ snapshot' = [snapshot EXCEPT ![t] = Tip]
    /\ draft' = [draft EXCEPT ![t] =
          IF @ # None /\ Tree(Tip)[@.file] # @.from THEN [@ EXCEPT !.quarantined = TRUE] ELSE @]
    /\ UNCHANGED <<remote, records, attempt, waiting, told, counts>>

Edit(t, f, c) ==
    /\ SavesLeft /\ draft[t] = None /\ waiting[t] = None
    /\ Tree(snapshot[t])[f] # c
    /\ draft' = [draft EXCEPT ![t] =
          [file |-> f, from |-> Tree(snapshot[t])[f], to |-> c, quarantined |-> FALSE]]
    /\ UNCHANGED <<remote, records, attempt, snapshot, waiting, told, counts>>

Discard(t) ==
    /\ SavesLeft /\ draft[t] # None /\ waiting[t] = None
    /\ draft' = [draft EXCEPT ![t] = None]
    /\ UNCHANGED <<remote, records, attempt, snapshot, waiting, told, counts>>

\* The tab sends attempt a of this kind: put change on top of the commit base.
Send(t, a, stage, kind, base, change) ==
    /\ waiting[t] = None
    /\ attempt[a] = Unused
    /\ \A b \in 1..(a - 1) : attempt[b] # Unused
    /\ attempt' = [attempt EXCEPT ![a] = [Unused EXCEPT
          !.stage = stage, !.kind = kind, !.tab = t, !.base = base, !.change = change]]
    /\ waiting' = [waiting EXCEPT ![t] = a]
    /\ UNCHANGED <<remote, records, draft, told, counts>>

\* One file's change, with the contents the user reviewed before it.
Edited(d) == [files  |-> {d.file},
              before |-> [f \in {d.file} |-> d.from],
              after  |-> [f \in {d.file} |-> d.to]]

\* WorkspaceService.save and GitHubCommitCoordinator.prepareRequest.
Save(t, a) ==
    /\ draft[t] # None /\ ~draft[t].quarantined
    /\ draft[t].file \notin Bridge
    /\ Tree(snapshot[t])[draft[t].file] = draft[t].from
    /\ Send(t, a, "ready", "edit", snapshot[t], Edited(draft[t]))
    /\ UNCHANGED snapshot

\* writeSubscriptionId reads the branch again and sends the reviewed hash.
SaveSubscription(t, a) ==
    /\ draft[t] # None
    /\ draft[t].file \in Bridge
    /\ Send(t, a, "ready", "subscription", Tip, Edited(draft[t]))
    /\ snapshot' = [snapshot EXCEPT ![t] = Tip]

\* History offers Undo for the commits of the branch that the audit knows.
Undo(t, a, c) ==
    /\ c \in OnBranch /\ Attributed(c, Environment[t])
    /\ Send(t, a, "sent", "undo", c, NoChange)
    /\ UNCHANGED snapshot

-----------------------------------------------------------------------------
(* The server: commitChangeSet, one step per call that others can overtake. *)

\* A call before the branch could be touched fails, with an error of any status.
Breaks(a) ==
    /\ attempt[a].stage \in {"sent", "ready"}
    /\ Lose
    /\ \E o \in {"failed", "refused"} : Answer(a, o, None)
    /\ UNCHANGED <<remote, records, browser, foreign>>

\* revertCommit: the inverse of a commit that is still in the audit and whose files
\* nobody touched since.
Untouched(c) == \A f \in Changed(c) : Tree(Tip)[f] = Tree(c)[f]
UndoChange(c) ==
    [files  |-> Changed(c),
     before |-> [f \in Changed(c) |-> Tree(c)[f]],
     after  |-> [f \in Changed(c) |-> Tree(commits[c].parent)[f]]]
InspectUndo(a) ==
    LET c == attempt[a].base
    IN  /\ attempt[a].stage = "sent"
        /\ IF Attributed(c, Environment[attempt[a].tab]) /\ Untouched(c)
           THEN attempt' = [attempt EXCEPT ![a] = [@ EXCEPT
                    !.stage = "ready", !.base = Tip, !.target = c, !.change = UndoChange(c)]]
           ELSE Answer(a, "refused", None)
        /\ UNCHANGED <<remote, records, browser, counts>>

\* Fault: does not compare the files' bytes with those reviewed.
ReviewedHead(r) == r.base = Tip
\* The branch is still at the reviewed head, and the files hold there what was
\* reviewed: the commit object is made.
Reviewed(r) == /\ r.base = Tip
               /\ \A f \in r.change.files : Tree(r.base)[f] = r.change.before[f]
Propose(a) ==
    LET r == attempt[a]
    IN  /\ r.stage = "ready"
        /\ IF Reviewed(r)
           THEN /\ commits' = NewCommit(r.base, [f \in Files |->
                      IF f \in r.change.files THEN r.change.after[f] ELSE Tree(r.base)[f]])
                /\ attempt' = [attempt EXCEPT ![a] =
                                   [@ EXCEPT !.stage = "built", !.commit = Len(commits')]]
           ELSE /\ Answer(a, "refused", None)
                /\ UNCHANGED commits
        /\ UNCHANGED <<branch, side, delayed, records, browser, counts>>

\* Fault: the log is best effort.
RecordIfPossible(a) ==
    /\ attempt[a].stage = "built"
    /\ \/ /\ Appends(Entry(attempt[a].commit, Environment[attempt[a].tab]))
          /\ UNCHANGED losses
       \/ /\ Lose
          /\ UNCHANGED records
    /\ Move(a, "recorded")
    /\ UNCHANGED <<remote, browser, foreign>>

\* audit.record; without it nothing is asked of the branch.
Record(a) ==
    /\ attempt[a].stage = "built"
    /\ \/ /\ Appends(Entry(attempt[a].commit, Environment[attempt[a].tab]))
          /\ Move(a, "recorded")
          /\ UNCHANGED losses
       \/ /\ Lose
          /\ Answer(a, "notApplied", None)
          /\ UNCHANGED records
    /\ UNCHANGED <<remote, browser, foreign>>

UpdateRef(a) ==
    LET c == attempt[a].commit
    IN  /\ attempt[a].stage = "recorded"
        /\ \/ /\ Accepts(c)
              /\ branch' = Append(branch, c)
              /\ Answer(a, "applied", c)
              /\ UNCHANGED <<delayed, losses>>
           \/ /\ Accepts(c)                    \* and the answer is lost
              /\ branch' = Append(branch, c)
              /\ Lose
              /\ Move(a, "ambiguous")
              /\ UNCHANGED delayed
           \/ /\ Move(a, "refused")            \* 422: it moved; 403: it is protected
              /\ UNCHANGED <<branch, delayed, losses>>
           \/ /\ Lose                          \* lost, or slower than the time limit
              /\ Move(a, "ambiguous")
              /\ delayed' \in {delayed, delayed \cup {c}}
              /\ UNCHANGED branch
        /\ UNCHANGED <<commits, side, records, browser, foreign>>

\* Fault: an update that did not answer is taken not to have happened.
ReconcileHasty(a) ==
    /\ attempt[a].stage = "ambiguous"
    /\ Answer(a, "notApplied", None)
    /\ UNCHANGED <<remote, records, browser, counts>>

\* reconcileAmbiguousRefUpdate asks the branch whether it holds the commit.
Reconcile(a) ==
    LET c == attempt[a].commit
    IN  /\ attempt[a].stage = "ambiguous"
        /\ \/ /\ c \in OnBranch
              /\ Answer(a, "applied", c)
              /\ UNCHANGED losses
           \/ /\ c \notin OnBranch
              /\ Answer(a, "notApplied", None)
              /\ UNCHANGED losses
           \/ /\ Lose
              /\ Answer(a, "unknown", c)
        /\ UNCHANGED <<remote, records, browser, foreign>>
\* Fault: the same tree is proof enough.
DuplicatesByTree(c, d, e) == Tree(d) = Tree(c)

\* A commit that c duplicates: same tree, same parent, made for this workspace.
Duplicates(c, d, e) ==
    Tree(d) = Tree(c) /\ commits[d].parent = commits[c].parent /\ Attributed(d, e)
\* findAppliedCommit walks from the head to the reviewed commit.
Walk(r) == {branch[i] : i \in {k \in DOMAIN branch : k > Len(branch) - Depth
                                                  /\ \E j \in 1..(k - 1) : branch[j] = r.base}}
FindApplied(a) ==
    LET r       == attempt[a]
        applied == {d \in Walk(r) : Duplicates(r.commit, d, Environment[r.tab])}
    IN  /\ r.stage = "refused"
        /\ \/ /\ \E d \in applied : Answer(a, "applied", d)
              /\ UNCHANGED losses
           \/ /\ applied = {}
              /\ IF Tip # r.base /\ Tree(Tip) = Tree(r.commit)
                 THEN attempt' = [attempt EXCEPT ![a] =
                                    [@ EXCEPT !.stage = "equivalent", !.found = Tip]]
                 ELSE Answer(a, "pending", r.commit)
              /\ UNCHANGED losses
           \/ /\ Lose
              /\ Answer(a, "indeterminate", r.commit)
        /\ UNCHANGED <<remote, records, browser, foreign>>

\* It reads the head again before it says that nothing was left to save.
ConfirmEquivalent(a) ==
    LET r == attempt[a]
    IN  /\ r.stage = "equivalent"
        /\ \/ /\ IF Tip # r.found /\ Tree(Tip) # Tree(r.commit) THEN Answer(a, "pending", r.commit)
                 ELSE IF Tip # r.found /\ Duplicates(r.commit, Tip, Environment[r.tab])
                 THEN Answer(a, "applied", Tip)
                 ELSE Answer(a, "unchanged", Tip)
              /\ UNCHANGED losses
           \/ /\ Lose
              /\ Answer(a, "indeterminate", r.commit)
        /\ UNCHANGED <<remote, records, browser, foreign>>

\* createCommitBranch: create-only, and only for commits the audit knows; the record
\* under the new name is best effort.
NameBranch(t) ==
    LET r == attempt[told[t].attempt]
    IN  /\ waiting[t] = None
        /\ told[t].outcome \in {"pending", "indeterminate"} /\ r.names # None
        /\ Attributed(r.names, Environment[t])
        /\ side = None
        /\ side' = r.names
        /\ RecordElsewhere \/ UNCHANGED records
        /\ UNCHANGED <<commits, branch, delayed, attempt, browser, counts>>

-----------------------------------------------------------------------------
(* The answer reaches the tab, or does not. *)

\* Fault: a commit object is taken for a saved change.
CompleteIfCommitted(outcome) == outcome \in {"applied", "unchanged", "pending"}
Complete(outcome) == outcome \in {"applied", "unchanged"}

\* requestMutation and saveStatusLine: what the user is told of an edit or undo.
Claim(outcome) ==
    CASE outcome \in {"refused", "notApplied"} -> "notSaved"
      [] outcome \in {"failed", "unknown"}     -> "indeterminate"
      [] OTHER                                 -> outcome
\* The handler of the subscription form knows errors and answers only.
ClaimSubscription(outcome) ==
    IF outcome \in {"refused", "notApplied", "failed", "unknown"} THEN "error" ELSE "updated"

\* The draft goes when the save is complete, unless the user has left the
\* document or changed it meanwhile; the provider reads the branch anew.
Deliver(t) ==
    LET a     == waiting[t]
        claim == IF attempt[a].kind = "subscription" THEN ClaimSubscription(attempt[a].outcome)
                 ELSE Claim(attempt[a].outcome)
        done  == Complete(claim) \/ claim = "updated"
    IN  /\ a # None
        /\ attempt[a].stage = "answered"
        /\ told' = [told EXCEPT ![t] = [outcome |-> claim, attempt |-> a]]
        /\ waiting' = [waiting EXCEPT ![t] = None]
        /\ snapshot' = IF done THEN [snapshot EXCEPT ![t] = Tip] ELSE snapshot
        /\ \/ done /\ attempt[a].kind # "undo" /\ draft' = [draft EXCEPT ![t] = None]
           \/ UNCHANGED draft
        /\ Move(a, "closed")
        /\ UNCHANGED <<remote, records, counts>>

\* The connection breaks; the server goes on with the request.
GiveUp(t) ==
    LET a == waiting[t]
    IN  /\ a # None
        /\ Lose
        /\ told' = [told EXCEPT ![t] =
              [outcome |-> IF attempt[a].kind = "subscription" THEN "error" ELSE "indeterminate",
               attempt |-> a]]
        /\ waiting' = [waiting EXCEPT ![t] = None]
        /\ UNCHANGED <<remote, records, attempt, snapshot, draft, foreign>>

\* The server stops: what it was doing ends where it was.
ServerStops ==
    /\ \E a \in Attempts : attempt[a].stage \notin {"unused", "answered", "closed"}
    /\ Lose
    /\ attempt' = [a \in Attempts |->
          IF attempt[a].stage \in {"unused", "answered", "closed"} THEN attempt[a]
          ELSE [attempt[a] EXCEPT !.stage = "answered", !.outcome = "failed"]]
    /\ UNCHANGED <<remote, records, browser, foreign>>

-----------------------------------------------------------------------------
ServerStep(a) ==
    \/ Breaks(a) \/ InspectUndo(a) \/ Propose(a) \/ Record(a) \/ UpdateRef(a)
    \/ Reconcile(a) \/ FindApplied(a) \/ ConfirmEquivalent(a)

TabStep(t) ==
    \/ Reload(t) \/ Discard(t) \/ NameBranch(t) \/ Deliver(t) \/ GiveUp(t)
    \/ \E f \in Files, c \in Contents : Edit(t, f, c)
    \/ \E a \in Attempts : Save(t, a) \/ SaveSubscription(t, a) \/ \E c \in OnBranch : Undo(t, a, c)

Next ==
    \/ \E a \in Attempts : ServerStep(a)
    \/ \E t \in Tabs : TabStep(t)
    \/ ServerStops
    \/ OthersRecord
    \/ \E f \in Files, c \in Contents \cup {Absent} : ColleaguePushes(f, c)
    \/ \E c \in Commits : DelayedUpdateArrives(c)

Spec == Init /\ [][Next]_vars
-----------------------------------------------------------------------------
Change == [files : SUBSET Files, before : UNION {[F -> Contents \cup {Absent}] : F \in SUBSET Files},
           after : UNION {[F -> Contents \cup {Absent}] : F \in SUBSET Files}]
Stages   == {"unused", "sent", "ready", "built", "recorded", "ambiguous", "refused", "equivalent",
             "answered", "closed"}
Outcomes == {"none", "refused", "failed", "notApplied", "unknown", "applied", "unchanged", "pending",
             "indeterminate"}

\* Every variable keeps its type, and the branch is a chain: no step of the
\* server or of GitHub rewrites it.
TypeOK ==
    /\ commits \in Seq([parent : Commits, tree : Trees]) /\ Len(commits) \in Commits
    /\ OnBranch \cup delayed \subseteq DOMAIN commits
    /\ \A i \in 2..Len(branch) : commits[branch[i]].parent = branch[i - 1]
    /\ side \in DOMAIN commits \cup {None}
    /\ Kept \cup Written \subseteq
          {Elsewhere} \cup [commit : DOMAIN commits, environment : {Environment[t] : t \in Tabs}]
    /\ Len(audit) <= MaxRecords
    /\ \A a \in Attempts :
          /\ attempt[a].stage \in Stages /\ attempt[a].outcome \in Outcomes
          /\ attempt[a].kind \in {"edit", "subscription", "undo"}
          /\ attempt[a].change \in Change
          /\ {attempt[a].commit, attempt[a].names, attempt[a].found, attempt[a].target}
                \subseteq DOMAIN commits \cup {None}
    /\ \A t \in Tabs : snapshot[t] \in OnBranch /\ waiting[t] \in Attempts \cup {None}
    /\ foreign \in 0..MaxForeign /\ losses \in 0..MaxLosses

Holds(c, change) == \A f \in change.files : Tree(c)[f] = change.after[f]

\* A save or an undo that is called applied is on the branch, holds what was
\* asked for, and was recorded for History; one called unchanged found the
\* branch holding it already. Lost answers of commitChangeSet, its
\* reconciliation and requestMutation may not add up to anything else.
ToldTheTruth ==
    \A t \in Tabs :
        LET r == attempt[told[t].attempt]
        IN  told[t].outcome \in {"applied", "unchanged"} =>
               /\ r.names \in OnBranch
               /\ Holds(r.names, r.change)
               /\ told[t].outcome = "applied" => Recorded(r.names, Environment[t])

\* A save that is called pending, or not applied, is not on the branch, so that
\* another one repeats nothing; an update that GitHub still has under way when
\* the server gives up on it is the one exception (README.md, assumptions).
RefusedStaysOff ==
    \A t \in Tabs :
        told[t].outcome \in {"pending", "notSaved"} =>
            attempt[told[t].attempt].commit \notin OnBranch \ delayed

\* Whatever fails, a commit of Citadel that a branch holds was recorded for its
\* workspace first, and the record is still in the audit, so that History lists
\* the commit and it can be undone, unless MaxRecords newer ones were written
\* since. They may all be of other workspaces (audit.mjs:62-65): a commit is
\* undoable for as long as the installation is quiet enough, not for ever.
CommitsAreAudited ==
    \A a \in Attempts :
        LET c == attempt[a].commit
            e == Environment[attempt[a].tab]
        IN  c # None /\ c \in OnBranch \cup {side} =>
               \E i \in DOMAIN log :
                  /\ log[i] = Entry(c, e)
                  /\ Attributed(c, e) \/ Len(log) - i >= MaxRecords

\* A commit of Citadel changes on its branch nothing but the files of its
\* change, and these from the very bytes the user reviewed; an undo gives back
\* what the undone commit replaced, where nobody has edited since. The branch
\* is compared as it was just before, whoever moved it and when.
OverwritesOnlyReviewed ==
    \A i \in 2..Len(branch), a \in Attempts :
        attempt[a].commit = branch[i] =>
            LET r   == attempt[a]
                old == Tree(branch[i - 1])
                new == Tree(branch[i])
            IN  \A f \in Files : old[f] # new[f] =>
                   IF r.kind = "undo"
                   THEN old[f] = Tree(r.target)[f] /\ new[f] = Tree(commits[r.target].parent)[f]
                   ELSE f \in r.change.files /\ old[f] = r.change.before[f]

\* While a save is under way the draft disappears from the editor only when the
\* branch has held it: a refused or unknown outcome never costs the user's work.
DraftGoesOnlyWhenSaved ==
    [][\A t \in Tabs :
          draft[t] # None /\ draft'[t] = None /\ waiting[t] # None /\ draft[t].file \notin Bridge =>
              \E c \in OnBranch : Tree(c)[draft[t].file] = draft[t].to]_vars

\* What the user is told was updated in the azd environment is on the branch
\* ("The commit has landed", workspace-routes.mjs:255). The code tells it of
\* commits that the branch refused too.
SubscriptionSaved ==
    \A t \in Tabs :
        told[t].outcome = "updated" =>
            \E c \in OnBranch : Holds(c, attempt[told[t].attempt].change)
=============================================================================
