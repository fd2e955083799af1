----------------------------- MODULE RegistrySync -----------------------------
(***************************************************************************)
(* The list of workspaces, which /data keeps and every browser mirrors     *)
(* (server/registry-store.mjs, web/js/registry-sync.mjs).  A browser sends  *)
(* all its rows with the epoch and revision it last learnt, and the server *)
(* takes them only if these are current.  A removal whose confirmation the  *)
(* browser did not get leaves a tombstone in its local storage, which the   *)
(* next start sends again before it reads the list.                         *)
(*                                                                         *)
(* A row is the identifier of its workspace: identifiers are never reused,  *)
(* and what else a row holds (label, source, times) is sent with it.  One   *)
(* tab per browser; projects are left out.                                  *)
(***************************************************************************)
EXTENDS Naturals

CONSTANTS
    Browsers,
    Workspaces,
    None,        \* no authority, no workspace
    MaxLosses,   \* bound: failing requests and lost answers
    MaxResets,   \* bound: resets of the data directory
    MaxRevision  \* bound: revisions of the list

VARIABLES
    server,     \* the list [epoch, revision, rows]
    local,      \* the rows of a browser's database
    tombs,      \* a browser's tombstones
    authority,  \* the [epoch, revision] a tab learnt, or None
    at,         \* where a tab is
    attaching,  \* the workspace a tab is attaching, or None
    used,       \* workspaces that were ever attached
    removed,    \* workspaces whose removal the server confirmed
    losses      \* counter of the bound

vars == <<server, local, tombs, authority, at, attaching, used, removed, losses>>

Init ==
    /\ \E rows \in SUBSET Workspaces :
          server = [epoch |-> 0, revision |-> 0, rows |-> rows] /\ used = rows
    /\ local = [b \in Browsers |-> {}]
    /\ tombs = [b \in Browsers |-> {}]
    /\ authority = [b \in Browsers |-> None]
    /\ at = [b \in Browsers |-> "closed"]
    /\ attaching = [b \in Browsers |-> None]
    /\ removed = {} /\ losses = 0

Lose == losses < MaxLosses /\ losses' = losses + 1

Learnt == [epoch |-> server.epoch, revision |-> server.revision]

At(b, place, next) == at[b] = place /\ at' = [at EXCEPT ![b] = next]

\* syncRegistryMetadata sends the rows without those it removes; reconcile
\* removes, then adds, under the next revision.
Reconciled(rows, removals) ==
    server' = [server EXCEPT !.revision = @ + 1, !.rows = (@ \ removals) \cup (rows \ removals)]

\* The request succeeds, or it fails: refused, lost, or its answer lost.
Put(b, rows, removals, confirmed, failed) ==
    \/ /\ authority[b] = Learnt /\ server.revision < MaxRevision
       /\ Reconciled(rows, removals)
       /\ authority' = [authority EXCEPT ![b] = [Learnt EXCEPT !.revision = @ + 1]]
       /\ removed' = removed \cup removals
       /\ confirmed /\ UNCHANGED losses
    \/ /\ authority[b] = Learnt /\ server.revision < MaxRevision
       /\ Reconciled(rows, removals)
       /\ failed /\ Lose /\ UNCHANGED <<authority, removed>>
    \/ /\ IF authority[b] = Learnt THEN Lose ELSE UNCHANGED losses
       /\ failed /\ UNCHANGED <<server, removed, authority>>

-----------------------------------------------------------------------------
(* ensureWorkspace: resolvePendingRemovals, then reconcileRegistryMetadata.  *)

Open(b) ==
    /\ at[b] = "closed"
    /\ at' = [at EXCEPT ![b] = IF tombs[b] = {} THEN "reconcile" ELSE "establish"]
    /\ authority' = [authority EXCEPT ![b] = None]
    /\ UNCHANGED <<server, local, tombs, attaching, used, removed, losses>>

\* A browser that cannot have its removals confirmed goes on with its own rows.
Establish(b) ==
    /\ \/ /\ At(b, "establish", "mirror")
          /\ authority' = [authority EXCEPT ![b] = Learnt]
          /\ UNCHANGED losses
       \/ At(b, "establish", "running") /\ Lose /\ UNCHANGED authority
    /\ UNCHANGED <<server, local, tombs, attaching, used, removed>>

Mirror(b) ==
    /\ Put(b, local[b], tombs[b],
           At(b, "mirror", "reconcile") /\ tombs' = [tombs EXCEPT ![b] = {}],
           At(b, "mirror", "running") /\ UNCHANGED tombs)
    /\ UNCHANGED <<local, attaching, used>>

Reconcile(b) ==
    /\ \/ /\ At(b, "reconcile", "running")
          /\ local' = [local EXCEPT ![b] = server.rows]
          /\ authority' = [authority EXCEPT ![b] = Learnt]
          /\ UNCHANGED losses
       \/ At(b, "reconcile", "closed") /\ Lose /\ UNCHANGED <<local, authority>>
    /\ UNCHANGED <<server, tombs, attaching, used, removed>>

Close(b) ==
    /\ at[b] # "closed"
    /\ at' = [at EXCEPT ![b] = "closed"]
    /\ attaching' = [attaching EXCEPT ![b] = None]
    /\ UNCHANGED <<server, local, tombs, authority, used, removed, losses>>

-----------------------------------------------------------------------------
(* What the user does. *)

Ready(b) == at[b] = "running" /\ attaching[b] = None

\* Renaming, verifying, opening: the rows stay the same.
Update(b) ==
    /\ Ready(b)
    /\ Put(b, local[b], {}, TRUE, TRUE)
    /\ UNCHANGED <<local, tombs, at, attaching, used>>

\* detachEnvironment, in the list of workspaces.
Detach(b, w) ==
    /\ Ready(b) /\ w \in local[b]
    /\ local' = [local EXCEPT ![b] = @ \ {w}]
    /\ Put(b, local'[b], {w}, tombs' = [tombs EXCEPT ![b] = @ \ {w}], tombs' = [tombs EXCEPT ![b] = @ \cup {w}])
    /\ UNCHANGED <<at, attaching, used>>

\* "Remove profile", in the settings: a failure puts the row back.
RemoveProfile(b, w) ==
    /\ Ready(b) /\ w \in local[b]
    /\ Put(b, local[b] \ {w}, {w}, local' = [local EXCEPT ![b] = @ \ {w}], UNCHANGED local)
    /\ UNCHANGED <<tombs, at, attaching, used>>

\* attachGitHubEnvironment: the new row is mirrored, then its repository read.
Attach(b, w) ==
    /\ Ready(b) /\ w \notin used
    /\ used' = used \cup {w}
    /\ local' = [local EXCEPT ![b] = @ \cup {w}]
    /\ attaching' = [attaching EXCEPT ![b] = w]
    /\ Put(b, local'[b], {}, UNCHANGED at, At(b, "running", "undo"))
    /\ UNCHANGED tombs

Attached(b) ==
    /\ at[b] = "running" /\ attaching[b] # None
    /\ \/ /\ Put(b, local[b], {}, /\ attaching' = [attaching EXCEPT ![b] = None]
                                  /\ tombs' = [tombs EXCEPT ![b] = @ \ {attaching[b]}]
                                  /\ UNCHANGED at,
                 At(b, "running", "undo") /\ UNCHANGED <<attaching, tombs>>)
       \/ /\ At(b, "running", "undo")   \* the repository cannot be opened
          /\ UNCHANGED <<server, authority, attaching, tombs, removed, losses>>
    /\ UNCHANGED <<local, used>>

\* Its catch: a confirmed removal clears all tombstones.
UndoAttach(b) ==
    /\ At(b, "undo", "running")
    /\ local' = [local EXCEPT ![b] = @ \ {attaching[b]}]
    /\ attaching' = [attaching EXCEPT ![b] = None]
    /\ Put(b, local'[b], {attaching[b]},
           tombs' = [tombs EXCEPT ![b] = {}], tombs' = [tombs EXCEPT ![b] = @ \cup {attaching[b]}])
    /\ UNCHANGED used

\* The data directory is emptied: RegistryStore.initialize makes a new list.
Reset ==
    /\ server.epoch < MaxResets
    /\ server' = [epoch |-> server.epoch + 1, revision |-> 0, rows |-> {}]
    /\ UNCHANGED <<local, tombs, authority, at, attaching, used, removed, losses>>

Next ==
    \/ \E b \in Browsers :
          \/ Open(b) \/ Establish(b) \/ Mirror(b) \/ Reconcile(b) \/ Close(b)
          \/ Update(b) \/ Attached(b) \/ UndoAttach(b)
          \/ \E w \in Workspaces : Detach(b, w) \/ RemoveProfile(b, w) \/ Attach(b, w)
    \/ Reset

Spec == Init /\ [][Next]_vars
-----------------------------------------------------------------------------
\* "Stale registry epochs and revisions cannot resurrect deleted metadata"
\* (test/registry-store.test.mjs:809): a workspace whose removal the server
\* confirmed is never in its list again.
RemovedStaysRemoved == removed \cap server.rows = {}
=============================================================================
