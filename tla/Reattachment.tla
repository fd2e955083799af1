----------------------------- MODULE Reattachment -----------------------------
(***************************************************************************)
(* A workspace whose connection is gone is given another one               *)
(* (createWorkspaceReattachment in web/js/workspace-activation.mjs).  The   *)
(* user reviews the account and the heads of both branches; the commit     *)
(* validates them anew, stages the connection in the browser's database,    *)
(* and sends the row to the list that all browsers share.  Until the list   *)
(* has confirmed it, the reattachment is pending and can be retried.        *)
(*                                                                         *)
(* One workspace, the tabs of one browser and their common database; other *)
(* browsers change the list.  A connection stands for its account, which   *)
(* never changes (Connections).  A tab's epoch and revision are reduced to *)
(* whether they are current.                                               *)
(***************************************************************************)
EXTENDS Naturals

CONSTANTS
    Tabs,
    Profiles,    \* the connections there are
    Former,      \* the one the workspace was attached through, which is gone
    None,        \* no connection
    Absent,      \* no row of the workspace
    MaxReviews,  \* bound: reviews
    MaxEvents    \* bound: failures, and what others and the user do meanwhile

ASSUME Outside ==
    /\ Absent \notin Profiles \cup {Former, None}
    /\ None \notin Profiles

VARIABLES
    listed,   \* the connection of the workspace in the shared list, or Absent
    local,    \* in the database of the browser
    fresh,    \* does a tab know the list's current revision
    session,  \* the connection whose session a tab uses, or None
    head,     \* counts what was pushed to the two branches
    review,   \* what a tab's user reviewed last, or NoReview
    work,     \* what a tab is doing
    seen,     \* history: what was true since a commit began
    reviews,  \* counters of the bounds
    events

vars == <<listed, local, fresh, session, head, review, work, seen, reviews, events>>

Idle == [op |-> "none", at |-> "idle", original |-> None, profile |-> None,
         head |-> 0, stale |-> FALSE, confirmed |-> FALSE]

NoReview == [original |-> None, profile |-> None, head |-> 0, staged |-> FALSE]

Init ==
    /\ listed = Former /\ local = Former
    /\ fresh = [t \in Tabs |-> TRUE]
    /\ session = [t \in Tabs |-> None]
    /\ head = 0
    /\ review = [t \in Tabs |-> NoReview]
    /\ work = [t \in Tabs |-> Idle]
    /\ seen = [t \in Tabs |-> {}]
    /\ reviews = 0 /\ events = 0

Event == events < MaxEvents /\ events' = events + 1 /\ UNCHANGED reviews

Pending(t) == review[t].staged

\* Fault: a retry does not recognise what it staged itself.
AllowedOriginal(t) == {review[t].original}

\* The connections a retry may find: the reviewed one, and what it staged itself.
Allowed(t) ==
    {review[t].original} \cup (IF review[t].staged THEN {review[t].profile} ELSE {})

Begin(t, op, at, original, profile) ==
    /\ work[t] = Idle
    /\ work' = [work EXCEPT ![t] = [Idle EXCEPT !.op = op, !.at = at,
                                                !.original = original, !.profile = profile]]

Go(t, here, there) == work[t].at = here /\ work' = [work EXCEPT ![t].at = there]

Stop(t) == work' = [work EXCEPT ![t] = Idle]

-----------------------------------------------------------------------------
(* What the user starts: review, commit, revalidate.  One of them at a time. *)

\* The dialog uses the chosen connection first.
Review(t, p) ==
    /\ ~Pending(t) /\ local # Absent
    /\ reviews < MaxReviews /\ reviews' = reviews + 1
    /\ Begin(t, "review", "account", local, p)
    /\ review' = [review EXCEPT ![t] = NoReview]
    /\ session' = [session EXCEPT ![t] = p]
    /\ UNCHANGED <<listed, local, fresh, head, events>>

Commit(t) ==
    /\ review[t] # NoReview
    /\ local \in Allowed(t)
    /\ Begin(t, "commit", "authority", review[t].original, review[t].profile)
    /\ UNCHANGED <<listed, local, fresh, session, head, review, reviews, events>>

Revalidate(t) ==
    /\ Pending(t)
    /\ local \in Allowed(t)
    /\ Begin(t, "revalidate", "account", review[t].original, review[t].profile)
    /\ UNCHANGED <<listed, local, fresh, session, head, review, reviews, events>>

-----------------------------------------------------------------------------
(* Validation: the account, the heads, and the account again. *)

ValidateAccount(t) ==
    /\ work[t].at = "account"
    /\ \/ /\ session[t] = work[t].profile
          /\ work' = [work EXCEPT ![t] = [@ EXCEPT !.at = "refs", !.stale = FALSE]]
       \/ session[t] # work[t].profile /\ Stop(t)
    /\ UNCHANGED <<listed, local, fresh, session, head, review, reviews, events>>

ValidateRefs(t) ==
    /\ work[t].at = "refs"
    /\ work' = [work EXCEPT ![t] = [@ EXCEPT !.at = "again", !.head = head]]
    /\ UNCHANGED <<listed, local, fresh, session, head, review, reviews, events>>

Valid(t) ==
    /\ session[t] = work[t].profile /\ ~work[t].stale
    /\ \/ work[t].op = "review" /\ local = work[t].original
       \/ work[t].op = "revalidate" /\ local \in Allowed(t)
       \/ work[t].op = "commit" /\ work[t].head = review[t].head

\* The second look at the account. What was validated is shown, or, in a commit,
\* has been compared with what the user saw.
Validated(t) ==
    /\ work[t].at = "again"
    /\ \/ /\ Valid(t) /\ work[t].op = "commit"
          /\ Go(t, "again", "current")
          /\ UNCHANGED review
       \/ /\ Valid(t) /\ work[t].op # "commit"
          /\ Stop(t)
          /\ review' = [review EXCEPT ![t] =
                 [original |-> work[t].original, profile |-> work[t].profile,
                  head |-> work[t].head, staged |-> Pending(t)]]
       \/ ~Valid(t) /\ Stop(t) /\ UNCHANGED review
    /\ UNCHANGED <<listed, local, fresh, session, head, reviews, events>>

-----------------------------------------------------------------------------
(* The commit. *)

\* Fault: the list is read for its revision only.
EstablishUnchecked(t) ==
    /\ work[t].at = "authority"
    /\ fresh' = [fresh EXCEPT ![t] = TRUE]
    /\ work' = [work EXCEPT ![t] = [@ EXCEPT
            !.at = "account", !.confirmed = review[t].staged /\ listed = review[t].profile]]
    /\ UNCHANGED <<listed, local, session, head, review, reviews, events>>

\* Fault: a retry takes what it sent before for confirmed.
EstablishSent(t) ==
    /\ work[t].at = "authority"
    /\ fresh' = [fresh EXCEPT ![t] = TRUE]
    /\ \/ /\ listed \in Allowed(t)
          /\ work' = [work EXCEPT ![t] = [@ EXCEPT !.at = "account",
                                                  !.confirmed = review[t].staged]]
       \/ listed \notin Allowed(t) /\ Stop(t)
    /\ UNCHANGED <<listed, local, session, head, review, reviews, events>>

\* establishRegistryAuthority: what the list has now must be what was reviewed,
\* or what an earlier try of this commit brought there.
Establish(t) ==
    /\ work[t].at = "authority"
    /\ fresh' = [fresh EXCEPT ![t] = TRUE]
    /\ \/ /\ listed \in Allowed(t)
          /\ work' = [work EXCEPT ![t] = [@ EXCEPT
                  !.at = "account", !.confirmed = review[t].staged /\ listed = review[t].profile]]
       \/ listed \notin Allowed(t) /\ Stop(t)
    /\ UNCHANGED <<listed, local, session, head, review, reviews, events>>

\* The last look at the row before it is changed; a retry changes nothing.
Current(t) ==
    /\ work[t].at = "current"
    /\ \/ /\ local \in Allowed(t) /\ ~work[t].stale
          /\ Go(t, "current", IF ~review[t].staged THEN "stage"
                              ELSE IF work[t].confirmed THEN "confirm" ELSE "snapshot")
       \/ (local \notin Allowed(t) \/ work[t].stale) /\ Stop(t)
    /\ UNCHANGED <<listed, local, fresh, session, head, review, reviews, events>>

Stage(t) ==
    /\ work[t].at = "stage"
    /\ \/ /\ local # Absent
          /\ Go(t, "stage", "snapshot")
          /\ local' = review[t].profile
          /\ review' = [review EXCEPT ![t].staged = TRUE]
       \/ local = Absent /\ Stop(t) /\ UNCHANGED <<local, review>>
    /\ UNCHANGED <<listed, fresh, session, head, reviews, events>>

\* The row that goes out must be the reviewed one, whoever else staged meanwhile.
Snapshot(t) ==
    /\ work[t].at = "snapshot"
    /\ \/ local = review[t].profile /\ Go(t, "snapshot", "put")
       \/ local # review[t].profile /\ Stop(t)
    /\ UNCHANGED <<listed, local, fresh, session, head, review, reviews, events>>

\* The server takes the row only under its current revision; answers get lost.
Put(t) ==
    /\ work[t].at = "put"
    /\ \/ /\ fresh[t]
          /\ listed' = IF work[t].profile = Absent THEN listed ELSE work[t].profile
          /\ \/ /\ fresh' = [u \in Tabs |-> u = t]
                /\ IF work[t].op = "commit" THEN Go(t, "put", "confirm") ELSE Stop(t)
                /\ UNCHANGED <<reviews, events>>
             \/ fresh' = [u \in Tabs |-> FALSE] /\ Stop(t) /\ Event
       \/ /\ IF fresh[t] THEN Event ELSE UNCHANGED <<reviews, events>>
          /\ Stop(t)
          /\ UNCHANGED <<listed, fresh>>
    /\ UNCHANGED <<local, session, head, review>>

Confirm(t) ==
    /\ work[t].at = "confirm" /\ Stop(t)
    /\ review' = [review EXCEPT ![t] =
                     IF local = review[t].profile /\ ~work[t].stale THEN NoReview ELSE @]
    /\ UNCHANGED <<listed, local, fresh, session, head, reviews, events>>

\* A read of the server or of GitHub fails; which one makes no difference.
ReadFails(t) ==
    /\ work[t].at = "refs"
    /\ Event /\ Stop(t)
    /\ UNCHANGED <<listed, local, fresh, session, head, review>>

-----------------------------------------------------------------------------
(* What goes on besides. *)

\* Opening or renaming any workspace sends all rows.
Synchronize(t) ==
    /\ Event
    /\ Begin(t, "sync", "put", None, local)
    /\ UNCHANGED <<listed, local, fresh, session, head, review>>

\* Other panels connect, or disconnect.  The generation advances when that begins,
\* for work under way perhaps before it looked at it.
Switch(t, p) ==
    /\ Event /\ p # session[t]
    /\ session' = [session EXCEPT ![t] = p]
    /\ \/ UNCHANGED work
       \/ work[t] # Idle /\ work' = [work EXCEPT ![t].stale = TRUE]
    /\ UNCHANGED <<listed, local, fresh, head, review>>

\* The server ends a session, which the tab does not notice.
Expire(t) ==
    /\ Event /\ session[t] # None
    /\ session' = [session EXCEPT ![t] = None]
    /\ UNCHANGED <<listed, local, fresh, head, review, work>>

\* The user connects again what a pending reattachment needs.
Connect(t) ==
    /\ Pending(t) /\ work[t] = Idle
    /\ session[t] # review[t].profile
    /\ session' = [session EXCEPT ![t] = review[t].profile]
    /\ UNCHANGED <<listed, local, fresh, head, review, work, reviews, events>>

\* A reloaded tab knows no review; it reads the list and replaces the rows.
Reload(t) ==
    /\ Event
    /\ work' = [work EXCEPT ![t] = [Idle EXCEPT !.op = "start", !.at = "list"]]
    /\ review' = [review EXCEPT ![t] = NoReview]
    /\ fresh' = [fresh EXCEPT ![t] = FALSE]
    /\ UNCHANGED <<listed, local, session, head>>

ReadList(t) ==
    /\ work[t].at = "list"
    /\ work' = [work EXCEPT ![t] = [@ EXCEPT !.at = "replace", !.profile = listed]]
    /\ fresh' = [fresh EXCEPT ![t] = TRUE]
    /\ UNCHANGED <<listed, local, session, head, review, reviews, events>>

ReplaceRows(t) ==
    /\ work[t].at = "replace" /\ Stop(t)
    /\ local' = work[t].profile
    /\ UNCHANGED <<listed, fresh, session, head, review, reviews, events>>

\* Another browser reattaches or removes the workspace.
Elsewhere(p) ==
    /\ Event /\ p # listed
    /\ listed' = p
    /\ fresh' = [t \in Tabs |-> FALSE]
    /\ UNCHANGED <<local, session, head, review, work>>

Push ==
    /\ Event
    /\ head' = head + 1
    /\ UNCHANGED <<listed, local, fresh, session, review, work>>

-----------------------------------------------------------------------------
\* What a tab does by itself once it has begun.
Proceed(t) ==
    \/ ValidateAccount(t) \/ ValidateRefs(t) \/ Validated(t)
    \/ Establish(t) \/ Current(t) \/ Stage(t) \/ Snapshot(t) \/ Put(t) \/ Confirm(t)
    \/ ReadList(t) \/ ReplaceRows(t)

Observe ==
    seen' = [t \in Tabs |->
        IF work'[t].op # "commit" THEN {}
        ELSE seen[t] \cup (IF session'[t] = review[t].profile THEN {"account"} ELSE {})
                     \cup (IF listed' = review[t].profile THEN {"listed"} ELSE {})
                     \cup (IF head' = review[t].head THEN {"head"} ELSE {})]

Next ==
    /\ \/ \E t \in Tabs :
             \/ Commit(t) \/ Revalidate(t) \/ Proceed(t) \/ ReadFails(t)
             \/ Synchronize(t) \/ Expire(t) \/ Connect(t) \/ Reload(t)
             \/ \E p \in Profiles : Review(t, p)
             \/ \E p \in Profiles \cup {None} : Switch(t, p)
       \/ \E p \in Profiles \cup {Absent} : Elsewhere(p)
       \/ Push
    /\ Observe

Spec == Init /\ [][Next]_vars

\* People keep trying what is pending: they connect again, revalidate when a
\* branch has moved, and otherwise retry.
Try(t) ==
    /\ \/ Connect(t)
       \/ session[t] = review[t].profile /\ head # review[t].head /\ Revalidate(t)
       \/ session[t] = review[t].profile /\ head = review[t].head /\ Pending(t) /\ Commit(t)
    /\ Observe

FairSpec ==
    Spec /\ \A t \in Tabs : WF_vars(Proceed(t) /\ Observe) /\ SF_vars(Try(t))
-----------------------------------------------------------------------------
\* The request of a commit publishes what its user reviewed and replaces what
\* its user saw: neither what another browser put in the list in the meantime
\* nor what another tab staged in the database ("pending mirror recovery will not
\* overwrite a later server-side connection change", "concurrent local staging
\* rejects A rather than publishing B through A").
CommitReplacesOnlyReviewed ==
    [][\A t \in Tabs :
          work[t].op = "commit" /\ work[t].at = "put" /\ work'[t] # work[t] /\ listed' # listed =>
              listed = review[t].original /\ listed' = review[t].profile]_vars

\* "Connection reattached" is told only if, since the user confirmed, the tab used
\* the account, the list had the connection and the branches had the heads that
\* the user saw, whichever of its answers were lost before, and if the browser's
\* row has it (commit).
ConfirmedIsTrue ==
    [][\A t \in Tabs :
          work[t].at = "confirm" /\ review'[t] = NoReview /\ work'[t] = Idle =>
              seen[t] = {"account", "listed", "head"} /\ local = review[t].profile]_vars

\* A pending reattachment can be retried to its end, however its answers were
\* lost and the branches moved, unless others gave the workspace another
\* connection, here or in the list (commit, revalidate).
PendingEnds ==
    \A t \in Tabs :
        Pending(t) ~>
            \/ ~Pending(t)
            \/ listed \notin Allowed(t)
            \/ local # review[t].profile
=============================================================================
