--------------------------- MODULE ReattachmentProofs ---------------------------
(***************************************************************************)
(* A reattachment publishes only what was reviewed, and tells only what is *)
(* so, for any number of tabs, connections and events.  Both rest on one   *)
(* invariant about each tab by itself: what its commit has established     *)
(* remains true, or the tab will notice, whatever the others do.           *)
(***************************************************************************)
EXTENDS Reattachment, TLAPS

Ids == Profiles \cup {Former, None, Absent}

Looking   == {"account", "refs", "again"}
Finishing == {"current", "stage", "snapshot", "confirm"}

WorkType ==
    [op : {"none", "review", "commit", "revalidate", "sync", "start"},
     at : {"idle", "authority", "put", "list", "replace"} \cup Looking \cup Finishing,
     original : Ids, profile : Ids, head : Nat, stale : BOOLEAN, confirmed : BOOLEAN]

ReviewType == [original : Ids, profile : Ids, head : Nat, staged : BOOLEAN]

Types ==
    /\ listed \in Ids /\ local \in Ids
    /\ fresh \in [Tabs -> BOOLEAN]
    /\ session \in [Tabs -> Profiles \cup {None}]
    /\ head \in Nat
    /\ review \in [Tabs -> ReviewType]
    /\ work \in [Tabs -> WorkType]
    /\ seen \in [Tabs -> SUBSET {"account", "listed", "head"}]

\* Which operation is at which place, and on whose behalf.
Ordered(t) ==
    /\ work[t].op = "none" => work[t].at = "idle"
    /\ work[t].at \in Looking => work[t].op \in {"review", "commit", "revalidate"}
    /\ work[t].at \in Finishing \cup {"authority"} => work[t].op = "commit"
    /\ work[t].at = "put" => work[t].op \in {"commit", "sync"}
    /\ work[t].at \in {"list", "replace"} => work[t].op = "start"
    /\ work[t].op = "commit" => work[t].at \in Looking \cup Finishing \cup {"authority", "put"}
    /\ work[t].op \in {"review", "commit", "revalidate"} => work[t].profile \in Profiles
    /\ review[t] # NoReview => review[t].profile \in Profiles
    /\ work[t].op = "commit" =>
           review[t] # NoReview /\ work[t].profile = review[t].profile
    /\ work[t].op = "commit" /\ work[t].at \in {"snapshot", "put", "confirm"} => review[t].staged

\* A revision that is still current is one under which the list was looked at.
Known(t) ==
    work[t].op = "commit" /\ work[t].at # "authority" /\ fresh[t] => listed \in Allowed(t)

\* The account has been looked at.
Vouched(t) ==
    \/ work[t].at \in {"refs", "again"} \cup Finishing
    \/ work[t].op = "commit" /\ work[t].at = "put"

\* What a commit has found to be so is in its history.
Seen(t) ==
    work[t].op = "commit" =>
        /\ Vouched(t) => "account" \in seen[t]
        /\ work[t].at = "again" /\ work[t].head = review[t].head => "head" \in seen[t]
        /\ work[t].at \in Finishing \cup {"put"} => "head" \in seen[t]
        /\ work[t].confirmed \/ work[t].at = "confirm" => "listed" \in seen[t]

TabInv(t) == Ordered(t) /\ Known(t) /\ Seen(t)

IInv == Types /\ \A t \in Tabs : TabInv(t)

-----------------------------------------------------------------------------
LEMMA InitInv == Init => IInv
  <1> SUFFICES ASSUME Init PROVE IInv
      OBVIOUS
  <1>1. Types
      BY DEF Init, Types, Ids, WorkType, ReviewType, Idle, NoReview
  <1>2. ASSUME NEW t \in Tabs PROVE TabInv(t)
      BY DEF Init, TabInv, Ordered, Known, Seen, Vouched, Idle, NoReview, Looking, Finishing
  <1> QED
      BY <1>1, <1>2 DEF IInv

\* What Observe adds to the history of a commit.
LEMMA History ==
    ASSUME Types, Observe, NEW t \in Tabs, work'[t].op = "commit"
    PROVE  /\ seen[t] \subseteq seen'[t]
           /\ session'[t] = review[t].profile => "account" \in seen'[t]
           /\ listed' = review[t].profile => "listed" \in seen'[t]
           /\ head' = review[t].head => "head" \in seen'[t]
  BY DEF Observe, Types

LEMMA HistoryType ==
    ASSUME Types, Observe
    PROVE  seen' \in [Tabs -> SUBSET {"account", "listed", "head"}]
  BY DEF Observe, Types

\* What happens elsewhere leaves a tab's invariant alone: a change of the list
\* makes the tab's revision an old one.
LEMMA Untouched ==
    ASSUME IInv, Observe, NEW t \in Tabs,
           work'[t] = work[t], review'[t] = review[t], session'[t] = session[t],
           \/ listed' = listed /\ fresh'[t] = fresh[t]
           \/ fresh'[t] = FALSE
    PROVE  TabInv(t)'
  <1>1. TabInv(t) /\ Types
      BY DEF IInv
  <1>2. Ordered(t)'
      BY <1>1 DEF TabInv, Ordered, Idle, NoReview
  <1>3. Known(t)'
    <2>1. CASE listed' = listed /\ fresh'[t] = fresh[t]
        BY <1>1, <2>1 DEF TabInv, Known, Allowed
    <2>2. CASE fresh'[t] = FALSE
        BY <2>2, Zenon DEF Known
    <2> QED
        BY <2>1, <2>2
  <1>4. Seen(t)'
      BY <1>1, History DEF TabInv, Seen, Vouched
  <1> QED
      BY <1>2, <1>3, <1>4 DEF TabInv

\* The parts of a step of tab t.
LEMMA Assemble ==
    ASSUME IInv, Observe, NEW t \in Tabs, Types', TabInv(t)',
           \A u \in Tabs \ {t} :
               /\ work'[u] = work[u] /\ review'[u] = review[u] /\ session'[u] = session[u]
               /\ (listed' = listed /\ fresh'[u] = fresh[u]) \/ fresh'[u] = FALSE
    PROVE  IInv'
  <1>1. ASSUME NEW u \in Tabs, u # t PROVE TabInv(u)'
      BY <1>1, Untouched
  <1> QED
      BY <1>1 DEF IInv

\* A tab that does nothing.
LEMMA AtRest ==
    ASSUME NEW t \in Tabs, work'[t] = Idle,
           review'[t] # NoReview => review'[t].profile \in Profiles
    PROVE  TabInv(t)'
  BY DEF TabInv, Ordered, Known, Seen, Vouched, Idle, Looking, Finishing

-----------------------------------------------------------------------------
(* What the user starts. *)

LEMMA ReviewInv ==
    ASSUME IInv, Observe, NEW t \in Tabs, NEW p \in Profiles, Review(t, p) PROVE IInv'
  <1>1. Types /\ TabInv(t)
      BY DEF IInv
  <1>2. Types'
      BY <1>1, HistoryType DEF Types, Review, Begin, Idle, NoReview, WorkType, ReviewType,
         Looking, Ids
  <1>3. TabInv(t)'
      BY <1>1, Outside DEF Types, Review, Begin, Idle, NoReview, Looking, Finishing, TabInv,
         Ordered, Known, Seen, Vouched
  <1> QED
      BY <1>1, <1>2, <1>3, Assemble DEF Types, Review, Begin

LEMMA CommitInv ==
    ASSUME IInv, Observe, NEW t \in Tabs, Commit(t) PROVE IInv'
  <1>1. Types /\ TabInv(t)
      BY DEF IInv
  <1>2. Types'
      BY <1>1, HistoryType DEF Types, Commit, Begin, Idle, WorkType, ReviewType, Ids
  <1>3. TabInv(t)'
      BY <1>1 DEF Types, Commit, Begin, Idle, Looking, Finishing, TabInv,
         Ordered, Known, Seen, Vouched
  <1> QED
      BY <1>1, <1>2, <1>3, Assemble DEF Types, Commit, Begin

LEMMA RevalidateInv ==
    ASSUME IInv, Observe, NEW t \in Tabs, Revalidate(t) PROVE IInv'
  <1>1. Types /\ TabInv(t)
      BY DEF IInv
  <1>2. Types'
      BY <1>1, HistoryType DEF Types, Revalidate, Begin, Idle, WorkType, ReviewType, Looking, Ids
  <1>3. TabInv(t)'
      BY <1>1 DEF Types, Revalidate, Pending, NoReview, Begin, Idle, Looking, Finishing, TabInv,
         Ordered, Known, Seen, Vouched
  <1> QED
      BY <1>1, <1>2, <1>3, Assemble DEF Types, Revalidate, Begin

LEMMA Stopped ==
    ASSUME IInv, Observe, NEW t \in Tabs, Stop(t), UNCHANGED <<listed, session, head, review>>,
           local' \in Ids, fresh' \in [Tabs -> BOOLEAN],
           \A u \in Tabs \ {t} : fresh'[u] = fresh[u]
    PROVE  IInv'
  <1>1. Types /\ TabInv(t)
      BY DEF IInv
  <1>2. Types'
      BY <1>1, HistoryType DEF Types, Stop, Idle, WorkType, Ids
  <1>3. TabInv(t)'
      BY <1>1, AtRest DEF Types, Stop, TabInv, Ordered
  <1> QED
      BY <1>1, <1>2, <1>3, Assemble DEF Types, Stop

-----------------------------------------------------------------------------
(* Validation. *)

LEMMA ValidateAccountInv ==
    ASSUME IInv, Observe, NEW t \in Tabs, ValidateAccount(t) PROVE IInv'
  <1>1. Types /\ TabInv(t) /\ work[t] \in WorkType
      BY DEF IInv, Types
  <1>2. CASE Stop(t)
      BY <1>1, <1>2, Stopped DEF Types, ValidateAccount
  <1>3. CASE ~Stop(t)
    <2> DEFINE w == [work[t] EXCEPT !.at = "refs", !.stale = FALSE]
    <2>1. session[t] = work[t].profile /\ work' = [work EXCEPT ![t] = w]
        BY <1>3 DEF ValidateAccount
    <2>2. w \in WorkType /\ w.op = work[t].op /\ w.at = "refs" /\ w.profile = work[t].profile
          /\ w.confirmed = work[t].confirmed
        BY <1>1 DEF WorkType, Looking
    <2> HIDE DEF w
    <2>3. Types' /\ work'[t] = w
        BY <1>1, <2>1, <2>2, HistoryType DEF Types, ValidateAccount
    <2>4. Ordered(t)'
        BY <1>1, <2>1, <2>2, <2>3 DEF Types, ValidateAccount, Looking, Finishing, TabInv,
           Ordered, Vouched, Idle
    <2>5. Known(t)'
        BY <1>1, <2>2, <2>3 DEF Types, ValidateAccount, TabInv, Known, Allowed
    <2>6. Seen(t)'
        BY <1>1, <2>1, <2>2, <2>3, History DEF Types, ValidateAccount, Finishing, TabInv, Ordered,
           Seen, Vouched
    <2>7. TabInv(t)'
        BY <2>4, <2>5, <2>6 DEF TabInv
    <2> QED
        BY <1>1, <2>1, <2>3, <2>7, Assemble DEF Types, ValidateAccount
  <1> QED
      BY <1>2, <1>3
LEMMA ValidateRefsInv ==
    ASSUME IInv, Observe, NEW t \in Tabs, ValidateRefs(t) PROVE IInv'
  <1>1. Types /\ TabInv(t) /\ work[t] \in WorkType
      BY DEF IInv, Types
  <1> DEFINE w == [work[t] EXCEPT !.at = "again", !.head = head]
  <1>2. w \in WorkType /\ w.op = work[t].op /\ w.at = "again" /\ w.profile = work[t].profile
        /\ w.confirmed = work[t].confirmed /\ w.stale = work[t].stale /\ w.head = head
      BY <1>1 DEF WorkType, Looking, Types
  <1>3. work' = [work EXCEPT ![t] = w]
      BY DEF ValidateRefs
  <1> HIDE DEF w
  <1>4. Types' /\ work'[t] = w
      BY <1>1, <1>2, <1>3, HistoryType DEF Types, ValidateRefs
  <1>5. Ordered(t)'
      BY <1>1, <1>2, <1>4 DEF Types, ValidateRefs, Looking, Finishing, TabInv,
         Ordered, Vouched, Idle
  <1>6. Known(t)'
      BY <1>1, <1>2, <1>4 DEF Types, ValidateRefs, TabInv, Known, Allowed
  <1>7. Seen(t)'
      BY <1>1, <1>2, <1>4, History DEF Types, ValidateRefs, Finishing, TabInv, Seen, Vouched
  <1>8. TabInv(t)'
      BY <1>5, <1>6, <1>7 DEF TabInv
  <1> QED
      BY <1>1, <1>3, <1>4, <1>8, Assemble DEF Types, ValidateRefs

\* A commit that goes on to the next place, having looked at something.
LEMMA Going ==
    ASSUME IInv, Observe, NEW t \in Tabs, NEW there \in Finishing \cup {"put"},
           work[t].op = "commit", work[t].at # "authority", Vouched(t),
           work' = [work EXCEPT ![t].at = there],
           UNCHANGED <<listed, local, fresh, session, head, review>>,
           "head" \in seen[t],
           there \in {"snapshot", "put", "confirm"} => review[t].staged,
           there = "confirm" => work[t].confirmed
    PROVE  IInv'
  <1>1. Types /\ TabInv(t) /\ work[t] \in WorkType
      BY DEF IInv, Types
  <1> DEFINE w == [work[t] EXCEPT !.at = there]
  <1>2. w \in WorkType /\ w.op = work[t].op /\ w.at = there /\ w.profile = work[t].profile
        /\ w.confirmed = work[t].confirmed /\ w.stale = work[t].stale
      BY <1>1 DEF WorkType, Finishing
  <1>3. work' = [work EXCEPT ![t] = w]
      OBVIOUS
  <1> HIDE DEF w
  <1>4. Types' /\ work'[t] = w
      BY <1>1, <1>2, <1>3, HistoryType DEF Types
  <1>5. Ordered(t)'
      BY <1>1, <1>2, <1>4 DEF Types, Looking, Finishing, TabInv, Ordered
  <1>6. Known(t)'
      BY <1>1, <1>2, <1>4 DEF Types, TabInv, Known, Allowed
  <1>7. Seen(t)'
      BY <1>1, <1>2, <1>4, History DEF Types, Finishing, TabInv, Seen, Vouched
  <1>8. TabInv(t)'
      BY <1>5, <1>6, <1>7 DEF TabInv
  <1> QED
      BY <1>1, <1>3, <1>4, <1>8, Assemble DEF Types

LEMMA ValidatedInv ==
    ASSUME IInv, Observe, NEW t \in Tabs, Validated(t) PROVE IInv'
  <1>1. Types /\ TabInv(t) /\ work[t] \in WorkType
      BY DEF IInv, Types
  <1>2. CASE Stop(t) /\ UNCHANGED review
      BY <1>1, <1>2, Stopped DEF Types, Validated
  <1>3. CASE Valid(t) /\ work[t].op = "commit" /\ Go(t, "again", "current") /\ UNCHANGED review
    <2>1. "head" \in seen[t]
        BY <1>1, <1>3 DEF Valid, Go, TabInv, Seen, Vouched
    <2>2. work[t].at = "again" /\ Vouched(t)
        BY <1>3 DEF Go, Vouched
    <2>3. work' = [work EXCEPT ![t].at = "current"]
        BY <1>3 DEF Go
    <2>4. UNCHANGED <<listed, local, fresh, session, head, review>>
        BY <1>3 DEF Validated
    <2>5. "current" \in Finishing \cup {"put"}
        BY DEF Finishing
    <2> QED
        BY <1>3, <2>1, <2>2, <2>3, <2>4, <2>5, Going
  <1>4. CASE /\ work[t].op # "commit"
             /\ Stop(t)
             /\ review' = [review EXCEPT ![t] =
                    [original |-> work[t].original, profile |-> work[t].profile,
                     head |-> work[t].head, staged |-> Pending(t)]]
    <2>1. review'[t] \in ReviewType /\ review'[t].profile \in Profiles
        BY <1>1, <1>4 DEF Types, ReviewType, WorkType, Pending, TabInv, Ordered, Validated,
           Looking, Finishing
    <2>2. Types'
        BY <1>1, <1>4, <2>1, HistoryType DEF Types, Validated, Stop, Idle, WorkType, Ids
    <2>3. TabInv(t)'
        BY <1>1, <1>4, <2>1, AtRest DEF Types, Stop
    <2> QED
        BY <1>1, <1>4, <2>2, <2>3, Assemble DEF Types, Validated, Stop
  <1> QED
      BY <1>2, <1>3, <1>4 DEF Validated

-----------------------------------------------------------------------------
(* The commit. *)

LEMMA EstablishInv ==
    ASSUME IInv, Observe, NEW t \in Tabs, Establish(t) PROVE IInv'
  <1>1. Types /\ TabInv(t) /\ work[t] \in WorkType
      BY DEF IInv, Types
  <1>2. CASE Stop(t)
      BY <1>1, <1>2, Stopped DEF Types, Establish
  <1>3. CASE ~Stop(t)
    <2> DEFINE found == review[t].staged /\ listed = review[t].profile
               w == [work[t] EXCEPT !.at = "account", !.confirmed = found]
    <2>1. listed \in Allowed(t) /\ work' = [work EXCEPT ![t] = w]
        BY <1>3 DEF Establish
    <2>2. found \in BOOLEAN
        BY <1>1 DEF Types, ReviewType
    <2>3. w \in WorkType /\ w.op = work[t].op /\ w.at = "account" /\ w.profile = work[t].profile
          /\ w.confirmed = found
        BY <1>1, <2>2 DEF WorkType, Looking
    <2>4. found => listed = review[t].profile
        OBVIOUS
    <2> HIDE DEF w, found
    <2>5. Types' /\ work'[t] = w
        BY <1>1, <2>1, <2>3, HistoryType DEF Types, Establish
    <2>6. w.op = "commit"
        BY <1>1, <2>3 DEF Establish, TabInv, Ordered
    <2>7. Ordered(t)'
        BY <1>1, <2>3, <2>5, <2>6 DEF Types, Establish, Looking, Finishing, TabInv,
           Ordered, Vouched, Idle
    <2>8. Known(t)'
        BY <2>1 DEF Establish, Known, Allowed
    <2>9. Seen(t)'
        BY <1>1, <2>3, <2>4, <2>5, <2>6, History DEF Types, Establish, Finishing, TabInv,
           Seen, Vouched
    <2>10. TabInv(t)'
        BY <2>7, <2>8, <2>9 DEF TabInv
    <2> QED
        BY <1>1, <2>1, <2>5, <2>10, Assemble DEF Types, Establish
  <1> QED
      BY <1>2, <1>3

LEMMA CurrentInv ==
    ASSUME IInv, Observe, NEW t \in Tabs, Current(t) PROVE IInv'
  <1>1. Types /\ TabInv(t)
      BY DEF IInv
  <1>2. CASE Stop(t)
      BY <1>1, <1>2, Stopped DEF Types, Current
  <1>3. CASE ~Stop(t)
    <2> DEFINE there == IF ~review[t].staged THEN "stage"
                        ELSE IF work[t].confirmed THEN "confirm" ELSE "snapshot"
    <2>1. work[t].at = "current" /\ work' = [work EXCEPT ![t].at = there]
        BY <1>3 DEF Current, Go
    <2>2. /\ there \in Finishing \cup {"put"}
          /\ there \in {"snapshot", "put", "confirm"} => review[t].staged
          /\ there = "confirm" => work[t].confirmed
        BY DEF Finishing
    <2> HIDE DEF there
    <2>3. work[t].op = "commit" /\ Vouched(t) /\ "head" \in seen[t]
        BY <1>1, <2>1 DEF TabInv, Ordered, Vouched, Seen, Finishing
    <2>4. UNCHANGED <<listed, local, fresh, session, head, review>>
        BY DEF Current
    <2> QED
        BY <2>1, <2>2, <2>3, <2>4, Going
  <1> QED
      BY <1>2, <1>3

LEMMA SnapshotInv ==
    ASSUME IInv, Observe, NEW t \in Tabs, Snapshot(t) PROVE IInv'
  <1>1. Types /\ TabInv(t)
      BY DEF IInv
  <1>2. CASE Stop(t)
      BY <1>1, <1>2, Stopped DEF Types, Snapshot
  <1>3. CASE ~Stop(t)
    <2>1. work[t].at = "snapshot" /\ work' = [work EXCEPT ![t].at = "put"]
        BY <1>3 DEF Snapshot, Go
    <2>2. work[t].op = "commit" /\ Vouched(t) /\ "head" \in seen[t] /\ review[t].staged
        BY <1>1, <2>1 DEF TabInv, Ordered, Vouched, Seen, Finishing
    <2>3. UNCHANGED <<listed, local, fresh, session, head, review>>
        BY DEF Snapshot
    <2> QED
        BY <2>1, <2>2, <2>3, Going
  <1> QED
      BY <1>2, <1>3

LEMMA StageInv ==
    ASSUME IInv, Observe, NEW t \in Tabs, Stage(t) PROVE IInv'
  <1>1. Types /\ TabInv(t) /\ work[t] \in WorkType /\ review[t] \in ReviewType
      BY DEF IInv, Types
  <1>2. CASE Stop(t) /\ UNCHANGED <<local, review>>
      BY <1>1, <1>2, Stopped DEF Types, Stage
  <1>3. CASE ~(Stop(t) /\ UNCHANGED <<local, review>>)
    <2> DEFINE w == [work[t] EXCEPT !.at = "snapshot"]
               r == [review[t] EXCEPT !.staged = TRUE]
    <2>1. /\ work[t].at = "stage" /\ work' = [work EXCEPT ![t] = w]
          /\ review' = [review EXCEPT ![t] = r] /\ local' = review[t].profile
        BY <1>3 DEF Stage, Go
    <2>2. w \in WorkType /\ w.op = work[t].op /\ w.at = "snapshot" /\ w.profile = work[t].profile
          /\ w.confirmed = work[t].confirmed /\ w.stale = work[t].stale
        BY <1>1 DEF WorkType, Finishing
    <2>3. r \in ReviewType /\ r.original = review[t].original /\ r.profile = review[t].profile
          /\ r.head = review[t].head /\ r.staged
        BY <1>1 DEF ReviewType
    <2> HIDE DEF w, r
    <2>4. Types' /\ work'[t] = w /\ review'[t] = r
        BY <1>1, <2>1, <2>2, <2>3, HistoryType DEF Types, Stage, ReviewType
    <2>5. work[t].op = "commit" /\ r # NoReview
        BY <1>1, <2>1, <2>3 DEF TabInv, Ordered, Finishing, NoReview
    <2>6. Ordered(t)'
        BY <1>1, <2>2, <2>3, <2>4, <2>5 DEF Looking, Finishing, TabInv, Ordered, Idle
      <2>7. Known(t)'
        BY <1>1, <2>1, <2>2, <2>3, <2>4, <2>5 DEF Stage, TabInv, Known, Allowed
    <2>8. Seen(t)'
        BY <1>1, <2>1, <2>2, <2>3, <2>4, <2>5, History DEF Finishing, TabInv, Seen, Vouched
    <2>9. TabInv(t)'
        BY <2>6, <2>7, <2>8 DEF TabInv
    <2> QED
        BY <1>1, <2>1, <2>4, <2>9, Assemble DEF Types, Stage
  <1> QED
      BY <1>2, <1>3

LEMMA PutInv ==
    ASSUME IInv, Observe, NEW t \in Tabs, Put(t) PROVE IInv'
  <1>1. Types /\ TabInv(t) /\ work[t] \in WorkType
      BY DEF IInv, Types
  <1>2. CASE Stop(t) /\ UNCHANGED <<listed, fresh>>
      BY <1>1, <1>2, Stopped DEF Types, Put
  <1> DEFINE published == IF work[t].profile = Absent THEN listed ELSE work[t].profile
  <1>3. published \in Ids
      BY <1>1 DEF Types, WorkType
  <1>4. CASE /\ Stop(t) /\ listed' = published
             /\ fresh' = [u \in Tabs |-> u = t] \/ fresh' = [u \in Tabs |-> FALSE]
    <2> HIDE DEF published
    <2>1. Types'
        BY <1>1, <1>3, <1>4, HistoryType DEF Types, Put, Stop, Idle, WorkType, Ids
    <2>2. TabInv(t)'
        BY <1>1, <1>4, AtRest DEF Types, Put, Stop, TabInv, Ordered
    <2> QED
        BY <1>1, <1>4, <2>1, <2>2, Assemble DEF Types, Put, Stop
  <1>5. CASE /\ work[t].op = "commit" /\ Go(t, "put", "confirm") /\ listed' = published
             /\ fresh' = [u \in Tabs |-> u = t]
    <2> DEFINE w == [work[t] EXCEPT !.at = "confirm"]
    <2>1. work' = [work EXCEPT ![t] = w] /\ work[t].at = "put"
        BY <1>5 DEF Go
    <2>2. w \in WorkType /\ w.op = "commit" /\ w.at = "confirm" /\ w.profile = work[t].profile
          /\ w.confirmed = work[t].confirmed /\ w.stale = work[t].stale
        BY <1>1, <1>5 DEF WorkType, Finishing
    <2>3. listed' = review[t].profile /\ review[t].staged
        BY <1>1, <1>5, <2>1, Outside DEF TabInv, Ordered
    <2> HIDE DEF w, published
    <2>4. Types' /\ work'[t] = w
        BY <1>1, <1>3, <1>5, <2>1, <2>2, HistoryType DEF Types, Put
    <2>5. Ordered(t)'
        BY <1>1, <1>5, <2>1, <2>2, <2>3, <2>4 DEF Put, Looking, Finishing, TabInv, Ordered
    <2>6. Known(t)'
        BY <2>3 DEF Put, Known, Allowed
    <2>7. Seen(t)'
        BY <1>1, <1>5, <2>1, <2>2, <2>3, <2>4, History DEF Put, Finishing, TabInv, Seen, Vouched
    <2>8. TabInv(t)'
        BY <2>5, <2>6, <2>7 DEF TabInv
    <2> QED
        BY <1>1, <1>5, <2>1, <2>4, <2>8, Assemble DEF Types, Put
  <1> QED
      BY <1>2, <1>4, <1>5 DEF Put

LEMMA ConfirmInv ==
    ASSUME IInv, Observe, NEW t \in Tabs, Confirm(t) PROVE IInv'
  <1>1. Types /\ TabInv(t) /\ review[t] \in ReviewType
      BY DEF IInv, Types
  <1>2. /\ review'[t] \in {review[t], NoReview} /\ review' \in [Tabs -> ReviewType]
        /\ \A u \in Tabs \ {t} : review'[u] = review[u]
      BY <1>1 DEF Confirm, Types, NoReview, ReviewType, Ids
  <1>3. Types'
      BY <1>1, <1>2, HistoryType DEF Types, Confirm, Stop, Idle, WorkType, Ids
  <1>4. TabInv(t)'
      BY <1>1, <1>2, AtRest DEF Types, Confirm, Stop, TabInv, Ordered
  <1> QED
      BY <1>1, <1>2, <1>3, <1>4, Assemble DEF Types, Confirm, Stop

-----------------------------------------------------------------------------
(* What goes on besides. *)

LEMMA ReadFailsInv ==
    ASSUME IInv, Observe, NEW t \in Tabs, ReadFails(t) PROVE IInv'
  BY Stopped DEF IInv, Types, ReadFails

LEMMA SynchronizeInv ==
    ASSUME IInv, Observe, NEW t \in Tabs, Synchronize(t) PROVE IInv'
  <1>1. Types /\ TabInv(t)
      BY DEF IInv
  <1>2. Types'
      BY <1>1, HistoryType DEF Types, Synchronize, Begin, Idle, WorkType, Ids
  <1>3. TabInv(t)'
      BY <1>1 DEF Types, Synchronize, Begin, Idle, Looking, Finishing, TabInv, Ordered, Known,
         Seen, Vouched
  <1> QED
      BY <1>1, <1>2, <1>3, Assemble DEF Types, Synchronize, Begin

LEMMA SwitchInv ==
    ASSUME IInv, Observe, NEW t \in Tabs, NEW p \in Profiles \cup {None}, Switch(t, p)
    PROVE  IInv'
  <1>1. Types /\ TabInv(t) /\ work[t] \in WorkType
      BY DEF IInv, Types
  <1>2. PICK w \in {work[t], [work[t] EXCEPT !.stale = TRUE]} : work' = [work EXCEPT ![t] = w]
    <2>1. CASE UNCHANGED work
        BY <1>1, <2>1 DEF Types
    <2>2. CASE work' = [work EXCEPT ![t].stale = TRUE]
        BY <2>2
    <2> QED
        BY <2>1, <2>2 DEF Switch
  <1>3. /\ w \in WorkType /\ w.op = work[t].op /\ w.at = work[t].at /\ w.profile = work[t].profile
        /\ w.confirmed = work[t].confirmed /\ w.head = work[t].head
      BY <1>1 DEF WorkType
  <1>4. Types' /\ work'[t] = w
      BY <1>1, <1>2, <1>3, HistoryType DEF Types, Switch
  <1>5. Ordered(t)'
      BY <1>1, <1>3, <1>4 DEF Switch, TabInv, Ordered
  <1>6. Known(t)'
      BY <1>1, <1>3, <1>4 DEF Switch, TabInv, Known, Allowed
  <1>7. Seen(t)'
      BY <1>1, <1>3, <1>4, History DEF Switch, TabInv, Seen, Vouched
  <1>8. TabInv(t)'
      BY <1>5, <1>6, <1>7 DEF TabInv
  <1> QED
      BY <1>1, <1>2, <1>4, <1>8, Assemble DEF Types, Switch

LEMMA ExpireInv ==
    ASSUME IInv, Observe, NEW t \in Tabs, Expire(t) PROVE IInv'
  <1>1. Types /\ TabInv(t)
      BY DEF IInv
  <1>2. Types' /\ session'[t] = None
      BY <1>1, HistoryType DEF Types, Expire
  <1>3. Ordered(t)'
      BY <1>1, <1>2 DEF Expire, TabInv, Ordered
  <1>4. Known(t)'
      BY <1>1 DEF Expire, TabInv, Known, Allowed
  <1>5. Seen(t)'
      BY <1>1, History DEF Expire, TabInv, Seen, Vouched
  <1>6. TabInv(t)'
      BY <1>3, <1>4, <1>5 DEF TabInv
  <1> QED
      BY <1>1, <1>2, <1>6, Assemble DEF Types, Expire

LEMMA ConnectInv ==
    ASSUME IInv, Observe, NEW t \in Tabs, Connect(t) PROVE IInv'
  <1>1. Types /\ TabInv(t)
      BY DEF IInv
  <1>2. review[t].profile \in Profiles
      BY <1>1 DEF Connect, Pending, NoReview, TabInv, Ordered
  <1>3. Types'
      BY <1>1, <1>2, HistoryType DEF Types, Connect
  <1>4. TabInv(t)'
      BY <1>1, <1>2, AtRest DEF Connect
  <1> QED
      BY <1>1, <1>3, <1>4, Assemble DEF Types, Connect

LEMMA ReloadInv ==
    ASSUME IInv, Observe, NEW t \in Tabs, Reload(t) PROVE IInv'
  <1>1. Types
      BY DEF IInv
  <1>2. Types'
      BY <1>1, HistoryType DEF Types, Reload, Idle, NoReview, WorkType, ReviewType, Ids
  <1>3. TabInv(t)'
      BY <1>1 DEF Types, Reload, Idle, NoReview, Looking, Finishing, TabInv, Ordered, Known,
         Seen, Vouched
  <1> QED
      BY <1>1, <1>2, <1>3, Assemble DEF Types, Reload

LEMMA ReadListInv ==
    ASSUME IInv, Observe, NEW t \in Tabs, ReadList(t) PROVE IInv'
  <1>1. Types /\ TabInv(t) /\ work[t] \in WorkType
      BY DEF IInv, Types
  <1> DEFINE w == [work[t] EXCEPT !.at = "replace", !.profile = listed]
  <1>2. w \in WorkType /\ w.op = work[t].op /\ w.at = "replace"
      BY <1>1 DEF WorkType, Types
  <1>3. work' = [work EXCEPT ![t] = w]
      BY DEF ReadList
  <1> HIDE DEF w
  <1>4. Types' /\ work'[t] = w
      BY <1>1, <1>2, <1>3, HistoryType DEF Types, ReadList
  <1>5. w.op \notin {"none", "review", "revalidate", "commit"}
      BY <1>1, <1>2 DEF ReadList, TabInv, Ordered, Idle, Looking, Finishing
  <1>6. TabInv(t)'
      BY <1>1, <1>2, <1>4, <1>5 DEF ReadList, Looking, Finishing, TabInv, Ordered, Known,
         Seen, Vouched
  <1> QED
      BY <1>1, <1>3, <1>4, <1>6, Assemble DEF Types, ReadList

LEMMA ReplaceRowsInv ==
    ASSUME IInv, Observe, NEW t \in Tabs, ReplaceRows(t) PROVE IInv'
  BY Stopped DEF IInv, Types, WorkType, ReplaceRows

\* Steps of nobody's tab.
LEMMA OthersInv ==
    ASSUME IInv, Observe, UNCHANGED <<local, session, review, work>>,
           listed' \in Ids, head' \in Nat,
           (listed' = listed /\ fresh' = fresh) \/ fresh' = [t \in Tabs |-> FALSE]
    PROVE  IInv'
  <1>1. Types'
      BY HistoryType DEF IInv, Types
  <1>2. ASSUME NEW t \in Tabs PROVE TabInv(t)'
      BY Untouched DEF IInv, Types
  <1> QED
      BY <1>1, <1>2 DEF IInv

LEMMA NextInv == IInv /\ [Next]_vars => IInv'
  <1> SUFFICES ASSUME IInv, [Next]_vars PROVE IInv'
      OBVIOUS
  <1>1. CASE UNCHANGED vars
    <2>1. Types'
        BY <1>1 DEF vars, IInv, Types
    <2>2. ASSUME NEW t \in Tabs PROVE TabInv(t)'
        BY <1>1 DEF vars, IInv, TabInv, Ordered, Known, Allowed, Vouched, Seen
    <2> QED
        BY <2>1, <2>2 DEF IInv
  <1>2. CASE Next
    <2>1. Observe
        BY <1>2 DEF Next
    <2>2. ASSUME NEW t \in Tabs,
                 \/ Commit(t) \/ Revalidate(t) \/ ReadFails(t) \/ Synchronize(t)
                 \/ Expire(t) \/ Connect(t) \/ Reload(t)
          PROVE  IInv'
        BY <2>1, <2>2, CommitInv, RevalidateInv, ReadFailsInv, SynchronizeInv, ExpireInv,
           ConnectInv, ReloadInv
    <2>3. ASSUME NEW t \in Tabs, Proceed(t) PROVE IInv'
        BY <2>1, <2>3, ValidateAccountInv, ValidateRefsInv, ValidatedInv, EstablishInv,
           CurrentInv, StageInv, SnapshotInv, PutInv, ConfirmInv, ReadListInv, ReplaceRowsInv
           DEF Proceed
    <2>4. ASSUME NEW t \in Tabs, NEW p \in Profiles, Review(t, p) PROVE IInv'
        BY <2>1, <2>4, ReviewInv
    <2>5. ASSUME NEW t \in Tabs, NEW p \in Profiles \cup {None}, Switch(t, p) PROVE IInv'
        BY <2>1, <2>5, SwitchInv
    <2>6. ASSUME NEW p \in Profiles \cup {Absent}, Elsewhere(p) PROVE IInv'
        BY <2>1, <2>6, OthersInv DEF Elsewhere, IInv, Types, Ids
    <2>7. CASE Push
        BY <2>1, <2>7, OthersInv DEF Push, IInv, Types
    <2> QED
        BY <1>2, <2>2, <2>3, <2>4, <2>5, <2>6, <2>7 DEF Next
  <1> QED
      BY <1>1, <1>2

-----------------------------------------------------------------------------
\* The request of a commit publishes what was reviewed and replaces what was
\* seen, for any number of tabs and whatever happens in between (commit).
THEOREM OnlyReviewedIsReplaced == Spec => CommitReplacesOnlyReviewed
  <1> DEFINE Good ==
        \A t \in Tabs :
          work[t].op = "commit" /\ work[t].at = "put" /\ work'[t] # work[t] /\ listed' # listed =>
              listed = review[t].original /\ listed' = review[t].profile
  <1>1. ASSUME IInv, [Next]_vars PROVE [Good]_vars
    <2> SUFFICES ASSUME NEW t \in Tabs, Next, work[t].op = "commit", work[t].at = "put",
                        work'[t] # work[t], listed' # listed
                 PROVE  listed = review[t].original /\ listed' = review[t].profile
        BY <1>1 DEF vars
    <2>1. TabInv(t) /\ Types
        BY <1>1 DEF IInv
    <2>2. Put(t)
      <3>1. (\E u \in Tabs : Put(u)) \/ (\E p \in Profiles \cup {Absent} : Elsewhere(p))
          BY DEF Next, Proceed, Commit, Revalidate, ReadFails, Synchronize, Expire, Connect,
             Reload, Review, Switch, Push, ValidateAccount, ValidateRefs, Validated,
             Establish, Current, Stage, Snapshot, Confirm, ReadList, ReplaceRows
      <3>2. PICK u \in Tabs : Put(u)
          BY <3>1 DEF Elsewhere
      <3>3. u # t => work'[t] = work[t]
          BY <2>1, <3>2 DEF Types, Put, Stop, Go
      <3> QED
          BY <3>2, <3>3
    <2>3. fresh[t] /\ listed' = work[t].profile
        BY <2>2 DEF Put
    <2>4. listed \in {review[t].original, review[t].profile}
        BY <2>1, <2>3 DEF TabInv, Known, Allowed
    <2> QED
        BY <2>1, <2>3, <2>4 DEF TabInv, Ordered
  <1> QED
      BY <1>1, InitInv, NextInv, PTL DEF Spec, CommitReplacesOnlyReviewed, Good

\* A tab comes to rest after its last look only by Confirm.
LEMMA OnlyConfirm ==
    ASSUME Types, Next, NEW t \in Tabs, work[t].at = "confirm", work'[t] = Idle
    PROVE  Confirm(t)
  <1>1. work'[t] # work[t] /\ work[t] # Idle
      BY DEF Idle
  <1>2. ASSUME NEW u \in Tabs,
               \/ Commit(u) \/ Revalidate(u) \/ Synchronize(u)
               \/ \E p \in Profiles : Review(u, p)
        PROVE  FALSE
      BY <1>1, <1>2 DEF Commit, Revalidate, Synchronize, Review, Begin, Types
  <1>3. ASSUME NEW u \in Tabs, Expire(u) \/ Connect(u) PROVE FALSE
      BY <1>1, <1>3 DEF Expire, Connect
  <1>4. ASSUME NEW u \in Tabs, Reload(u) PROVE FALSE
      BY <1>1, <1>4 DEF Reload, Idle, Types
  <1>5. ASSUME NEW u \in Tabs, NEW p \in Profiles \cup {None}, Switch(u, p) PROVE FALSE
    <2>1. u = t
        BY <1>1, <1>5 DEF Switch, Types
    <2>2. work'[t].at = "confirm"
        BY <1>5, <2>1 DEF Switch, Types, WorkType
    <2> QED
        BY <2>2 DEF Idle
  <1>6. ASSUME NEW u \in Tabs, u # t, Proceed(u) \/ ReadFails(u) PROVE FALSE
      BY <1>1, <1>6 DEF Proceed, ReadFails, ValidateAccount, ValidateRefs, Validated, Establish,
         Current, Stage, Snapshot, Put, Confirm, ReadList, ReplaceRows, Stop, Go, Types
  <1>7. ASSUME Proceed(t) \/ ReadFails(t) PROVE Confirm(t)
      BY <1>7 DEF Proceed, ReadFails, ValidateAccount, ValidateRefs, Validated, Establish,
         Current, Stage, Snapshot, Put, ReadList, ReplaceRows, Go
  <1>8. ASSUME Push \/ \E p \in Profiles \cup {Absent} : Elsewhere(p) PROVE FALSE
      BY <1>1, <1>8 DEF Push, Elsewhere
  <1> QED
      BY <1>2, <1>3, <1>4, <1>5, <1>6, <1>7, <1>8 DEF Next

\* "Connection reattached" is told only of what the list and the branches had
\* since the user confirmed it, under the account the user saw (commit).
THEOREM ToldIsTrue == Spec => ConfirmedIsTrue
  <1> DEFINE Good ==
        \A t \in Tabs :
          work[t].at = "confirm" /\ review'[t] = NoReview /\ work'[t] = Idle =>
              seen[t] = {"account", "listed", "head"} /\ local = review[t].profile
  <1>1. ASSUME IInv, [Next]_vars PROVE [Good]_vars
    <2> SUFFICES ASSUME NEW t \in Tabs, Next, work[t].at = "confirm", review'[t] = NoReview,
                        work'[t] = Idle
                 PROVE  seen[t] = {"account", "listed", "head"} /\ local = review[t].profile
        BY <1>1 DEF vars
    <2>1. TabInv(t) /\ Types
        BY <1>1 DEF IInv
    <2>2. work[t].op = "commit" /\ review[t] # NoReview /\ work[t].profile = review[t].profile
        BY <2>1 DEF TabInv, Ordered, Finishing
    <2>3. local = review[t].profile
        BY <2>1, <2>2, OnlyConfirm DEF Confirm, Types
    <2>4. seen[t] = {"account", "listed", "head"}
        BY <2>1, <2>2 DEF TabInv, Seen, Vouched, Types, Finishing
    <2> QED
        BY <2>3, <2>4
  <1> QED
      BY <1>1, InitInv, NextInv, PTL DEF Spec, ConfirmedIsTrue, Good
=============================================================================
