-------------------------- MODULE LocalSaveProofs --------------------------
(***************************************************************************)
(* Proofs about LocalSave, for every set of tabs, workspaces and edits and *)
(* every number of files, saves, late requests and credentials.            *)
(***************************************************************************)
EXTENDS LocalSave, FiniteSetTheorems, TLAPS

Pcs == {"idle", "prepare", "stage", "recheck", "commit", "giveup", "write", "undo", "rollback",
        "unresolved", "confirm", "unconfirmed", "reconfirm", "unwind", "resume", "restore",
        "complete", "revert", "verify", "remove"}
Ops == {"prepare", "authorize", "commit", "receipt", "fail", "unresolved", "rollback",
        "recover", "revert"}
Words == {"nothing", "applied", "unchanged", "undone", "recovery"}

Bytes == [Files -> Content]
RecordType ==
    [status : Statuses, recovery : BOOLEAN, live : BOOLEAN, gen : Nat, backed : BOOLEAN,
     received : BOOLEAN, unconfirmed : BOOLEAN, original : Bytes]
TabType ==
    [pc : Pcs, txn : Txns \cup {NoTxn}, gen : Nat, at : Files \cup {NoFile},
     left : SUBSET Files, wrote : SUBSET Files, unconfirmed : BOOLEAN, saw : Bytes]
QueryType == [op : Ops, txn : Txns, gen : Nat, files : Bytes]

-----------------------------------------------------------------------------
(* The first invariant: what holds however impatient people are. *)

\* The bytes of x that are some save's were on disk in that place.
Real(x) == \A f \in Files : x[f] \in Txns => f \in seen[x[f]]

OnlyCreates(r) == \A f \in Files : r.original[f] = "absent"

Applied(r) == \/ r.status \in {"committed", "reverting"}
              \/ r.status = "rolled_back" /\ OnlyCreates(r)

WithoutJournal == {"idle", "prepare"}
NothingWritten == {"stage", "recheck", "commit", "giveup"}
Savers         == NothingWritten \cup {"write", "undo", "rollback", "unresolved"}
MayHaveWritten == Pcs \ (WithoutJournal \cup NothingWritten)

\* What may be written over was backed up, and a receipt was truthful.
JournalOK(t) ==
    LET r == record[t]
    IN  /\ Real(r.original)
        /\ r.status = "none" => ~r.backed
        /\ r.recovery => r.status \in {"committing", "reverting", "failed"}
        /\ r.recovery \/ r.status \in {"authorized", "committing", "committed", "reverting"} =>
              r.backed
        /\ r.status = "committed" => seen[t] = Files
        /\ r.status = "reverting" => OnlyCreates(r)

ToldOK(t) == told[t] = "applied" => Applied(record[t])

\* A request under way, given up on or not.
QueryOK(q) ==
    /\ Real(q.files)
    /\ q.op # "prepare" => record[q.txn].status # "none"
    /\ q.op = "unresolved" => record[q.txn].backed

\* A tab in state w.
StateOK(w) ==
    LET r == record[w.txn]
    IN  /\ Real(w.saw)
        /\ w.pc \in WithoutJournal <=> w.txn = NoTxn
        /\ w.txn # NoTxn => r.status # "none"
        /\ w.pc \in Savers => r.original = w.saw
        /\ w.pc \in MayHaveWritten => r.backed
        /\ w.pc \in {"verify", "remove"} => OnlyCreates(r)
        /\ w.pc \in WithoutJournal \cup NothingWritten => w.wrote = {}
        /\ w.pc = "write" => w.wrote \subseteq seen[w.txn]
        /\ w.at # NoFile => w.pc \in {"write", "undo", "restore", "remove"}

\* What a tab is about to replace may be replaced.
TargetOK(w) == w.at # NoFile /\ (w.pc # "restore" \/ Native) => Kept(w.at)

Types ==
    /\ workspace \in Workspaces
    /\ disk \in Bytes
    /\ edits \subseteq Edits
    /\ record \in [Txns -> RecordType]
    /\ \A t \in Txns : record[t].gen <= MaxGen
    /\ late \subseteq QueryType
    /\ IsFiniteSet(late)
    /\ Cardinality(late) <= MaxLate
    /\ tab \in [Tabs -> TabType]
    /\ told \in [Txns -> Words]
    /\ seen \in [Txns -> SUBSET Files]

IInv ==
    /\ Types
    /\ Real(disk)
    /\ \A t \in Txns : JournalOK(t) /\ ToldOK(t)
    /\ \A q \in late : QueryOK(q)
    /\ \A b \in Tabs : StateOK(tab[b]) /\ TargetOK(tab[b])

-----------------------------------------------------------------------------
(* The workspace never changes, and neither does what is derived from it. *)

LEMMA Constants ==
    ASSUME workspace' = workspace
    PROVE  /\ Txns' = Txns /\ Files' = Files /\ Native' = Native /\ MaxLate' = MaxLate
           /\ Content' = Content /\ Bytes' = Bytes /\ Blank' = Blank /\ Rest' = Rest
           /\ RecordType' = RecordType /\ TabType' = TabType /\ QueryType' = QueryType
BY DEF Txns, Files, Native, MaxLate, Content, Bytes, Blank, Rest, RecordType, TabType, QueryType

LEMMA Basics ==
    ASSUME workspace \in Workspaces
    PROVE  /\ NoTxn \notin Txns /\ NoFile \notin Files /\ MaxLate \in Nat
           /\ Txns \cap ({"absent", "empty", "base"} \cup Edits) = {}
           /\ Native \in BOOLEAN /\ MaxGen \in Nat \ {0}
BY LocalSaveAssumption DEF Txns, Files, Native, MaxLate

LEMMA Values ==
           /\ Blank \in RecordType /\ Rest \in TabType
           /\ Blank.status = "none" /\ ~Blank.backed /\ ~Blank.recovery /\ Blank.gen = 0
           /\ \A f \in Files : Blank.original[f] = "absent" /\ Rest.saw[f] = "absent"
           /\ Rest.pc = "idle" /\ Rest.txn = NoTxn /\ Rest.at = NoFile /\ Rest.gen = 0
BY DEF Blank, Rest, RecordType, TabType, Bytes, Content, Statuses, Pcs

-----------------------------------------------------------------------------
(* What a request makes of the journals. *)

\* u is r some time later, with no request for it accepted: staged work may be
\* abandoned, and other open work marked.
Fades(r, u) ==
    /\ u \in RecordType
    /\ u.gen = r.gen /\ u.backed = r.backed /\ u.received = r.received /\ u.original = r.original
    /\ \/ u.status = r.status /\ u.recovery = r.recovery
       \/ /\ r.status \in {"preparing", "authorized"}
          /\ u.status = "abandoned" /\ u.recovery = r.recovery
       \/ /\ r.status \in {"committing", "reverting"} \/ r.recovery
          /\ u.status = r.status /\ u.recovery

\* u is r after a request for it was accepted.
Serves(q, r, u) ==
    /\ u \in RecordType
    /\ \/ /\ q.op = "prepare" /\ r.status = "none"
          /\ u.status = "preparing" /\ ~u.recovery /\ u.gen = 1 /\ u.original = q.files
       \/ /\ q.op # "prepare" /\ r.status # "none"
          /\ u.original = r.original /\ (r.backed \/ q.op = "authorize" => u.backed)
          /\ u.gen = r.gen + (IF q.op \in {"recover", "revert"} THEN 1 ELSE 0)
          /\ q.op \in {"recover", "revert"} \/ q.gen = r.gen
          /\ \/ /\ q.op = "authorize" /\ r.status = "preparing"
                /\ u.status = "authorized" /\ u.recovery = r.recovery
             \/ /\ q.op = "commit" /\ r.status = "authorized"
                /\ u.status = "committing" /\ u.recovery = r.recovery
             \/ /\ q.op = "receipt"
                /\ r.status = "committing" \/ (r.status = "failed" /\ r.recovery)
                /\ \A f \in Files : q.files[f] = q.txn
                /\ u.status = "committed" /\ ~u.recovery
             \/ /\ q.op = "fail" /\ r.status \in {"preparing", "authorized", "committing"}
                /\ u.status = "failed" /\ ~u.recovery
             \/ /\ q.op = "unresolved" /\ r.status \in {"preparing", "authorized", "committing"}
                /\ u.status = "failed" /\ u.recovery
             \/ /\ q.op = "rollback"
                /\ \/ r.status \in {"committing", "reverting"}
                   \/ r.status = "failed" /\ r.recovery
                /\ q.files = r.original
                /\ u.status = "rolled_back" /\ ~u.recovery
             \/ /\ q.op = "recover"
                /\ r.recovery /\ r.status \in {"committing", "reverting", "failed"}
                /\ u.status = r.status /\ u.recovery
             \/ /\ q.op = "revert" /\ r.status = "committed" /\ OnlyCreates(r)
                /\ u.status = "reverting" /\ u.recovery

LEMMA AcceptedOnes ==
    ASSUME workspace \in Workspaces, NEW q \in QueryType, record \in [Txns -> RecordType],
           Accepts(q)
    PROVE  Serves(q, record[q.txn], Updated(q))
<1>. DEFINE r == record[q.txn]
            u == Updated(q)
<1>1. r \in RecordType /\ q.txn \in Txns /\ q.op \in Ops /\ q.files \in Bytes /\ q.gen \in Nat
  BY DEF QueryType
<1>2. r.status \in Statuses /\ r.gen \in Nat /\ r.backed \in BOOLEAN /\ r.recovery \in BOOLEAN
  BY <1>1 DEF RecordType
<1>3. UnconfirmedNativeCreation(r) \in BOOLEAN
  BY DEF UnconfirmedNativeCreation
<1>4. CASE q.op = "prepare"
  <2>1. u = [Blank EXCEPT !.status = "preparing", !.live = TRUE, !.gen = 1, !.original = q.files]
    BY <1>4 DEF Updated
  <2>2. Blank \in RecordType /\ ~Blank.recovery
    BY Values
  <2>3. u \in RecordType /\ u.status = "preparing" /\ ~u.recovery /\ u.gen = 1
        /\ u.original = q.files
    <3>1. PICK x \in Bytes : x = q.files
      BY <1>1
    <3>2. u = [Blank EXCEPT !.status = "preparing", !.live = TRUE, !.gen = 1, !.original = x]
      BY <2>1, <3>1
    <3>. HIDE DEF u
    <3>. QED
      BY <3>1, <3>2, <2>2 DEF RecordType, Statuses
  <2>4. r.status = "none"
    BY <1>4 DEF Accepts
  <2>. QED
    BY <1>4, <2>3, <2>4 DEF Serves
<1>5. CASE q.op = "authorize"
  <2>1. u = [r EXCEPT !.status = "authorized", !.backed = TRUE, !.live = TRUE]
    BY <1>5 DEF Updated
  <2>2. r.status = "preparing" /\ q.gen = r.gen
    BY <1>5 DEF Accepts
  <2>3. /\ u \in RecordType /\ u.status = "authorized" /\ u.recovery = r.recovery
        /\ u.gen = r.gen /\ u.original = r.original /\ u.backed = TRUE
    BY <2>1, <1>1 DEF RecordType, Statuses
  <2>. QED
    BY <1>2, <1>5, <2>2, <2>3 DEF Serves
<1>6. CASE q.op = "commit"
  <2>1. u = [r EXCEPT !.status = "committing", !.live = TRUE]
    BY <1>6 DEF Updated
  <2>2. r.status = "authorized" /\ q.gen = r.gen
    BY <1>6 DEF Accepts
  <2>3. /\ u \in RecordType /\ u.status = "committing" /\ u.recovery = r.recovery
        /\ u.gen = r.gen /\ u.original = r.original /\ u.backed = r.backed
    BY <2>1, <1>1 DEF RecordType, Statuses
  <2>. QED
    BY <1>2, <1>6, <2>2, <2>3 DEF Serves
<1>7. CASE q.op = "receipt"
  <2>1. u = [r EXCEPT !.status = "committed", !.recovery = FALSE, !.received = TRUE]
    BY <1>7 DEF Updated
  <2>2. /\ r.status = "committing" \/ (r.status = "failed" /\ r.recovery)
        /\ q.gen = r.gen /\ \A f \in Files : q.files[f] = q.txn
    BY <1>7 DEF Accepts
  <2>3. /\ u \in RecordType /\ u.status = "committed" /\ ~u.recovery
        /\ u.gen = r.gen /\ u.original = r.original /\ u.backed = r.backed
    BY <2>1, <1>1 DEF RecordType, Statuses
  <2>. QED
    BY <1>2, <1>7, <2>2, <2>3 DEF Serves
<1>8. CASE q.op = "fail"
  <2>1. u = [r EXCEPT !.status = "failed", !.recovery = FALSE]
    BY <1>8 DEF Updated
  <2>2. r.status \in {"preparing", "authorized", "committing"} /\ q.gen = r.gen
    BY <1>8 DEF Accepts
  <2>3. /\ u \in RecordType /\ u.status = "failed" /\ ~u.recovery
        /\ u.gen = r.gen /\ u.original = r.original /\ u.backed = r.backed
    BY <2>1, <1>1 DEF RecordType, Statuses
  <2>. QED
    BY <1>2, <1>8, <2>2, <2>3 DEF Serves
<1>9. CASE q.op = "unresolved"
  <2>1. u = [r EXCEPT !.status = "failed", !.recovery = TRUE, !.live = FALSE]
    BY <1>9 DEF Updated
  <2>2. r.status \in {"preparing", "authorized", "committing"} /\ q.gen = r.gen
    BY <1>9 DEF Accepts
  <2>3. /\ u \in RecordType /\ u.status = "failed" /\ u.recovery
        /\ u.gen = r.gen /\ u.original = r.original /\ u.backed = r.backed
    BY <2>1, <1>1 DEF RecordType, Statuses
  <2>. QED
    BY <1>2, <1>9, <2>2, <2>3 DEF Serves
<1>10. CASE q.op = "rollback"
  <2>1. u = [r EXCEPT !.status = "rolled_back", !.recovery = FALSE]
    BY <1>10 DEF Updated, RolledBack
  <2>2. /\ r.status \in {"committing", "reverting"} \/ (r.status = "failed" /\ r.recovery)
        /\ q.gen = r.gen /\ q.files = r.original
    BY <1>10 DEF Accepts
  <2>3. /\ u \in RecordType /\ u.status = "rolled_back" /\ ~u.recovery
        /\ u.gen = r.gen /\ u.original = r.original /\ u.backed = r.backed
    BY <2>1, <1>1 DEF RecordType, Statuses
  <2>. QED
    BY <1>2, <1>10, <2>2, <2>3 DEF Serves
<1>11. CASE q.op = "recover"
  <2>1. u = [r EXCEPT !.gen = @ + 1, !.unconfirmed = UnconfirmedNativeCreation(r)]
    BY <1>11 DEF Updated
  <2>2. r.recovery /\ r.status \in {"committing", "reverting", "failed"}
    BY <1>11 DEF Accepts
  <2>3. /\ u \in RecordType /\ u.status = r.status /\ u.recovery = r.recovery
        /\ u.gen = r.gen + 1 /\ u.original = r.original /\ u.backed = r.backed
    <3>1. PICK n \in Nat : n = r.gen + 1
      BY <1>2
    <3>2. PICK d \in BOOLEAN : d = UnconfirmedNativeCreation(r)
      BY <1>3
    <3>3. u = [r EXCEPT !.gen = n, !.unconfirmed = d]
      BY <2>1, <3>1, <3>2
    <3>. HIDE DEF r, u
    <3>. QED
      BY <3>1, <3>3, <1>1 DEF RecordType, Statuses
  <2>. QED
    BY <1>2, <1>11, <2>2, <2>3 DEF Serves
<1>12. CASE q.op = "revert"
  <2>1. u = [r EXCEPT !.status = "reverting", !.recovery = TRUE, !.live = TRUE, !.gen = @ + 1]
    BY <1>12 DEF Updated
  <2>2. r.status = "committed" /\ OnlyCreates(r)
    BY <1>12 DEF Accepts, OnlyCreates
  <2>3. /\ u \in RecordType /\ u.status = "reverting" /\ u.recovery
        /\ u.gen = r.gen + 1 /\ u.original = r.original /\ u.backed = r.backed
    <3>1. PICK n \in Nat : n = r.gen + 1
      BY <1>2
    <3>2. u = [r EXCEPT !.status = "reverting", !.recovery = TRUE, !.live = TRUE, !.gen = n]
      BY <2>1, <3>1
    <3>. HIDE DEF r, u
    <3>. QED
      BY <3>1, <3>2, <1>1 DEF RecordType, Statuses
  <2>. QED
    BY <1>2, <1>12, <2>2, <2>3 DEF Serves
<1>. QED
  BY <1>1, <1>4, <1>5, <1>6, <1>7, <1>8, <1>9, <1>10, <1>11, <1>12 DEF Ops

\* An open journal, or one that acquiring the lease would reclaim.
LEMMA OpenStates ==
    ASSUME NEW r \in RecordType
    PROVE  /\ Open(r) <=> \/ r.status \in {"preparing", "authorized", "committing", "reverting"}
                          \/ r.status # "none" /\ r.recovery
           /\ Stale(r) => r.status \in {"preparing", "authorized"}
           /\ ~Stale(r) /\ Open(r) /\ ~r.live => r.status \in {"committing", "reverting"}
                                                \/ r.recovery
BY DEF Open, Stale, Finished, RecordType, Statuses

LEMMA ReclaimedOnes ==
    ASSUME workspace \in Workspaces, record \in [Txns -> RecordType], NEW t \in Txns,
           JournalOK(t)
    PROVE  /\ Reclaimed[t] \in RecordType /\ Fades(record[t], Reclaimed[t])
           /\ LeaseIsFree => ~Open(Reclaimed[t])
<1>. DEFINE r == record[t]
            u == Reclaimed[t]
<1>1. r \in RecordType
  OBVIOUS
<1>2. r.status \in Statuses /\ r.recovery \in BOOLEAN /\ r.live \in BOOLEAN
  BY <1>1 DEF RecordType
<1>3. u = IF Stale(r) THEN [r EXCEPT !.status = "abandoned"]
          ELSE IF Open(r) /\ ~r.live THEN [r EXCEPT !.recovery = TRUE] ELSE r
  BY DEF Reclaimed
<1>4. CASE Stale(r)
  <2>1. u = [r EXCEPT !.status = "abandoned"]
    BY <1>3, <1>4
  <2>2. /\ u \in RecordType /\ u.status = "abandoned" /\ u.recovery = r.recovery
        /\ u.gen = r.gen /\ u.backed = r.backed /\ u.received = r.received
        /\ u.original = r.original
    BY <2>1, <1>1 DEF RecordType, Statuses
  <2>3. r.status \in {"preparing", "authorized"}
    BY <1>1, <1>4, OpenStates
  <2>4. ~r.recovery
    BY <2>3 DEF JournalOK
  <2>5. ~Open(u)
    BY <2>2, <2>4, OpenStates
  <2>. QED
    BY <2>2, <2>3, <2>5 DEF Fades
<1>5. CASE ~Stale(r) /\ Open(r) /\ ~r.live
  <2>1. u = [r EXCEPT !.recovery = TRUE]
    BY <1>3, <1>5
  <2>2. /\ u \in RecordType /\ u.status = r.status /\ u.recovery
        /\ u.gen = r.gen /\ u.backed = r.backed /\ u.received = r.received
        /\ u.original = r.original
    BY <2>1, <1>1 DEF RecordType
  <2>3. r.status \in {"committing", "reverting"} \/ r.recovery
    BY <1>1, <1>5, OpenStates
  <2>4. ~LeaseIsFree
    BY <1>5 DEF LeaseIsFree
  <2>. QED
    BY <2>2, <2>3, <2>4 DEF Fades
<1>6. CASE ~Stale(r) /\ ~(Open(r) /\ ~r.live)
  <2>1. u = r
    BY <1>3, <1>6
  <2>. QED
    BY <2>1, <1>1, <1>6 DEF Fades, LeaseIsFree
<1>. QED
  BY <1>4, <1>5, <1>6

LEMMA ServedOnes ==
    ASSUME IInv, NEW q \in QueryType
    PROVE  /\ Served(q) \in [Txns -> RecordType]
           /\ \A t \in Txns :
                 \/ Fades(record[t], Served(q)[t])
                 \/ t = q.txn /\ Accepts(q) /\ Serves(q, record[t], Served(q)[t])
           /\ Accepts(q) => Serves(q, record[q.txn], Served(q)[q.txn])
           /\ Accepts(q) /\ q.op \in {"prepare", "revert"} =>
                 \A t \in Txns \ {q.txn} : ~Open(Served(q)[t])
<1>. DEFINE reclaims == q.op = "prepare" \/ (q.op = "revert" /\ record[q.txn].status = "committed")
            base == IF reclaims THEN Reclaimed ELSE record
<1>1. workspace \in Workspaces /\ record \in [Txns -> RecordType] /\ q.txn \in Txns
  BY DEF IInv, Types, QueryType
<1>2. \A t \in Txns : Reclaimed[t] \in RecordType /\ Fades(record[t], Reclaimed[t])
                      /\ (LeaseIsFree => ~Open(Reclaimed[t]))
  BY <1>1, ReclaimedOnes DEF IInv
<1>3. Reclaimed \in [Txns -> RecordType]
  <2>1. \A t \in Txns : Reclaimed[t] \in RecordType
    BY <1>2
  <2>2. Reclaimed = [t \in Txns |-> Reclaimed[t]]
    BY DEF Reclaimed
  <2>. QED
    BY <2>1, <2>2
<1>4. \A t \in Txns : Fades(record[t], record[t])
  BY <1>1 DEF Fades
<1>5. base \in [Txns -> RecordType] /\ \A t \in Txns : Fades(record[t], base[t])
  BY <1>1, <1>2, <1>3, <1>4
<1>6. Served(q) = IF Accepts(q) THEN [base EXCEPT ![q.txn] = Updated(q)] ELSE base
  BY DEF Served
<1>. HIDE DEF base
<1>7. CASE ~Accepts(q)
  BY <1>5, <1>6, <1>7
<1>8. CASE Accepts(q)
  <2>1. PICK u \in RecordType : u = Updated(q) /\ Serves(q, record[q.txn], u)
    BY <1>1, <1>8, AcceptedOnes DEF Serves
  <2>2. Served(q) = [base EXCEPT ![q.txn] = u]
    BY <1>6, <1>8, <2>1
  <2>3. /\ Served(q) \in [Txns -> RecordType] /\ Served(q)[q.txn] = u
        /\ \A t \in Txns \ {q.txn} : Served(q)[t] = base[t]
    BY <1>1, <1>5, <2>2
  <2>4. q.op \in {"prepare", "revert"} => base = Reclaimed /\ LeaseIsFree
    BY <1>8 DEF Accepts, base
  <2>. QED
    BY <1>2, <1>5, <1>8, <2>1, <2>3, <2>4
<1>. QED
  BY <1>7, <1>8

-----------------------------------------------------------------------------
(* A journal keeps the first invariant, and what the rest relies on. *)

\* What later states keep of the journal of t.
Evolves(t) ==
    /\ record[t].status # "none" =>
          record'[t].status # "none" /\ record'[t].original = record[t].original
    /\ record[t].backed => record'[t].backed
    /\ Applied(record[t]) => Applied(record'[t])

SeenGrows == \A t \in Txns : seen[t] \subseteq seen'[t]

LEMMA RealStays ==
    ASSUME workspace' = workspace, SeenGrows, NEW x, Real(x)
    PROVE  Real(x)'
BY Constants DEF Real, SeenGrows

LEMMA FadingKeeps ==
    ASSUME IInv, workspace' = workspace, seen' \in [Txns -> SUBSET Files], SeenGrows,
           NEW t \in Txns, Fades(record[t], record'[t])
    PROVE  JournalOK(t)' /\ Evolves(t) /\ record'[t].gen <= MaxGen
<1>1. PICK r \in RecordType : r = record[t]
  BY DEF IInv, Types
<1>2. PICK u \in RecordType : u = record'[t]
  BY DEF Fades
<1>3. r.status \in Statuses /\ r.recovery \in BOOLEAN
  BY <1>1 DEF RecordType
<1>4. Fades(r, u)
  BY <1>1, <1>2
<1>5. /\ r.status = "none" => ~r.backed
      /\ r.recovery => r.status \in {"committing", "reverting", "failed"}
      /\ r.recovery \/ r.status \in {"authorized", "committing", "committed", "reverting"} =>
            r.backed
      /\ r.status = "committed" => seen[t] = Files
      /\ r.status = "reverting" => OnlyCreates(r)
      /\ Real(r.original)
  BY <1>1 DEF IInv, JournalOK
<1>6. OnlyCreates(r) <=> OnlyCreates(u)
  BY <1>4 DEF Fades, OnlyCreates
<1>7. Real(u.original)'
  <2>1. Real(u.original)
    BY <1>4, <1>5 DEF Fades
  <2>2. PICK x : x = u.original
    OBVIOUS
  <2>3. Real(x)'
    BY <2>1, <2>2, RealStays
  <2>. QED
    BY <2>2, <2>3 DEF Real
<1>8. u.status = "committed" => seen'[t] = Files
  BY <1>3, <1>4, <1>5 DEF Fades, SeenGrows
<1>9. u.gen <= MaxGen
  BY <1>1, <1>4 DEF Fades, IInv, Types
<1>10. OnlyCreates(u)' <=> OnlyCreates(u)
  BY Constants DEF OnlyCreates
<1>11. /\ u.status = "none" => ~u.backed
       /\ u.recovery => u.status \in {"committing", "reverting", "failed"}
       /\ u.recovery \/ u.status \in {"authorized", "committing", "committed", "reverting"} =>
             u.backed
       /\ u.status = "reverting" => OnlyCreates(u)
  BY <1>3, <1>4, <1>5, <1>6 DEF Fades
<1>12. JournalOK(t)'
  BY <1>2, <1>7, <1>8, <1>10, <1>11, Constants DEF JournalOK, Real, OnlyCreates
<1>13. Evolves(t)
  BY <1>1, <1>2, <1>3, <1>4, <1>5, <1>6 DEF Evolves, Applied, Fades
<1>. QED
  BY <1>2, <1>9, <1>12, <1>13

LEMMA ServingKeeps ==
    ASSUME IInv, workspace' = workspace, seen' \in [Txns -> SUBSET Files], SeenGrows,
           NEW q \in QueryType, QueryOK(q), Serves(q, record[q.txn], record'[q.txn]),
           q.op \in {"recover", "revert"} => record[q.txn].gen < MaxGen
    PROVE  JournalOK(q.txn)' /\ Evolves(q.txn) /\ record'[q.txn].gen <= MaxGen
<1>1. PICK t \in Txns : t = q.txn
  BY DEF QueryType
<1>2. PICK r \in RecordType : r = record[t]
  BY DEF IInv, Types
<1>3. PICK u \in RecordType : u = record'[t]
  BY <1>1 DEF Serves
<1>4. Serves(q, r, u)
  BY <1>1, <1>2, <1>3
<1>5. r.status \in Statuses /\ r.recovery \in BOOLEAN /\ r.gen \in Nat /\ u.gen \in Nat
      /\ MaxGen \in Nat \ {0} /\ q.op \in Ops /\ q.files \in Bytes
  BY <1>2, <1>3, LocalSaveAssumption DEF RecordType, QueryType
<1>6. /\ r.status = "none" => ~r.backed
      /\ r.recovery => r.status \in {"committing", "reverting", "failed"}
      /\ r.recovery \/ r.status \in {"authorized", "committing", "committed", "reverting"} =>
            r.backed
      /\ r.status = "committed" => seen[t] = Files
      /\ r.status = "reverting" => OnlyCreates(r)
      /\ Real(r.original)
  BY <1>2 DEF IInv, JournalOK
<1>7. q.op # "prepare" => u.original = r.original /\ (OnlyCreates(u) <=> OnlyCreates(r))
  BY <1>4 DEF Serves, OnlyCreates
<1>8. Real(u.original)'
  <2>1. Real(u.original)
    BY <1>4, <1>6, <1>7 DEF Serves, QueryOK
  <2>2. PICK x : x = u.original
    OBVIOUS
  <2>3. Real(x)'
    BY <2>1, <2>2, RealStays
  <2>. QED
    BY <2>2, <2>3 DEF Real
<1>9. u.status = "committed" => seen'[t] = Files
  <2>1. SUFFICES ASSUME u.status = "committed"
                 PROVE  seen'[t] = Files
    OBVIOUS
  <2>2. \A f \in Files : q.files[f] = t
    BY <1>1, <1>4, <1>5, <2>1 DEF Serves
  <2>3. Files \subseteq seen[t]
    BY <1>1, <2>2 DEF QueryOK, Real
  <2>. QED
    BY <1>1, <2>3 DEF SeenGrows
<1>10. u.gen <= MaxGen
  <2>1. r.gen <= MaxGen
    BY <1>2 DEF IInv, Types
  <2>. QED
    BY <1>1, <1>2, <1>4, <1>5, <2>1 DEF Serves
<1>11. OnlyCreates(u)' <=> OnlyCreates(u)
  BY Constants DEF OnlyCreates
<1>12. /\ u.status # "none"
       /\ u.recovery => u.status \in {"committing", "reverting", "failed"}
       /\ r.backed => u.backed
       /\ q.op = "unresolved" => r.backed
  BY <1>1, <1>2, <1>4, <1>5, <1>6 DEF Serves, QueryOK
<1>13. u.recovery \/ u.status \in {"authorized", "committing", "committed", "reverting"} =>
          u.backed
  BY <1>4, <1>5, <1>6, <1>12 DEF Serves
<1>14. u.status = "reverting" => OnlyCreates(u)
  BY <1>4, <1>5, <1>6, <1>7 DEF Serves
<1>15. JournalOK(t)'
  BY <1>3, <1>8, <1>9, <1>11, <1>12, <1>13, <1>14, Constants DEF JournalOK, Real, OnlyCreates
<1>16. Evolves(t)
  <2>1. r.status # "none" => u.original = r.original
    BY <1>4, <1>7 DEF Serves
  <2>2. Applied(r) => Applied(u)
    BY <1>4, <1>5, <1>6, <1>7 DEF Serves, Applied
  <2>. QED
    BY <1>2, <1>3, <1>12, <2>1, <2>2 DEF Evolves
<1>. QED
  BY <1>1, <1>3, <1>10, <1>15, <1>16

-----------------------------------------------------------------------------
(* Whoever does not take part in a step keeps the invariant.               *)

LEMMA QueryStays ==
    ASSUME workspace' = workspace, SeenGrows, NEW q \in QueryType, QueryOK(q), Evolves(q.txn)
    PROVE  QueryOK(q)'
<1>1. PICK x : x = q.files
  OBVIOUS
<1>2. Real(x)'
  BY <1>1, RealStays DEF QueryOK
<1>3. Real(q.files)'
  BY <1>1, <1>2 DEF Real
<1>. QED
  BY <1>3 DEF QueryOK, Evolves

LEMMA StateStays ==
    ASSUME workspace' = workspace, SeenGrows, \A t \in Txns : Evolves(t),
           NEW w \in TabType, StateOK(w)
    PROVE  StateOK(w)'
<1>1. PICK x : x = w.saw
  OBVIOUS
<1>2. Real(x)'
  BY <1>1, RealStays DEF StateOK
<1>3. Real(w.saw)'
  BY <1>1, <1>2 DEF Real
<1>4. CASE w.txn = NoTxn
  <2>1. w.pc \in WithoutJournal
    BY <1>4 DEF StateOK
  <2>2. w.at = NoFile /\ w.pc \notin {"verify", "remove", "write"}
    BY <2>1 DEF StateOK, WithoutJournal
  <2>. QED
    BY <1>3, <1>4, <2>1, <2>2
       DEF StateOK, WithoutJournal, Savers, NothingWritten, MayHaveWritten
<1>5. CASE w.txn # NoTxn
  <2>1. w.txn \in Txns
    BY <1>5 DEF TabType
  <2>2. /\ record'[w.txn].status # "none" /\ record'[w.txn].original = record[w.txn].original
        /\ record[w.txn].backed => record'[w.txn].backed
    BY <1>5, <2>1 DEF StateOK, Evolves
  <2>3. OnlyCreates(record[w.txn]) => OnlyCreates(record[w.txn])'
    BY <2>2, Constants DEF OnlyCreates
  <2>4. seen[w.txn] \subseteq seen'[w.txn]
    BY <2>1 DEF SeenGrows
  <2>. QED
    BY <1>3, <1>5, <2>2, <2>3, <2>4 DEF StateOK
<1>. QED
  BY <1>4, <1>5

\* The new bytes of f are a save's own, or those some backup holds.
Replaceable(f) ==
    \/ disk'[f] \in {"absent", "empty"} \cup Txns
    \/ \E t \in Txns : record[t].backed /\ record[t].original[f] = disk'[f]

LEMMA BackedIsUsed ==
    ASSUME IInv, \A t \in Txns : Evolves(t), NEW t \in Txns, record[t].backed
    PROVE  record'[t].backed /\ record'[t].original = record[t].original
BY DEF IInv, JournalOK, Evolves

LEMMA KeptStays ==
    ASSUME IInv, workspace' = workspace, \A t \in Txns : Evolves(t), NEW f \in Files,
           \/ Kept(f) /\ disk'[f] = disk[f]
           \/ Replaceable(f)
    PROVE  Kept(f)'
<1>1. CASE disk'[f] \in {"absent", "empty"} \cup Txns
  BY <1>1, Constants DEF Kept
<1>2. CASE \E t \in Txns : record[t].backed /\ record[t].original[f] = disk'[f]
  BY <1>2, BackedIsUsed, Constants DEF Kept
<1>. QED
  BY <1>1, <1>2 DEF Kept, Replaceable

\* The parts of the invariant of a step, put together.
LEMMA Assembled ==
    ASSUME IInv, workspace' = workspace, SeenGrows, Types', Real(disk)',
           \A t \in Txns : JournalOK(t)' /\ Evolves(t),
           \A t \in Txns : told'[t] = told[t] \/ ToldOK(t)',
           \A q \in late' : q \in late \/ QueryOK(q)',
           \A c \in Tabs : tab'[c] = tab[c] \/ (StateOK(tab[c])' /\ TargetOK(tab[c])'),
           \A c \in Tabs : tab'[c] = tab[c] /\ tab[c].at # NoFile =>
              disk'[tab[c].at] = disk[tab[c].at] \/ Replaceable(tab[c].at)
    PROVE  IInv'
<1>1. ASSUME NEW t \in Txns
      PROVE  ToldOK(t)'
  <2>1. Applied(record[t])' <=> Applied(record'[t])
    BY Constants DEF Applied, OnlyCreates
  <2>. QED
    BY <2>1 DEF IInv, ToldOK, Evolves
<1>2. ASSUME NEW q \in late'
      PROVE  QueryOK(q)'
  <2>1. CASE q \in late
    <3>1. q \in QueryType /\ QueryOK(q)
      BY <2>1 DEF IInv, Types
    <3>2. q.txn \in Txns
      BY <3>1 DEF QueryType
    <3>. QED
      BY <3>1, <3>2, QueryStays
  <2>. QED
    BY <1>2, <2>1
<1>3. ASSUME NEW c \in Tabs, tab'[c] = tab[c]
      PROVE  StateOK(tab[c])' /\ TargetOK(tab[c])'
  <2>1. PICK w \in TabType : w = tab[c]
    BY DEF IInv, Types
  <2>2. StateOK(w)'
    BY <2>1, StateStays DEF IInv
  <2>3. StateOK(tab[c])' = StateOK(w)'
    BY <1>3, <2>1 DEF StateOK, Real, OnlyCreates
  <2>4. TargetOK(w)'
    <3>1. SUFFICES ASSUME w.at # NoFile, w.pc # "restore" \/ Native
                   PROVE  Kept(w.at)'
      BY Constants DEF TargetOK
    <3>2. Kept(w.at)
      BY <2>1, <3>1 DEF IInv, TargetOK
    <3>3. PICK f \in Files : f = w.at
      BY <3>1 DEF TabType
    <3>4. Kept(f)'
      BY <1>3, <2>1, <3>1, <3>2, <3>3, KeptStays
    <3>. QED
      BY <3>3, <3>4
  <2>5. TargetOK(tab[c])' = TargetOK(w)'
    BY <1>3, <2>1 DEF TargetOK, Kept
  <2>. QED
    BY <2>2, <2>3, <2>4, <2>5
<1>4. \A c \in Tabs : StateOK(tab[c])' /\ TargetOK(tab[c])'
  BY <1>3
<1>5. \A t \in Txns' : JournalOK(t)' /\ ToldOK(t)'
  BY <1>1, Constants
<1>. QED
  BY <1>2, <1>4, <1>5 DEF IInv

-----------------------------------------------------------------------------
(* A tab asks.                                                             *)

\* The journals after a step: none of their own accord does more than fade.
Journalled(q) ==
    /\ record' \in [Txns -> RecordType]
    /\ \A t \in Txns : \/ Fades(record[t], record'[t])
                       \/ t = q.txn /\ Accepts(q) /\ Serves(q, record[t], record'[t])

Served1(q) == Accepts(q) /\ record' = Served(q) /\ Serves(q, record[q.txn], record'[q.txn])

LEMMA NothingServed ==
    ASSUME IInv, record' = record, NEW q
    PROVE  Journalled(q)
BY DEF IInv, Types, Journalled, Fades

LEMMA RequestServed ==
    ASSUME IInv, NEW q \in QueryType, record' = Served(q)
    PROVE  Journalled(q) /\ (Accepts(q) => Served1(q))
BY ServedOnes DEF Journalled, Served1

LEMMA Asked ==
    ASSUME IInv, NEW b \in Tabs, NEW q \in QueryType, NEW next, NEW word, NEW otherwise,
           NEW errorWord, Ask(b, q, next, word, otherwise, errorWord)
    PROVE  /\ workspace' = workspace /\ disk' = disk /\ edits' = edits /\ seen' = seen
           /\ Journalled(q)
           /\ late' \subseteq late \cup {q}
           /\ IsFiniteSet(late') /\ Cardinality(late') <= MaxLate
           /\ \/ Served1(q) /\ late' = late /\ Go(b, next, word)
              \/ (record' = Served(q) \/ record' = record) /\ Go(b, otherwise, errorWord)
              
<1>1. workspace' = workspace /\ disk' = disk /\ edits' = edits /\ seen' = seen
  BY DEF Ask
<1>2. IsFiniteSet(late) /\ Cardinality(late) <= MaxLate /\ MaxLate \in Nat
  BY Basics DEF IInv, Types
<1>3. CASE Accepts(q) /\ record' = Served(q) /\ late' = late /\ Go(b, next, word)
  BY <1>1, <1>2, <1>3, RequestServed
<1>4. CASE record' = Served(q) /\ late' = late /\ Go(b, otherwise, errorWord)
  BY <1>1, <1>2, <1>4, RequestServed
<1>5. CASE record' = record /\ late' = Delayed(q) /\ Go(b, otherwise, errorWord)
  <2>1. late' = late \/ (late' = late \cup {q} /\ Cardinality(late) < MaxLate)
    BY <1>5 DEF Delayed
  <2>2. IsFiniteSet(late') /\ Cardinality(late') <= MaxLate
    <3>1. CASE late' = late
      BY <1>2, <3>1
    <3>2. CASE late' = late \cup {q} /\ Cardinality(late) < MaxLate
      <4>1. /\ IsFiniteSet(late \cup {q})
            /\ Cardinality(late \cup {q}) \in {Cardinality(late), Cardinality(late) + 1}
        BY <1>2, FS_AddElement
      <4>2. Cardinality(late) \in Nat
        BY <1>2, FS_CardinalityType
      <4>. QED
        BY <1>2, <3>2, <4>1, <4>2
    <3>. QED
      BY <2>1, <3>1, <3>2
  <2>3. Journalled(q)
    BY <1>5, NothingServed
  <2>. QED
    BY <1>1, <1>5, <2>1, <2>2, <2>3
<1>. QED
  BY <1>3, <1>4, <1>5 DEF Ask

LEMMA JournalledKeeps ==
    ASSUME IInv, workspace' = workspace, seen' \in [Txns -> SUBSET Files], SeenGrows,
           NEW q \in QueryType, QueryOK(q), Journalled(q),
           q.op \in {"recover", "revert"} => record[q.txn].gen < MaxGen
    PROVE  \A t \in Txns : JournalOK(t)' /\ Evolves(t) /\ record'[t].gen <= MaxGen
BY FadingKeeps, ServingKeeps DEF Journalled

LEMMA AskKeeps ==
    ASSUME IInv, NEW b \in Tabs, NEW q \in QueryType, QueryOK(q),
           NEW next \in TabType, NEW otherwise \in TabType,
           NEW word \in Words \cup {""}, NEW errorWord \in Words \cup {""},
           Ask(b, q, next, word, otherwise, errorWord),
           word = "applied" => q.op = "receipt" /\ q.txn = tab[b].txn,
           errorWord # "applied",
           q.op \in {"recover", "revert"} => record[q.txn].gen < MaxGen,
           StateOK(otherwise), otherwise.at = NoFile, next.at = NoFile,
           Served1(q) => StateOK(next) \/ StateOK(next)'
    PROVE  IInv'
<1>1. /\ workspace' = workspace /\ disk' = disk /\ edits' = edits /\ seen' = seen
      /\ Journalled(q)
      /\ late' \subseteq late \cup {q}
      /\ IsFiniteSet(late') /\ Cardinality(late') <= MaxLate
      /\ \/ Served1(q) /\ late' = late /\ Go(b, next, word)
         \/ (record' = Served(q) \/ record' = record) /\ Go(b, otherwise, errorWord)
  BY Asked
<1>2. seen' \in [Txns -> SUBSET Files] /\ SeenGrows
  BY <1>1 DEF IInv, Types, SeenGrows
<1>3. \A t \in Txns : JournalOK(t)' /\ Evolves(t) /\ record'[t].gen <= MaxGen
  BY <1>1, <1>2, JournalledKeeps
<1>4. PICK w \in TabType, said \in Words \cup {""} :
         /\ Go(b, w, said) /\ w.at = NoFile /\ StateOK(w)'
         /\ said = "applied" => Served1(q) /\ said = word
  BY <1>1, <1>2, <1>3, StateStays
<1>5. /\ tab' \in [Tabs -> TabType] /\ tab'[b] = w
      /\ \A c \in Tabs \ {b} : tab'[c] = tab[c]
      /\ told' \in [Txns -> Words]
      /\ \A t \in Txns : told'[t] = told[t]
                         \/ (t = tab[b].txn /\ told'[t] = said /\ said # "")
  BY <1>4 DEF IInv, Types, Go
<1>6. Types'
  <2>1. late' \subseteq QueryType
    BY <1>1 DEF IInv, Types
  <2>2. record' \in [Txns -> RecordType]
    BY <1>1 DEF Journalled
  <2>. QED
    BY <1>1, <1>2, <1>3, <1>5, <2>1, <2>2, Constants DEF IInv, Types
<1>7. Real(disk)'
  BY <1>1, Constants DEF IInv, Real
<1>8. ASSUME NEW t \in Txns
      PROVE  told'[t] = told[t] \/ ToldOK(t)'
  <2>1. CASE t = tab[b].txn /\ told'[t] = said /\ said # "applied"
    BY <2>1 DEF ToldOK
  <2>2. CASE t = tab[b].txn /\ told'[t] = said /\ said = "applied"
    <3>1. t = q.txn /\ q.op = "receipt" /\ Serves(q, record[t], record'[t])
      BY <1>4, <2>2 DEF Served1
    <3>2. record'[t].status = "committed"
      BY <3>1 DEF Serves
    <3>. QED
      BY <3>2 DEF ToldOK, Applied
  <2>. QED
    BY <1>5, <2>1, <2>2
<1>9. \A p \in late' : p \in late \/ QueryOK(p)'
  <2>1. QueryOK(q)'
    BY <1>1, <1>2, <1>3, QueryStays DEF QueryType
  <2>. QED
    BY <1>1, <2>1
<1>10. StateOK(tab[b])' /\ TargetOK(tab[b])'
  <2>0. tab'[b] = w
    BY <1>5
  <2>1. StateOK(tab[b])'
    <3>1. StateOK(tab[b])' = StateOK(w)'
      BY <2>0 DEF StateOK, Real, OnlyCreates
    <3>. QED
      BY <1>4, <3>1
  <2>2. TargetOK(tab[b])'
    BY <1>4, <1>5 DEF TargetOK
  <2>. QED
    BY <2>1, <2>2
<1>. QED
  BY <1>1, <1>2, <1>3, <1>5, <1>6, <1>7, <1>8, <1>9, <1>10, Assembled

LEMMA RestIsFine ==
    ASSUME workspace \in Workspaces
    PROVE  Rest \in TabType /\ StateOK(Rest) /\ Rest.at = NoFile
<1>1. \A f \in Files : Rest.saw[f] \notin Txns
  BY Values, Basics
<1>2. Rest.wrote = {}
  BY DEF Rest
<1>. QED
  BY <1>1, <1>2, Values
     DEF StateOK, Real, WithoutJournal, NothingWritten, Savers, MayHaveWritten

LEMMA AtTypes ==
    ASSUME IInv, NEW b \in Tabs, NEW pc \in Pcs
    PROVE  /\ At(b, pc) \in TabType
           /\ At(b, pc).pc = pc /\ At(b, pc).at = NoFile /\ At(b, pc).left = Files
           /\ At(b, pc).txn = tab[b].txn /\ At(b, pc).gen = tab[b].gen
           /\ At(b, pc).wrote = tab[b].wrote /\ At(b, pc).saw = tab[b].saw
<1>1. PICK w \in TabType : w = tab[b]
  BY DEF IInv, Types
<1>2. PICK v : v = [w EXCEPT !.pc = pc, !.at = NoFile, !.left = Files]
  OBVIOUS
<1>3. /\ v \in TabType /\ v.pc = pc /\ v.at = NoFile /\ v.left = Files
      /\ v.txn = w.txn /\ v.gen = w.gen /\ v.wrote = w.wrote /\ v.saw = w.saw
  BY <1>2 DEF TabType
<1>4. At(b, pc) = v
  BY <1>1, <1>2 DEF At
<1>. QED
  BY <1>1, <1>3, <1>4

\* The tab goes on to another stage of the same transaction.
LEMMA StageIsFine ==
    ASSUME IInv, NEW b \in Tabs, NEW pc \in Pcs \ WithoutJournal,
           tab[b].pc \notin WithoutJournal,
           pc \in Savers => tab[b].pc \in Savers,
           pc \in NothingWritten => tab[b].pc \in NothingWritten,
           pc \in MayHaveWritten => record[tab[b].txn].backed,
           pc = "write" => tab[b].wrote \subseteq seen[tab[b].txn],
           pc \in {"verify", "remove"} => OnlyCreates(record[tab[b].txn])
    PROVE  At(b, pc) \in TabType /\ StateOK(At(b, pc)) /\ At(b, pc).at = NoFile
<1>1. StateOK(tab[b])
  BY DEF IInv
<1>. QED
  BY <1>1, AtTypes DEF StateOK

LEMMA RequestTypes ==
    ASSUME IInv, NEW b \in Tabs, tab[b].pc \notin WithoutJournal, NEW op \in Ops \ {"prepare"},
           NEW x \in Bytes, Real(x), op = "unresolved" => record[tab[b].txn].backed
    PROVE  /\ Request(b, op, x) \in QueryType /\ QueryOK(Request(b, op, x))
           /\ Request(b, op, x).op = op /\ Request(b, op, x).txn = tab[b].txn
           /\ Request(b, op, x).gen = tab[b].gen /\ Request(b, op, x).files = x
           /\ tab[b].txn \in Txns
<1>1. tab[b] \in TabType /\ StateOK(tab[b])
  BY DEF IInv, Types
<1>2. tab[b].txn # NoTxn /\ tab[b].txn \in Txns /\ tab[b].gen \in Nat
  BY <1>1 DEF StateOK, TabType
<1>3. /\ Request(b, op, x) = [op |-> op, txn |-> tab[b].txn, gen |-> tab[b].gen, files |-> x]
      /\ Request(b, op, x) \in QueryType
  BY <1>2 DEF Request, QueryType
<1>. QED
  BY <1>1, <1>2, <1>3 DEF QueryOK, StateOK

LEMMA PrepareKeeps ==
    ASSUME IInv, NEW b \in Tabs, NEW t \in Txns, Prepare(b, t)
    PROVE  IInv'
<1>1. PICK w \in TabType : w = tab[b] /\ StateOK(w) /\ w.pc = "prepare"
  BY DEF IInv, Types, Prepare
<1>2. PICK q \in QueryType :
         q = [op |-> "prepare", txn |-> t, gen |-> 0, files |-> w.saw]
  BY <1>1 DEF TabType, QueryType, Ops
<1>3. q.op = "prepare" /\ q.txn = t /\ q.files = w.saw
  BY <1>2
<1>4. w.at = NoFile /\ Real(w.saw) /\ w.wrote = {}
  BY <1>1 DEF StateOK, WithoutJournal
<1>5. QueryOK(q)
  BY <1>3, <1>4 DEF QueryOK
<1>6. PICK next : next = [w EXCEPT !.pc = "stage", !.txn = t, !.gen = 1]
  OBVIOUS
<1>7. /\ next \in TabType /\ next.pc = "stage" /\ next.txn = t
      /\ next.at = NoFile /\ next.saw = w.saw /\ next.wrote = w.wrote
  BY <1>1, <1>4, <1>6 DEF TabType, Pcs
<1>8. Ask(b, q, next, "", Rest, "")
  BY <1>1, <1>2, <1>6 DEF Prepare
<1>9. workspace' = workspace /\ seen' = seen /\ workspace \in Workspaces
  BY <1>8 DEF Ask, IInv, Types
<1>10. ASSUME Served1(q)
       PROVE  StateOK(next)'
  <2>1. record'[t].original = w.saw /\ record'[t].status = "preparing"
    BY <1>3, <1>10 DEF Served1, Serves
  <2>2. Real(next.saw)'
    BY <1>4, <1>7, <1>9, Constants DEF Real
  <2>3. t # NoTxn
    BY <1>9, Basics
  <2>. QED
    BY <1>4, <1>7, <2>1, <2>2, <2>3
       DEF StateOK, WithoutJournal, Savers, NothingWritten, MayHaveWritten
<1>11. Rest \in TabType /\ StateOK(Rest) /\ Rest.at = NoFile
  BY <1>9, RestIsFine
<1>. QED
  BY <1>3, <1>5, <1>7, <1>8, <1>10, <1>11, AskKeeps

LEMMA StageKeeps ==
    ASSUME IInv, NEW b \in Tabs, Stage(b)
    PROVE  IInv'
<1>1. tab[b] \in TabType /\ tab[b].pc = "stage" /\ StateOK(tab[b])
  BY DEF IInv, Types, Stage
<1>2. tab[b].pc \notin WithoutJournal /\ tab[b].pc \in NothingWritten \cap Savers
      /\ tab[b].saw \in Bytes /\ Real(tab[b].saw)
  BY <1>1 DEF WithoutJournal, NothingWritten, Savers, StateOK, TabType
<1>3. PICK q \in QueryType : q = Request(b, "authorize", tab[b].saw) /\ QueryOK(q)
                             /\ q.op = "authorize"
  BY <1>2, RequestTypes DEF Ops
<1>4. PICK v \in TabType : v = At(b, "recheck") /\ StateOK(v) /\ v.at = NoFile
  BY <1>2, StageIsFine DEF Pcs, WithoutJournal, NothingWritten, MayHaveWritten
<1>5. PICK w \in TabType : w = At(b, "giveup") /\ StateOK(w) /\ w.at = NoFile
  BY <1>2, StageIsFine DEF Pcs, WithoutJournal, NothingWritten, MayHaveWritten
<1>6. Ask(b, q, v, "", w, "")
  BY <1>3, <1>4, <1>5 DEF Stage
<1>. QED
  BY <1>3, <1>4, <1>5, <1>6, AskKeeps

LEMMA BeginCommitKeeps ==
    ASSUME IInv, NEW b \in Tabs, BeginCommit(b)
    PROVE  IInv'
<1>1. tab[b] \in TabType /\ tab[b].pc = "commit" /\ StateOK(tab[b])
  BY DEF IInv, Types, BeginCommit
<1>2. tab[b].pc \notin WithoutJournal /\ tab[b].pc \in NothingWritten \cap Savers
      /\ tab[b].saw \in Bytes /\ Real(tab[b].saw) /\ tab[b].wrote = {}
  BY <1>1 DEF WithoutJournal, NothingWritten, Savers, StateOK, TabType
<1>3. PICK q \in QueryType : q = Request(b, "commit", tab[b].saw) /\ QueryOK(q)
                             /\ q.op = "commit" /\ q.txn = tab[b].txn /\ q.txn \in Txns
  BY <1>2, RequestTypes DEF Ops
<1>4. PICK v \in TabType : v = At(b, "write") /\ v.at = NoFile
  BY AtTypes DEF Pcs
<1>5. PICK w \in TabType : w = At(b, "giveup") /\ StateOK(w) /\ w.at = NoFile
  BY <1>2, StageIsFine DEF Pcs, WithoutJournal, NothingWritten, MayHaveWritten
<1>6. Ask(b, q, v, "", w, "")
  BY <1>3, <1>4, <1>5 DEF BeginCommit
<1>7. ASSUME Served1(q)
      PROVE  StateOK(v)
  <2>1. record[q.txn].status = "authorized"
    BY <1>3, <1>7 DEF Served1, Serves
  <2>2. record[tab[b].txn].backed
    BY <1>3, <2>1 DEF IInv, JournalOK
  <2>. QED
    BY <1>2, <1>4, <2>2, StageIsFine DEF Pcs, WithoutJournal, NothingWritten, Savers
<1>. QED
  BY <1>3, <1>4, <1>5, <1>6, <1>7, AskKeeps

\* A last request, after which the tab rests in any case.
LEMMA LastRequest ==
    ASSUME IInv, NEW b \in Tabs, tab[b].pc \notin WithoutJournal, NEW op \in Ops \ {"prepare"},
           NEW x \in Bytes, Real(x), op = "unresolved" => record[tab[b].txn].backed,
           op \notin {"recover", "revert"},
           NEW word \in {"unchanged", "recovery", "undone"},
           Ask(b, Request(b, op, x), Rest, word, Rest, "recovery")
    PROVE  IInv'
<1>1. PICK q \in QueryType : q = Request(b, op, x) /\ QueryOK(q) /\ q.op = op
  BY RequestTypes
<1>2. PICK v \in TabType : v = Rest /\ StateOK(v) /\ v.at = NoFile
  BY RestIsFine DEF IInv, Types
<1>3. Ask(b, q, v, word, v, "recovery")
  BY <1>1, <1>2
<1>4. word \in Words \cup {""} /\ "recovery" \in Words \cup {""} /\ word # "applied"
  BY DEF Words
<1>. QED
  BY <1>1, <1>2, <1>3, <1>4, AskKeeps

LEMMA LastRequests ==
    ASSUME IInv, NEW b \in Tabs,
           GiveUp(b) \/ RollbackReceipt(b) \/ Unresolved(b) \/ RestoreReceipt(b)
    PROVE  IInv'
<1>1. tab[b] \in TabType /\ StateOK(tab[b])
  BY DEF IInv, Types
<1>2. tab[b].saw \in Bytes /\ Real(tab[b].saw)
  BY <1>1 DEF StateOK, TabType
<1>3. CASE GiveUp(b)
  <2>1. tab[b].pc \notin WithoutJournal
        /\ Ask(b, Request(b, "fail", tab[b].saw), Rest, "unchanged", Rest, "recovery")
    BY <1>3 DEF GiveUp, WithoutJournal
  <2>. QED
    BY <1>2, <2>1, LastRequest DEF Ops
<1>4. CASE RollbackReceipt(b)
  <2>1. tab[b].pc \notin WithoutJournal
        /\ Ask(b, Request(b, "rollback", tab[b].saw), Rest, "unchanged", Rest, "recovery")
    BY <1>4 DEF RollbackReceipt, WithoutJournal
  <2>. QED
    BY <1>2, <2>1, LastRequest DEF Ops
<1>5. CASE Unresolved(b)
  <2>1. tab[b].pc \notin WithoutJournal
        /\ Ask(b, Request(b, "unresolved", tab[b].saw), Rest, "recovery", Rest, "recovery")
    BY <1>5 DEF Unresolved, WithoutJournal
  <2>2. record[tab[b].txn].backed
    BY <1>1, <1>5
       DEF Unresolved, StateOK, MayHaveWritten, Pcs, WithoutJournal, NothingWritten
  <2>. QED
    BY <1>2, <2>1, <2>2, LastRequest DEF Ops
<1>6. CASE RestoreReceipt(b)
  <2>1. /\ tab[b].pc \notin WithoutJournal
        /\ Ask(b, Request(b, "rollback", record[tab[b].txn].original),
               Rest, "undone", Rest, "recovery")
    BY <1>6 DEF RestoreReceipt, WithoutJournal
  <2>2. tab[b].txn \in Txns
    BY <1>1, <2>1 DEF StateOK, TabType
  <2>3. record[tab[b].txn].original \in Bytes /\ Real(record[tab[b].txn].original)
    BY <2>2 DEF IInv, Types, JournalOK, RecordType
  <2>. QED
    BY <2>1, <2>3, LastRequest DEF Ops
<1>. QED
  BY <1>3, <1>4, <1>5, <1>6

LEMMA ReceiptKeeps ==
    ASSUME IInv, NEW b \in Tabs, Receipt(b)
    PROVE  IInv'
<1>. DEFINE x == IF tab[b].pc = "write" THEN Final(b) ELSE tab[b].saw
<1>1. tab[b] \in TabType /\ StateOK(tab[b]) /\ tab[b].pc \in {"write", "complete"}
      /\ (tab[b].pc = "write" => tab[b].wrote = Files)
      /\ Ask(b, Request(b, "receipt", x), Rest, "applied", At(b, "confirm"), "")
  BY DEF IInv, Types, Receipt
<1>2. tab[b].pc \notin WithoutJournal /\ tab[b].pc \in MayHaveWritten
      /\ tab[b].saw \in Bytes /\ Real(tab[b].saw) /\ tab[b].txn \in Txns
  BY <1>1 DEF WithoutJournal, NothingWritten, MayHaveWritten, Pcs, StateOK, TabType
<1>3. x \in Bytes /\ Real(x)
  <2>1. CASE tab[b].pc = "write"
    <3>1. x = [f \in Files |-> tab[b].txn]
      BY <2>1 DEF Final
    <3>2. Files \subseteq seen[tab[b].txn]
      BY <1>1, <2>1 DEF StateOK
    <3>. HIDE DEF x
    <3>. QED
      BY <1>2, <3>1, <3>2 DEF Bytes, Content, Real
  <2>. QED
    BY <1>1, <1>2, <2>1
<1>. HIDE DEF x
<1>4. PICK q \in QueryType : q = Request(b, "receipt", x) /\ QueryOK(q)
                             /\ q.op = "receipt" /\ q.txn = tab[b].txn
  BY <1>2, <1>3, RequestTypes DEF Ops
<1>5. PICK v \in TabType : v = Rest /\ StateOK(v) /\ v.at = NoFile
  BY RestIsFine DEF IInv, Types
<1>6. record[tab[b].txn].backed
  BY <1>1, <1>2 DEF StateOK
<1>7. PICK w \in TabType : w = At(b, "confirm") /\ StateOK(w) /\ w.at = NoFile
  BY <1>2, <1>6, StageIsFine DEF Pcs, WithoutJournal, NothingWritten, Savers
<1>8. Ask(b, q, v, "applied", w, "")
  BY <1>1, <1>4, <1>5, <1>7
<1>9. "applied" \in Words \cup {""} /\ "" \in Words \cup {""}
  BY DEF Words
<1>. QED
  BY <1>4, <1>5, <1>7, <1>8, <1>9, AskKeeps

LEMMA UnconfirmedKeeps ==
    ASSUME IInv, NEW b \in Tabs, Unconfirmed(b)
    PROVE  IInv'
<1>1. tab[b] \in TabType /\ StateOK(tab[b]) /\ tab[b].pc = "unconfirmed"
      /\ disk \in Bytes /\ Real(disk)
  BY DEF IInv, Types, Unconfirmed
<1>2. tab[b].pc \notin WithoutJournal /\ record[tab[b].txn].backed
  BY <1>1 DEF WithoutJournal, NothingWritten, MayHaveWritten, Pcs, StateOK
<1>3. PICK q \in QueryType : q = Request(b, "unresolved", disk) /\ QueryOK(q)
                             /\ q.op = "unresolved"
  BY <1>1, <1>2, RequestTypes DEF Ops
<1>4. PICK v \in TabType : v = Rest /\ StateOK(v) /\ v.at = NoFile
  BY RestIsFine DEF IInv, Types
<1>5. PICK w \in TabType : w = At(b, "reconfirm") /\ StateOK(w) /\ w.at = NoFile
  BY <1>2, StageIsFine DEF Pcs, WithoutJournal, NothingWritten, Savers
<1>6. Ask(b, q, v, "recovery", w, "")
  BY <1>3, <1>4, <1>5 DEF Unconfirmed
<1>7. "recovery" \in Words \cup {""} /\ "" \in Words \cup {""}
  BY DEF Words
<1>. QED
  BY <1>3, <1>4, <1>5, <1>6, <1>7, AskKeeps

\* The stage with new credentials that follows an accepted recover or revert.
Renewed(b, pc, n) == [At(b, pc) EXCEPT !.gen = n]

LEMMA RenewedTypes ==
    ASSUME IInv, NEW b \in Tabs, NEW pc \in Pcs, NEW n \in Nat
    PROVE  LET v == At(b, pc)
               w == Renewed(b, pc, n)
           IN  /\ w \in TabType /\ w.pc = pc /\ w.at = NoFile /\ w.left = Files /\ w.gen = n
               /\ w.txn = tab[b].txn /\ w.saw = tab[b].saw
               /\ StateOK(v) => StateOK(w)
<1>1. PICK v \in TabType : v = At(b, pc) /\ v.pc = pc /\ v.at = NoFile /\ v.left = Files
                           /\ v.txn = tab[b].txn /\ v.saw = tab[b].saw
  BY AtTypes
<1>2. PICK w : w = [v EXCEPT !.gen = n]
  OBVIOUS
<1>3. /\ w \in TabType /\ w.pc = pc /\ w.at = NoFile /\ w.left = Files /\ w.gen = n
      /\ w.txn = v.txn /\ w.saw = v.saw /\ w.wrote = v.wrote
  BY <1>1, <1>2 DEF TabType
<1>4. StateOK(v) => StateOK(w)
  BY <1>1, <1>3 DEF StateOK
<1>5. Renewed(b, pc, n) = w
  BY <1>1, <1>2 DEF Renewed
<1>. QED
  BY <1>1, <1>3, <1>4, <1>5

LEMMA RecoverKeeps ==
    ASSUME IInv, NEW b \in Tabs, Recover(b)
    PROVE  IInv'
<1>1. tab[b] \in TabType /\ StateOK(tab[b]) /\ tab[b].pc \in {"unwind", "resume"}
      /\ disk \in Bytes /\ Real(disk) /\ record[tab[b].txn].gen < MaxGen
  BY DEF IInv, Types, Recover
<1>2. tab[b].pc \notin WithoutJournal /\ record[tab[b].txn].backed
  BY <1>1 DEF WithoutJournal, NothingWritten, MayHaveWritten, Pcs, StateOK
<1>3. PICK q \in QueryType : q = Request(b, "recover", disk) /\ QueryOK(q)
                             /\ q.op = "recover" /\ q.txn = tab[b].txn /\ q.txn \in Txns
  BY <1>1, <1>2, RequestTypes DEF Ops
<1>4. PICK n \in Nat : n = record[tab[b].txn].gen + 1
  BY <1>3 DEF IInv, Types, RecordType
<1>5. PICK pc \in {"complete", "restore"} :
         pc = IF tab[b].pc = "resume" THEN "complete" ELSE "restore"
  OBVIOUS
<1>6. StateOK(At(b, pc))
  BY <1>2, StageIsFine DEF Pcs, WithoutJournal, NothingWritten, Savers
<1>7. PICK v \in TabType : v = Renewed(b, pc, n) /\ v.at = NoFile /\ StateOK(v)
  BY <1>6, RenewedTypes DEF Pcs
<1>8. PICK w \in TabType : w = Rest /\ StateOK(w) /\ w.at = NoFile
  BY RestIsFine DEF IInv, Types
<1>9. Ask(b, q, v, "", w, "")
  BY <1>3, <1>4, <1>5, <1>7, <1>8 DEF Recover, Renewed
<1>. QED
  BY <1>1, <1>3, <1>7, <1>8, <1>9, AskKeeps

LEMMA RevertKeeps ==
    ASSUME IInv, NEW b \in Tabs, Revert(b)
    PROVE  IInv'
<1>1. tab[b] \in TabType /\ StateOK(tab[b]) /\ tab[b].pc = "revert"
      /\ disk \in Bytes /\ Real(disk) /\ record[tab[b].txn].gen < MaxGen
  BY DEF IInv, Types, Revert
<1>2. tab[b].pc \notin WithoutJournal /\ record[tab[b].txn].backed
  BY <1>1 DEF WithoutJournal, NothingWritten, MayHaveWritten, Pcs, StateOK
<1>3. PICK q \in QueryType : q = Request(b, "revert", disk) /\ QueryOK(q)
                             /\ q.op = "revert" /\ q.txn = tab[b].txn /\ q.txn \in Txns
  BY <1>1, <1>2, RequestTypes DEF Ops
<1>4. PICK n \in Nat : n = record[tab[b].txn].gen + 1
  BY <1>3 DEF IInv, Types, RecordType
<1>5. ASSUME Served1(q)
      PROVE  StateOK(At(b, "verify"))
  <2>1. OnlyCreates(record[tab[b].txn])
    BY <1>3, <1>5 DEF Served1, Serves
  <2>. QED
    BY <1>2, <2>1, StageIsFine DEF Pcs, WithoutJournal, NothingWritten, Savers
<1>6. PICK v \in TabType : /\ v = Renewed(b, "verify", n) /\ v.at = NoFile
                           /\ StateOK(At(b, "verify")) => StateOK(v)
  BY RenewedTypes DEF Pcs
<1>7. PICK w \in TabType : w = Rest /\ StateOK(w) /\ w.at = NoFile
  BY RestIsFine DEF IInv, Types
<1>8. Ask(b, q, v, "", w, "")
  BY <1>3, <1>4, <1>6, <1>7 DEF Revert, Renewed
<1>. QED
  BY <1>1, <1>3, <1>5, <1>6, <1>7, <1>8, AskKeeps

LEMMA DeliverKeeps ==
    ASSUME IInv, NEW q \in late, Deliver(q)
    PROVE  IInv'
<1>1. /\ workspace' = workspace /\ disk' = disk /\ edits' = edits /\ seen' = seen
      /\ tab' = tab /\ told' = told /\ late' = late \ {q} /\ record' = Served(q)
      /\ q.op \in {"recover", "revert"} => record[q.txn].gen < MaxGen
  BY DEF Deliver
<1>2. q \in QueryType /\ QueryOK(q)
  BY DEF IInv, Types
<1>3. Journalled(q)
  BY <1>1, <1>2, RequestServed
<1>4. seen' \in [Txns -> SUBSET Files] /\ SeenGrows
  BY <1>1 DEF IInv, Types, SeenGrows
<1>5. \A t \in Txns : JournalOK(t)' /\ Evolves(t) /\ record'[t].gen <= MaxGen
  BY <1>1, <1>2, <1>3, <1>4, JournalledKeeps
<1>6. IsFiniteSet(late') /\ Cardinality(late') <= MaxLate
  <2>1. IsFiniteSet(late) /\ Cardinality(late) <= MaxLate /\ MaxLate \in Nat
    BY Basics DEF IInv, Types
  <2>2. IsFiniteSet(late') /\ Cardinality(late') <= Cardinality(late)
    BY <1>1, <2>1, FS_Subset
  <2>3. Cardinality(late) \in Nat /\ Cardinality(late') \in Nat
    BY <2>1, <2>2, FS_CardinalityType
  <2>. QED
    BY <2>1, <2>2, <2>3
<1>7. Types'
  <2>1. record' \in [Txns -> RecordType]
    BY <1>3 DEF Journalled
  <2>. QED
    BY <1>1, <1>4, <1>5, <1>6, <2>1, Constants DEF IInv, Types
<1>8. Real(disk)'
  BY <1>1, Constants DEF IInv, Real
<1>. QED
  BY <1>1, <1>4, <1>5, <1>7, <1>8, Assembled

-----------------------------------------------------------------------------
(* A tab acts by itself, and others on the folder.                         *)

LEMMA RecordSame ==
    ASSUME IInv, workspace' = workspace, record' = record,
           seen' \in [Txns -> SUBSET Files], SeenGrows
    PROVE  \A t \in Txns : JournalOK(t)' /\ Evolves(t) /\ record'[t].gen <= MaxGen
<1>1. \A t \in Txns : Fades(record[t], record'[t])
  BY DEF IInv, Types, Fades
<1>. QED
  BY <1>1, FadingKeeps

\* A tab moves to w, and the folder with it.
LEMMA MoveKeeps ==
    ASSUME IInv, NEW b \in Tabs, NEW w \in TabType,
           UNCHANGED <<workspace, edits, record, late>>,
           disk' \in Bytes, Real(disk)', seen' \in [Txns -> SUBSET Files], SeenGrows,
           tab' = [tab EXCEPT ![b] = w],
           told' \in [Txns -> Words], \A t \in Txns : told'[t] = told[t] \/ ToldOK(t)',
           StateOK(w)', TargetOK(w)',
           \A f \in Files : disk'[f] = disk[f] \/ Replaceable(f)
    PROVE  IInv'
<1>1. \A t \in Txns : JournalOK(t)' /\ Evolves(t) /\ record'[t].gen <= MaxGen
  BY RecordSame
<1>2. /\ tab' \in [Tabs -> TabType] /\ tab'[b] = w
      /\ \A c \in Tabs \ {b} : tab'[c] = tab[c]
  BY DEF IInv, Types
<1>3. Types'
  BY <1>1, <1>2, Constants DEF IInv, Types
<1>4. StateOK(tab[b])' /\ TargetOK(tab[b])'
  <2>1. StateOK(tab[b])' = StateOK(w)'
    BY <1>2 DEF StateOK, Real, OnlyCreates
  <2>2. TargetOK(tab[b])' = TargetOK(w)'
    BY <1>2 DEF TargetOK, Kept
  <2>. QED
    BY <2>1, <2>2
<1>5. \A c \in Tabs : tab[c].at # NoFile => tab[c].at \in Files
  BY DEF IInv, Types, TabType
<1>. QED
  BY <1>1, <1>2, <1>3, <1>4, <1>5, Assembled

\* A tab moves to w and says a word, and nothing else changes.
LEMMA GoKeeps ==
    ASSUME IInv, NEW b \in Tabs, NEW w \in TabType,
           UNCHANGED <<workspace, disk, edits, record, late, seen>>,
           tab' = [tab EXCEPT ![b] = w], StateOK(w), TargetOK(w),
           \/ told' = told
           \/ \E word \in Words :
                 /\ told' = [told EXCEPT ![tab[b].txn] = word]
                 /\ word = "applied" => record[tab[b].txn].status = "committed"
    PROVE  IInv'
<1>1. seen' \in [Txns -> SUBSET Files] /\ SeenGrows /\ disk' \in Bytes /\ Real(disk)'
  BY Constants DEF IInv, Types, SeenGrows, Real
<1>2. told' \in [Txns -> Words]
  BY DEF IInv, Types
<1>3. ASSUME NEW t \in Txns
      PROVE  told'[t] = told[t] \/ ToldOK(t)'
  <2>1. CASE told' = told
    BY <2>1
  <2>2. ASSUME NEW word \in Words, told' = [told EXCEPT ![tab[b].txn] = word],
               word = "applied" => record[tab[b].txn].status = "committed"
        PROVE  told'[t] = told[t] \/ ToldOK(t)'
    BY <2>2 DEF IInv, Types, ToldOK, Applied
  <2>. QED
    BY <2>1, <2>2
<1>4. \A t \in Txns : Evolves(t)
  BY <1>1, RecordSame
<1>5. StateOK(w)'
  BY <1>1, <1>4, StateStays
<1>6. TargetOK(w)'
  BY Constants DEF TargetOK, Kept
<1>. QED
  BY <1>1, <1>2, <1>3, <1>5, <1>6, MoveKeeps

\* Without a file in hand there is nothing to be replaced.
LEMMA NoTarget ==
    ASSUME NEW w, w.at = NoFile
    PROVE  TargetOK(w)
BY DEF TargetOK

LEMMA StartSaveKeeps ==
    ASSUME IInv, NEW b \in Tabs, StartSave(b)
    PROVE  IInv'
<1>1. PICK w : w = [Rest EXCEPT !.pc = "prepare", !.saw = disk]
  OBVIOUS
<1>2. Rest \in TabType /\ disk \in Bytes /\ Real(disk)
  BY Values DEF IInv, Types
<1>3. /\ w \in TabType /\ w.pc = "prepare" /\ w.txn = Rest.txn /\ w.at = Rest.at
      /\ w.wrote = Rest.wrote /\ w.saw = disk
  BY <1>1, <1>2 DEF TabType, Pcs
<1>4. Rest.txn = NoTxn /\ Rest.at = NoFile /\ Rest.wrote = {}
  BY DEF Rest
<1>5. StateOK(w)
  BY <1>2, <1>3, <1>4 DEF StateOK, WithoutJournal, NothingWritten, Savers, MayHaveWritten
<1>6. TargetOK(w)
  BY <1>3, <1>4, NoTarget
<1>7. UNCHANGED <<workspace, disk, edits, record, late, seen>> /\ told' = told
      /\ tab' = [tab EXCEPT ![b] = w]
  BY <1>1 DEF StartSave
<1>. QED
  BY <1>3, <1>5, <1>6, <1>7, GoKeeps

\* The six actions that end in Go: a tab moves on after a look at something.
Moves(b, pc, word) ==
    /\ UNCHANGED <<workspace, disk, edits, record, late, seen>>
    /\ Go(b, At(b, pc), word)

LEMMA MovesKeep ==
    ASSUME IInv, NEW b \in Tabs, NEW pc \in Pcs \ WithoutJournal, Moves(b, pc, ""),
           StateOK(At(b, pc))
    PROVE  IInv'
<1>1. PICK w \in TabType : w = At(b, pc) /\ w.at = NoFile /\ StateOK(w)
  BY AtTypes
<1>2. TargetOK(w)
  BY <1>1, NoTarget
<1>3. tab' = [tab EXCEPT ![b] = w] /\ told' = told
  BY <1>1 DEF Moves, Go
<1>. QED
  BY <1>1, <1>2, <1>3, GoKeeps DEF Moves

LEMMA EndKeeps ==
    ASSUME IInv, NEW b \in Tabs,
           UNCHANGED <<workspace, disk, edits, record, late, seen>>,
           \/ tab' = [tab EXCEPT ![b] = Rest] /\ told' = told
           \/ \E word \in Words : /\ Go(b, Rest, word)
                                  /\ word = "applied" => record[tab[b].txn].status = "committed"
           \/ Go(b, Rest, "")
    PROVE  IInv'
<1>1. PICK w \in TabType : w = Rest /\ StateOK(w) /\ w.at = NoFile
  BY RestIsFine DEF IInv, Types
<1>2. TargetOK(w)
  BY <1>1, NoTarget
<1>3. tab' = [tab EXCEPT ![b] = w]
  BY <1>1 DEF Go
<1>4. \/ told' = told
      \/ \E word \in Words :
            /\ told' = [told EXCEPT ![tab[b].txn] = word]
            /\ word = "applied" => record[tab[b].txn].status = "committed"
  <2>1. CASE \E word \in Words : /\ Go(b, Rest, word)
                                 /\ word = "applied" => record[tab[b].txn].status = "committed"
    BY <2>1 DEF Go, Words
  <2>2. CASE Go(b, Rest, "")
    BY <2>2 DEF Go
  <2>. QED
    BY <2>1, <2>2
<1>. QED
  BY <1>1, <1>2, <1>3, <1>4, GoKeeps

LEMMA LooksKeep ==
    ASSUME IInv, NEW b \in Tabs,
           \/ Recheck(b) \/ Confirm(b) \/ Reconfirm(b) \/ Inspect(b)
           \/ RestoreFails(b) \/ VerifyUndo(b) \/ TabGone(b)
    PROVE  IInv'
<1>1. StateOK(tab[b])
  BY DEF IInv
<1>. USE DEF Pcs, WithoutJournal, NothingWritten, Savers
<1>2. CASE Recheck(b)
  <2>1. PICK pc \in {"commit", "giveup"} : Moves(b, pc, "")
    BY <1>2 DEF Recheck, Moves
  <2>2. tab[b].pc = "recheck"
    BY <1>2 DEF Recheck
  <2>3. StateOK(At(b, pc))
    BY <2>2, StageIsFine DEF MayHaveWritten
  <2>. QED
    BY <2>1, <2>3, MovesKeep
<1>3. CASE Confirm(b)
  <2>1. tab[b].pc = "confirm" /\ UNCHANGED <<workspace, disk, edits, record, late, seen>>
    BY <1>3 DEF Confirm
  <2>2. CASE Go(b, Rest, "recovery")
    BY <2>1, <2>2, EndKeeps DEF Words
  <2>3. CASE record[tab[b].txn].status = "committed" /\ Go(b, Rest, "applied")
    BY <2>1, <2>3, EndKeeps DEF Words
  <2>4. CASE Go(b, At(b, "unconfirmed"), "")
    <3>1. record[tab[b].txn].backed
      BY <1>1, <2>1 DEF StateOK, MayHaveWritten
    <3>2. StateOK(At(b, "unconfirmed"))
      BY <2>1, <3>1, StageIsFine
    <3>. QED
      BY <2>1, <2>4, <3>2, MovesKeep DEF Moves
  <2>. QED
    BY <1>3, <2>2, <2>3, <2>4 DEF Confirm
<1>4. CASE Reconfirm(b)
  <2>1. UNCHANGED <<workspace, disk, edits, record, late, seen>>
    BY <1>4 DEF Reconfirm
  <2>2. CASE Go(b, Rest, "recovery")
    BY <2>1, <2>2, EndKeeps DEF Words
  <2>3. CASE record[tab[b].txn].status = "committed" /\ Go(b, Rest, "applied")
    BY <2>1, <2>3, EndKeeps DEF Words
  <2>. QED
    BY <1>4, <2>2, <2>3 DEF Reconfirm
<1>5. CASE Inspect(b)
  <2>1. PICK pc \in {"rollback", "unresolved"} : Moves(b, pc, "")
    BY <1>5 DEF Inspect, Moves
  <2>2. tab[b].pc = "undo"
    BY <1>5 DEF Inspect
  <2>3. record[tab[b].txn].backed
    BY <1>1, <2>2 DEF StateOK, MayHaveWritten
  <2>4. StateOK(At(b, pc))
    BY <2>2, <2>3, StageIsFine
  <2>. QED
    BY <2>1, <2>4, MovesKeep
<1>6. CASE RestoreFails(b)
  BY <1>6, EndKeeps DEF RestoreFails
<1>7. CASE VerifyUndo(b)
  <2>1. tab[b].pc = "verify" /\ UNCHANGED <<workspace, disk, edits, record, late, seen>>
    BY <1>7 DEF VerifyUndo
  <2>2. CASE Go(b, At(b, "remove"), "")
    <3>1. record[tab[b].txn].backed /\ OnlyCreates(record[tab[b].txn])
      BY <1>1, <2>1 DEF StateOK, MayHaveWritten
    <3>2. StateOK(At(b, "remove"))
      BY <2>1, <3>1, StageIsFine
    <3>. QED
      BY <2>1, <2>2, <3>2, MovesKeep DEF Moves
  <2>3. CASE Go(b, Rest, "")
    BY <2>1, <2>3, EndKeeps
  <2>. QED
    BY <1>7, <2>2, <2>3 DEF VerifyUndo
<1>8. CASE TabGone(b)
  BY <1>8, EndKeeps DEF TabGone
<1>. QED
  BY <1>2, <1>3, <1>4, <1>5, <1>6, <1>7, <1>8

LEMMA OpenHistoryKeeps ==
    ASSUME IInv, NEW b \in Tabs, NEW t \in Txns, InspectRecovery(b, t) \/ StartUndo(b, t)
    PROVE  IInv'
<1>1. t # NoTxn /\ Rest \in TabType /\ Rest.wrote = {} /\ Rest.at = NoFile /\ StateOK(Rest)
  BY Basics, RestIsFine DEF IInv, Types, Rest
<1>2. disk \in Bytes /\ Real(disk) /\ JournalOK(t) /\ record[t] \in RecordType
  BY DEF IInv, Types
<1>3. UnconfirmedNativeCreation(record[t]) \in BOOLEAN
  BY DEF UnconfirmedNativeCreation
<1>4. CASE InspectRecovery(b, t)
  <2>1. PICK pc \in {"unwind", "resume"}, d \in BOOLEAN :
           tab' = [tab EXCEPT ![b] = [Rest EXCEPT !.pc = pc, !.txn = t, !.saw = disk,
                                                  !.unconfirmed = d]]
    BY <1>3, <1>4 DEF InspectRecovery
  <2>2. PICK w : w = [Rest EXCEPT !.pc = pc, !.txn = t, !.saw = disk, !.unconfirmed = d]
    OBVIOUS
  <2>3. /\ w \in TabType /\ w.pc = pc /\ w.txn = t /\ w.at = Rest.at
        /\ w.wrote = Rest.wrote /\ w.saw = disk
    BY <1>1, <1>2, <2>2 DEF TabType, Pcs
  <2>4. record[t].backed /\ record[t].status # "none"
    BY <1>2, <1>4 DEF InspectRecovery, JournalOK
  <2>5. StateOK(w)
    BY <1>1, <1>2, <2>3, <2>4 DEF StateOK, WithoutJournal, NothingWritten, Savers
  <2>6. UNCHANGED <<workspace, disk, edits, record, late, seen>> /\ told' = told
        /\ tab' = [tab EXCEPT ![b] = w]
    BY <1>4, <2>1, <2>2 DEF InspectRecovery
  <2>7. TargetOK(w)
    BY <1>1, <2>3, NoTarget
  <2>. QED
    BY <2>3, <2>5, <2>6, <2>7, GoKeeps
<1>5. CASE StartUndo(b, t)
  <2>1. PICK w : w = [Rest EXCEPT !.pc = "revert", !.txn = t]
    OBVIOUS
  <2>2. /\ w \in TabType /\ w.pc = "revert" /\ w.txn = t /\ w.at = Rest.at
        /\ w.wrote = Rest.wrote /\ w.saw = Rest.saw
    BY <1>1, <2>1 DEF TabType, Pcs
  <2>3. record[t].backed /\ record[t].status # "none"
    BY <1>2, <1>5 DEF StartUndo, JournalOK
  <2>4. StateOK(w)
    BY <1>1, <2>2, <2>3 DEF StateOK, WithoutJournal, NothingWritten, Savers
  <2>5. UNCHANGED <<workspace, disk, edits, record, late, seen>> /\ told' = told
        /\ tab' = [tab EXCEPT ![b] = w]
    BY <1>5, <2>1 DEF StartUndo
  <2>6. TargetOK(w)
    BY <1>1, <2>2, NoTarget
  <2>. QED
    BY <2>2, <2>4, <2>5, <2>6, GoKeeps
<1>. QED
  BY <1>4, <1>5

\* The same stage, with another file in hand or others left.
Handling(b, f, L) == [tab[b] EXCEPT !.at = f, !.left = L]

LEMMA SameStage ==
    ASSUME IInv, NEW b \in Tabs, NEW f \in Files \cup {NoFile}, NEW L \in SUBSET Files,
           f # NoFile => tab[b].pc \in {"write", "undo", "restore", "remove"}
    PROVE  LET w == Handling(b, f, L)
           IN  /\ w \in TabType /\ StateOK(w) /\ w.at = f /\ w.left = L
               /\ w.pc = tab[b].pc /\ w.txn = tab[b].txn /\ w.gen = tab[b].gen
               /\ w.saw = tab[b].saw /\ w.wrote = tab[b].wrote
<1>1. PICK v \in TabType : v = tab[b] /\ StateOK(v)
  BY DEF IInv, Types
<1>2. PICK w : w = [v EXCEPT !.at = f, !.left = L]
  OBVIOUS
<1>3. /\ w \in TabType /\ w.at = f /\ w.left = L /\ w.pc = v.pc /\ w.txn = v.txn
      /\ w.gen = v.gen /\ w.saw = v.saw /\ w.wrote = v.wrote
  BY <1>2 DEF TabType
<1>4. StateOK(w)
  BY <1>1, <1>3 DEF StateOK
<1>5. w = Handling(b, f, L)
  BY <1>1, <1>2 DEF Handling
<1>. QED
  BY <1>1, <1>3, <1>4, <1>5

\* How the actions write it.
LEMMA HandlingForms ==
    ASSUME IInv, NEW b \in Tabs, NEW g
    PROVE  /\ [tab[b] EXCEPT !.at = NoFile] = Handling(b, NoFile, tab[b].left)
           /\ [tab[b] EXCEPT !.left = tab[b].left \ {g}] =
                 Handling(b, tab[b].at, tab[b].left \ {g})
           /\ [tab[b] EXCEPT !.at = g, !.left = tab[b].left \ {g}] =
                 Handling(b, g, tab[b].left \ {g})
           /\ tab[b].left \in SUBSET Files /\ tab[b].at \in Files \cup {NoFile}
<1>1. tab[b] \in TabType
  BY DEF IInv, Types
<1>. QED
  BY <1>1 DEF TabType, Handling

LEMMA Puts ==
    ASSUME IInv, NEW b \in Tabs, tab' = [tab EXCEPT ![b] = [@ EXCEPT !.at = NoFile]]
    PROVE  tab' = [tab EXCEPT ![b] = Handling(b, NoFile, tab[b].left)]
BY HandlingForms

LEMMA Drops ==
    ASSUME IInv, NEW b \in Tabs, NEW g, tab[b].at = NoFile,
           tab' = [tab EXCEPT ![b] = [@ EXCEPT !.left = tab[b].left \ {g}]]
    PROVE  tab' = [tab EXCEPT ![b] = Handling(b, NoFile, tab[b].left \ {g})]
BY HandlingForms

LEMMA Takes ==
    ASSUME IInv, NEW b \in Tabs, NEW g,
           tab' = [tab EXCEPT ![b] = [@ EXCEPT !.at = g, !.left = tab[b].left \ {g}]]
    PROVE  tab' = [tab EXCEPT ![b] = Handling(b, g, tab[b].left \ {g})]
BY HandlingForms

LEMMA SkipsKeep ==
    ASSUME IInv, NEW b \in Tabs, UndoFails(b) \/ \E f \in Files : RestoreSkip(b, f)
    PROVE  IInv'
<1>1. tab[b].left \in SUBSET Files
  BY HandlingForms
<1>2. PICK L \in SUBSET Files : tab' = [tab EXCEPT ![b] = Handling(b, NoFile, L)]
  <2>1. CASE tab' = [tab EXCEPT ![b] = [@ EXCEPT !.at = NoFile]]
    BY <1>1, <2>1, Puts
  <2>2. ASSUME NEW g, tab[b].at = NoFile,
               tab' = [tab EXCEPT ![b] = [@ EXCEPT !.left = tab[b].left \ {g}]]
        PROVE  \E L \in SUBSET Files : tab' = [tab EXCEPT ![b] = Handling(b, NoFile, L)]
    BY <1>1, <2>2, Drops
  <2>. QED
    BY <2>1, <2>2 DEF UndoFails, RestoreSkip
<1>3. PICK w \in TabType : w = Handling(b, NoFile, L) /\ StateOK(w) /\ w.at = NoFile
  BY SameStage
<1>4. TargetOK(w)
  BY <1>3, NoTarget
<1>5. UNCHANGED <<workspace, disk, edits, record, late, seen>> /\ told' = told
  BY DEF UndoFails, RestoreSkip
<1>. QED
  BY <1>2, <1>3, <1>4, <1>5, GoKeeps

\* The bytes x are a save's own, or some backup holds those of f.
Expendable(f, x) == \/ x \in {"absent", "empty"} \cup Txns
                    \/ \E t \in Txns : record[t].backed /\ record[t].original[f] = x

LEMMA CheckKeeps ==
    ASSUME IInv, NEW b \in Tabs, NEW f \in Files, NEW expected, NEW pc,
           pc \in {"write", "undo", "restore", "remove"}, Check(b, f, pc, expected),
           pc # "restore" \/ Native => Expendable(f, expected)
    PROVE  IInv'
<1>1. PICK L \in SUBSET Files : tab' = [tab EXCEPT ![b] = Handling(b, f, L)]
  <2>1. tab[b].left \in SUBSET Files
    BY HandlingForms
  <2>. QED
    BY <2>1, Takes DEF Check
<1>2. PICK w \in TabType : /\ w = Handling(b, f, L) /\ StateOK(w)
                           /\ w.at = f /\ w.pc = pc
  BY SameStage DEF Check
<1>3. /\ UNCHANGED <<workspace, edits, record, late, told, seen>>
      /\ disk[f] = expected /\ disk \in Bytes
      /\ disk' = IF expected = "absent" THEN [disk EXCEPT ![f] = "empty"] ELSE disk
  BY DEF Check, IInv, Types
<1>4. seen' \in [Txns -> SUBSET Files] /\ SeenGrows /\ told' \in [Txns -> Words]
  BY <1>3 DEF IInv, Types, SeenGrows
<1>5. \A g \in Files : disk'[g] = disk[g] \/ (g = f /\ expected = "absent" /\ disk'[g] = "empty")
  BY <1>3 DEF Bytes
<1>6. disk' \in Bytes
  BY <1>3 DEF Bytes, Content
<1>7. Real(disk)'
  BY <1>3, <1>5, Constants, Basics DEF IInv, Types, Real
<1>8. \A t \in Txns : Evolves(t)
  BY <1>3, <1>4, RecordSame
<1>9. StateOK(w)'
  BY <1>2, <1>3, <1>4, <1>8, StateStays
<1>10. TargetOK(w)'
  <2>1. SUFFICES ASSUME pc # "restore" \/ Native
                 PROVE  Kept(f)'
    BY <1>2, <1>3, Constants DEF TargetOK
  <2>2. Expendable(f, expected)
    BY <2>1
  <2>3. CASE expected = "absent"
    BY <1>3, <2>3 DEF Kept, Bytes
  <2>4. CASE expected # "absent"
    BY <1>3, <2>2, <2>4, Constants DEF Kept, Expendable
  <2>. QED
    BY <2>3, <2>4
<1>. QED
  BY <1>1, <1>2, <1>3, <1>4, <1>5, <1>6, <1>7, <1>9, <1>10, MoveKeeps DEF Replaceable

LEMMA ChecksKeep ==
    ASSUME IInv, NEW b \in Tabs, NEW f \in Files,
           WriteCheck(b, f) \/ UndoCheck(b, f) \/ RestoreCheck(b, f)
    PROVE  IInv'
<1>1. tab[b] \in TabType /\ StateOK(tab[b])
  BY DEF IInv, Types
<1>2. ASSUME tab[b].pc \in {"write", "undo", "restore", "remove"}
      PROVE  tab[b].txn \in Txns /\ record[tab[b].txn].backed
  BY <1>1, <1>2
     DEF StateOK, TabType, WithoutJournal, MayHaveWritten, NothingWritten, Pcs
<1>3. CASE WriteCheck(b, f)
  <2>1. tab[b].pc = "write" /\ Check(b, f, "write", tab[b].saw[f])
    BY <1>3 DEF WriteCheck, Check
  <2>2. record[tab[b].txn].original = tab[b].saw
    BY <1>1, <2>1 DEF StateOK, Savers
  <2>3. Expendable(f, tab[b].saw[f])
    BY <1>2, <2>1, <2>2 DEF Expendable
  <2>. QED
    BY <2>1, <2>3, CheckKeeps
<1>4. CASE UndoCheck(b, f)
  <2>1. tab[b].pc = "undo" /\ Check(b, f, "undo", tab[b].txn)
    BY <1>4 DEF UndoCheck, Check
  <2>2. Expendable(f, tab[b].txn)
    BY <1>2, <2>1 DEF Expendable
  <2>. QED
    BY <2>1, <2>2, CheckKeeps
<1>5. CASE RestoreCheck(b, f)
  <2>1. PICK pc : pc = tab[b].pc
    OBVIOUS
  <2>2. pc \in {"restore", "remove"}
    BY <1>5, <2>1 DEF RestoreCheck
  <2>3. CASE Check(b, f, pc, tab[b].txn)
    <3>1. Expendable(f, tab[b].txn)
      BY <1>2, <2>1, <2>2 DEF Expendable
    <3>. QED
      BY <2>2, <2>3, <3>1, CheckKeeps
  <2>4. CASE ~Native /\ record[tab[b].txn].original[f] # "absent" /\ Check(b, f, pc, disk[f])
    <3>1. pc # "remove"
      BY <1>1, <2>1, <2>4 DEF StateOK, OnlyCreates
    <3>. QED
      BY <2>2, <2>4, <3>1, CheckKeeps
  <2>. QED
    BY <1>5, <2>1, <2>3, <2>4 DEF RestoreCheck
<1>. QED
  BY <1>3, <1>4, <1>5

LEMMA PublishKeeps ==
    ASSUME IInv, NEW b \in Tabs, NEW f \in Files, NEW x \in Content,
           UNCHANGED <<workspace, edits, record, late, told>>,
           disk' = [disk EXCEPT ![f] = x], Expendable(f, x),
           seen' \in [Txns -> SUBSET Files], SeenGrows, x \in Txns => f \in seen'[x],
           NEW w \in TabType, tab' = [tab EXCEPT ![b] = w], StateOK(w)', w.at = NoFile
    PROVE  IInv'
<1>1. disk' \in Bytes /\ told' \in [Txns -> Words]
  BY DEF IInv, Types, Bytes
<1>2. \A g \in Files : disk'[g] = disk[g] \/ (g = f /\ disk'[g] = x)
  BY DEF IInv, Types, Bytes
<1>3. Real(disk)'
  BY <1>2, Constants DEF IInv, Real, SeenGrows
<1>4. TargetOK(w)'
  BY DEF TargetOK
<1>5. \A g \in Files : disk'[g] = disk[g] \/ Replaceable(g)
  BY <1>2 DEF Replaceable, Expendable
<1>. QED
  BY <1>1, <1>3, <1>4, <1>5, MoveKeeps

\* A tab that writes, undoes or restores has a journal with backups.
LEMMA HandsOn ==
    ASSUME IInv, NEW b \in Tabs, tab[b].pc \in {"write", "undo", "restore", "remove"}
    PROVE  /\ tab[b] \in TabType /\ StateOK(tab[b]) /\ tab[b].txn \in Txns
           /\ record[tab[b].txn].backed /\ record[tab[b].txn] \in RecordType
           /\ tab[b].pc \in {"write", "undo"} => record[tab[b].txn].original = tab[b].saw
<1>1. tab[b] \in TabType /\ StateOK(tab[b])
  BY DEF IInv, Types
<1>2. tab[b].txn \in Txns /\ record[tab[b].txn].backed
  BY <1>1 DEF StateOK, TabType, WithoutJournal, MayHaveWritten, NothingWritten, Pcs
<1>. QED
  BY <1>1, <1>2 DEF StateOK, Savers, IInv, Types

LEMMA WritePublishKeeps ==
    ASSUME IInv, NEW b \in Tabs, WritePublish(b)
    PROVE  IInv'
<1>1. PICK f, t : f = tab[b].at /\ t = tab[b].txn
  OBVIOUS
<1>2. /\ tab[b].pc = "write" /\ f # NoFile
      /\ disk' = [disk EXCEPT ![f] = t] /\ seen' = [seen EXCEPT ![t] = @ \cup {f}]
      /\ UNCHANGED <<workspace, edits, record, late, told>>
  BY <1>1 DEF WritePublish
<1>3. PICK v \in TabType : v = tab[b] /\ StateOK(v) /\ v.txn \in Txns
  BY <1>2, HandsOn
<1>4. f \in Files /\ t \in Txns /\ v.wrote \subseteq seen[t] /\ v.wrote \in SUBSET Files
  BY <1>1, <1>2, <1>3 DEF TabType, StateOK
<1>5. PICK W \in SUBSET Files : W = v.wrote \cup {f}
  BY <1>4
<1>6. PICK w : w = [v EXCEPT !.at = NoFile, !.wrote = W]
  OBVIOUS
<1>7. tab' = [tab EXCEPT ![b] = w]
  <2>1. tab' = [tab EXCEPT ![b] = [tab[b] EXCEPT !.at = NoFile, !.wrote = tab[b].wrote \cup {f}]]
    BY <1>1 DEF WritePublish
  <2>2. [tab[b] EXCEPT !.at = NoFile, !.wrote = tab[b].wrote \cup {f}] = w
    BY <1>3, <1>5, <1>6
  <2>. QED
    BY <2>1, <2>2
<1>8. /\ w \in TabType /\ w.pc = v.pc /\ w.txn = v.txn /\ w.at = NoFile /\ w.saw = v.saw
      /\ w.wrote = W
  BY <1>3, <1>6 DEF TabType
<1>9. seen' \in [Txns -> SUBSET Files] /\ SeenGrows /\ f \in seen'[t]
      /\ seen'[t] = seen[t] \cup {f}
  BY <1>2, <1>4 DEF IInv, Types, SeenGrows
<1>10. StateOK(w)'
  <2>1. StateOK(v)'
    BY <1>2, <1>3, <1>9, RecordSame, StateStays
  <2>2. W \subseteq seen'[t]
    BY <1>4, <1>5, <1>9
  <2>. QED
    BY <1>1, <1>2, <1>3, <1>8, <2>1, <2>2 DEF StateOK, WithoutJournal, NothingWritten
<1>11. Expendable(f, t) /\ t \in Content
  BY <1>4 DEF Expendable, Content
<1>. QED
  BY <1>2, <1>4, <1>7, <1>8, <1>9, <1>10, <1>11, PublishKeeps

LEMMA WriteFailsKeeps ==
    ASSUME IInv, NEW b \in Tabs, WriteFails(b)
    PROVE  IInv'
<1>1. PICK f, t : f = tab[b].at /\ t = tab[b].txn
  OBVIOUS
<1>2. /\ tab[b].pc = "write" /\ UNCHANGED <<workspace, edits, record, late, told>>
      /\ tab' = [tab EXCEPT ![b] = [At(b, "undo") EXCEPT !.left = tab[b].wrote]]
  BY DEF WriteFails
<1>3. /\ tab[b] \in TabType /\ StateOK(tab[b]) /\ tab[b].txn \in Txns
      /\ record[tab[b].txn].backed
  BY <1>2, HandsOn
<1>4. t \in Txns /\ (f # NoFile => f \in Files) /\ tab[b].wrote \in SUBSET Files
  BY <1>1, <1>3 DEF TabType
<1>5. PICK v \in TabType : v = At(b, "undo") /\ StateOK(v) /\ v.at = NoFile /\ v.pc = "undo"
  BY <1>2, <1>3, StageIsFine, AtTypes
     DEF Pcs, WithoutJournal, NothingWritten, Savers, MayHaveWritten
<1>6. PICK L \in SUBSET Files : L = tab[b].wrote
  BY <1>4
<1>7. PICK w : w = [v EXCEPT !.left = L]
  OBVIOUS
<1>8. /\ w \in TabType /\ w.pc = v.pc /\ w.txn = v.txn /\ w.at = NoFile /\ w.saw = v.saw
      /\ w.wrote = v.wrote
  BY <1>5, <1>7 DEF TabType
<1>9. StateOK(w)
  BY <1>5, <1>8 DEF StateOK
<1>10. tab' = [tab EXCEPT ![b] = w]
  BY <1>2, <1>5, <1>6, <1>7
<1>11. CASE UNCHANGED <<disk, seen>>
  <2>1. TargetOK(w)
    BY <1>8, NoTarget
  <2>. QED
    BY <1>2, <1>8, <1>9, <1>10, <1>11, <2>1, GoKeeps
<1>12. CASE f # NoFile /\ disk' = [disk EXCEPT ![f] = "absent"] /\ seen' = seen
  <2>1. seen' \in [Txns -> SUBSET Files] /\ SeenGrows
    BY <1>12 DEF IInv, Types, SeenGrows
  <2>2. "absent" \in Content /\ "absent" \notin Txns /\ Expendable(f, "absent")
    BY Basics DEF Content, Expendable, IInv, Types
  <2>3. StateOK(w)'
    BY <1>2, <1>8, <1>9, <2>1, RecordSame, StateStays
  <2>. QED
    BY <1>2, <1>4, <1>8, <1>10, <1>12, <2>1, <2>2, <2>3, PublishKeeps
<1>13. CASE f # NoFile /\ disk' = [disk EXCEPT ![f] = t] /\ seen' = [seen EXCEPT ![t] = @ \cup {f}]
  <2>1. seen' \in [Txns -> SUBSET Files] /\ SeenGrows /\ f \in seen'[t]
    BY <1>4, <1>13 DEF IInv, Types, SeenGrows
  <2>2. t \in Content /\ Expendable(f, t)
    BY <1>4 DEF Content, Expendable
  <2>3. StateOK(w)'
    BY <1>2, <1>8, <1>9, <2>1, RecordSame, StateStays
  <2>. QED
    BY <1>2, <1>4, <1>8, <1>10, <1>13, <2>1, <2>2, <2>3, PublishKeeps
<1>. QED
  BY <1>1, <1>11, <1>12, <1>13 DEF WriteFails

LEMMA BackupsKeep ==
    ASSUME IInv, NEW b \in Tabs, UndoPublish(b) \/ RestorePublish(b)
    PROVE  IInv'
<1>1. PICK f, x : /\ f = tab[b].at /\ f # NoFile
                  /\ x = record[tab[b].txn].original[f]
                  /\ disk' = [disk EXCEPT ![f] = x]
  BY HandsOn DEF UndoPublish, RestorePublish
<1>2. /\ tab[b].pc \in {"undo", "restore", "remove"}
      /\ UNCHANGED <<workspace, edits, record, late, told, seen>>
      /\ tab' = [tab EXCEPT ![b] = [@ EXCEPT !.at = NoFile]]
  BY DEF UndoPublish, RestorePublish
<1>3. /\ tab[b] \in TabType /\ tab[b].txn \in Txns
      /\ record[tab[b].txn].backed /\ record[tab[b].txn] \in RecordType
      /\ Real(record[tab[b].txn].original)
  BY <1>2, HandsOn DEF IInv, JournalOK
<1>4. f \in Files /\ x \in Content /\ Expendable(f, x) /\ (x \in Txns => f \in seen[x])
  BY <1>1, <1>3 DEF TabType, RecordType, Bytes, Expendable, Real
<1>5. PICK L \in SUBSET Files : tab' = [tab EXCEPT ![b] = Handling(b, NoFile, L)]
  BY <1>2, Puts, HandlingForms
<1>6. PICK w \in TabType : w = Handling(b, NoFile, L) /\ StateOK(w) /\ w.at = NoFile
  BY SameStage
<1>7. seen' \in [Txns -> SUBSET Files] /\ SeenGrows
  BY <1>2 DEF IInv, Types, SeenGrows
<1>8. StateOK(w)'
  BY <1>2, <1>6, <1>7, RecordSame, StateStays
<1>. QED
  BY <1>1, <1>2, <1>4, <1>5, <1>6, <1>7, <1>8, PublishKeeps

LEMMA ExternalEditKeeps ==
    ASSUME IInv, NEW f \in Files, ExternalEdit(f)
    PROVE  IInv'
<1>1. UNCHANGED <<workspace, record, late, tab, told, seen>>
      /\ \A b \in Tabs : tab[b].at # f
  BY DEF ExternalEdit
<1>2. PICK e \in edits : /\ edits' = edits \ {e}
                         /\ \/ disk' = [disk EXCEPT ![f] = e]
                            \/ disk' = [disk EXCEPT ![f] = "absent"]
  BY DEF ExternalEdit
<1>3. PICK x \in Content \ Txns : disk' = [disk EXCEPT ![f] = x]
  BY <1>2, Basics DEF IInv, Types, Content
<1>4. /\ disk' \in Bytes /\ disk'[f] = x
      /\ \A g \in Files \ {f} : disk'[g] = disk[g]
  BY <1>3 DEF IInv, Types, Bytes
<1>5. seen' \in [Txns -> SUBSET Files] /\ SeenGrows
  BY <1>1 DEF IInv, Types, SeenGrows
<1>6. \A t \in Txns : JournalOK(t)' /\ Evolves(t) /\ record'[t].gen <= MaxGen
  BY <1>1, <1>5, RecordSame
<1>7. Types'
  BY <1>1, <1>2, <1>4, Constants DEF IInv, Types
<1>8. Real(disk)'
  BY <1>1, <1>3, <1>4, Constants DEF IInv, Real
<1>9. \A b \in Tabs : tab[b].at # NoFile => disk'[tab[b].at] = disk[tab[b].at]
  BY <1>1, <1>4 DEF IInv, Types, TabType
<1>. QED
  BY <1>1, <1>5, <1>6, <1>7, <1>8, <1>9, Assembled

\* The journals fade, and requests under way may be lost.
LEMMA FadesKeep ==
    ASSUME IInv, UNCHANGED <<workspace, disk, edits, tab, told, seen>>,
           record' \in [Txns -> RecordType], \A t \in Txns : Fades(record[t], record'[t]),
           late' \in {late, {}}
    PROVE  IInv'
<1>1. seen' \in [Txns -> SUBSET Files] /\ SeenGrows
  BY DEF IInv, Types, SeenGrows
<1>2. \A t \in Txns : JournalOK(t)' /\ Evolves(t) /\ record'[t].gen <= MaxGen
  BY <1>1, FadingKeeps
<1>3. /\ workspace \in Workspaces
      /\ IsFiniteSet(late) /\ Cardinality(late) <= MaxLate
  BY DEF IInv, Types
<1>4. MaxLate \in Nat
  BY <1>3, Basics
<1>5. IsFiniteSet(late') /\ Cardinality(late') <= MaxLate
  <2>1. CASE late' = {}
    <3>1. IsFiniteSet(late') /\ Cardinality(late') = 0
      BY <2>1, FS_EmptySet
    <3>. QED
      BY <3>1, <1>4
  <2>2. CASE late' = late
    BY <2>2, <1>3
  <2>. QED
    BY <2>1, <2>2
<1>6. Types'
  BY <1>1, <1>2, <1>5, Constants DEF IInv, Types
<1>7. Real(disk)'
  BY Constants DEF IInv, Real
<1>. QED
  BY <1>1, <1>2, <1>6, <1>7, Assembled

LEMMA LeaseExpiresFades ==
    ASSUME IInv, NEW t \in Txns, LeaseExpires(t)
    PROVE  record' \in [Txns -> RecordType] /\ \A u \in Txns : Fades(record[u], record'[u])
<1>1. PICK r \in RecordType : r = record[t]
  BY DEF IInv, Types
<1>2. PICK v : v = [r EXCEPT !.live = FALSE]
  OBVIOUS
<1>3. /\ v \in RecordType /\ v.status = r.status /\ v.recovery = r.recovery
      /\ v.gen = r.gen /\ v.backed = r.backed /\ v.received = r.received
      /\ v.original = r.original
  BY <1>1, <1>2 DEF RecordType
<1>4. record' = [record EXCEPT ![t] = v]
  BY <1>1, <1>2 DEF LeaseExpires
<1>5. \A u \in Txns : record'[u] = IF u = t THEN v ELSE record[u]
  BY <1>4 DEF IInv, Types
<1>. QED
  BY <1>1, <1>3, <1>4, <1>5 DEF IInv, Types, Fades

LEMMA RestartFades ==
    ASSUME IInv, Restart
    PROVE  record' \in [Txns -> RecordType] /\ \A u \in Txns : Fades(record[u], record'[u])
<1>1. ASSUME NEW u \in Txns
      PROVE  record'[u] \in RecordType /\ Fades(record[u], record'[u])
  <2>1. PICK r \in RecordType : r = record[u]
    BY DEF IInv, Types
  <2>2. record'[u] = CASE r.status \in {"preparing", "authorized"} ->
                             [r EXCEPT !.status = "abandoned"]
                       [] r.status \in {"committing", "reverting"} ->
                             [r EXCEPT !.recovery = TRUE, !.live = FALSE]
                       [] OTHER -> r
    BY <2>1 DEF Restart
  <2>3. CASE r.status \in {"preparing", "authorized"}
    <3>1. PICK v : v = [r EXCEPT !.status = "abandoned"]
      OBVIOUS
    <3>2. /\ v \in RecordType /\ v.status = "abandoned" /\ v.recovery = r.recovery
          /\ v.gen = r.gen /\ v.backed = r.backed /\ v.received = r.received
          /\ v.original = r.original
      BY <3>1 DEF RecordType, Statuses
    <3>3. record'[u] = v
      BY <2>2, <2>3, <3>1
    <3>. QED
      BY <2>1, <2>3, <3>2, <3>3 DEF Fades
  <2>4. CASE r.status \in {"committing", "reverting"}
    <3>1. PICK v : v = [r EXCEPT !.recovery = TRUE, !.live = FALSE]
      OBVIOUS
    <3>2. /\ v \in RecordType /\ v.status = r.status /\ v.recovery = TRUE
          /\ v.gen = r.gen /\ v.backed = r.backed /\ v.received = r.received
          /\ v.original = r.original
      BY <3>1 DEF RecordType
    <3>3. record'[u] = v
      BY <2>2, <2>4, <3>1
    <3>. QED
      BY <2>1, <2>4, <3>2, <3>3 DEF Fades
  <2>5. CASE r.status \notin {"preparing", "authorized", "committing", "reverting"}
    BY <2>1, <2>2, <2>5 DEF Fades
  <2>. QED
    BY <2>3, <2>4, <2>5
<1>2. record' = [u \in Txns |-> record'[u]]
  BY DEF Restart
<1>. QED
  BY <1>1, <1>2

LEMMA InitInv ==
    ASSUME Init
    PROVE  IInv
<1>1. workspace \in Workspaces
  BY DEF Init
<1>2. Blank \in RecordType /\ Rest \in TabType /\ StateOK(Rest) /\ Rest.at = NoFile
      /\ Blank.status = "none" /\ ~Blank.backed /\ ~Blank.recovery /\ Blank.gen = 0
      /\ \A f \in Files : Blank.original[f] = "absent"
  BY <1>1, RestIsFine, Values
<1>3. {"absent", "base"} \subseteq Content \ Txns
  BY <1>1, Basics DEF Content
<1>4. disk \in Bytes /\ Real(disk)
  BY <1>3 DEF Init, Bytes, Real
<1>5. Types
  <2>1. IsFiniteSet(late) /\ Cardinality(late) <= MaxLate
    BY <1>1, FS_EmptySet, Basics DEF Init
  <2>2. edits \subseteq Edits
    BY <1>1, LocalSaveAssumption DEF Init
  <2>. QED
    BY <1>1, <1>2, <1>4, <2>1, <2>2, Basics DEF Init, Types, Words
<1>6. \A t \in Txns : JournalOK(t) /\ ToldOK(t)
  BY <1>2, <1>3 DEF Init, JournalOK, ToldOK, Real
<1>7. \A b \in Tabs : StateOK(tab[b]) /\ TargetOK(tab[b])
  BY <1>2, NoTarget DEF Init
<1>. QED
  BY <1>4, <1>5, <1>6, <1>7 DEF IInv, Init

LEMMA StepInv ==
    ASSUME IInv, [Next]_vars
    PROVE  IInv'
<1>1. CASE UNCHANGED vars
  <2>1. \A t \in Txns : Fades(record[t], record[t])
    BY DEF IInv, Types, Fades
  <2>. QED
    BY <1>1, <2>1, FadesKeep DEF vars, IInv, Types
<1>2. ASSUME NEW b \in Tabs, Save(b)
      PROVE  IInv'
  BY <1>2, StartSaveKeeps, PrepareKeeps, StageKeeps, LooksKeep, BeginCommitKeeps, LastRequests,
     ChecksKeep, WritePublishKeeps, WriteFailsKeeps, ReceiptKeeps, UnconfirmedKeeps
     DEF Save
<1>3. ASSUME NEW b \in Tabs, InlineRollback(b)
      PROVE  IInv'
  BY <1>3, ChecksKeep, BackupsKeep, SkipsKeep, LooksKeep, LastRequests DEF InlineRollback
<1>4. ASSUME NEW b \in Tabs, History(b)
      PROVE  IInv'
  BY <1>4, OpenHistoryKeeps, RecoverKeeps, RevertKeeps, LooksKeep, ChecksKeep, SkipsKeep,
     BackupsKeep, LastRequests DEF History
<1>5. ASSUME NEW b \in Tabs, TabGone(b)
      PROVE  IInv'
  BY <1>5, LooksKeep
<1>6. ASSUME NEW t \in Txns, LeaseExpires(t)
      PROVE  IInv'
  BY <1>6, LeaseExpiresFades, FadesKeep DEF LeaseExpires
<1>7. CASE Restart
  BY <1>7, RestartFades, FadesKeep DEF Restart
<1>. QED
  BY <1>1, <1>2, <1>3, <1>4, <1>5, <1>6, <1>7, DeliverKeeps, ExternalEditKeeps DEF Next

\* The history variable changes only where a recovery is begun.
LEMMA OnlyRecoveriesRush ==
    ASSUME [Next]_vars
    PROVE  \/ rushed' = rushed
           \/ \E b \in Tabs, t \in Txns :
                 InspectRecovery(b, t) /\ rushed' = (rushed \/ Working(t) # {})
<1>1. CASE UNCHANGED vars
  BY <1>1 DEF vars
<1>2. ASSUME NEW b \in Tabs, Save(b)
      PROVE  rushed' = rushed
  BY <1>2 DEF Save, StartSave, Prepare, Stage, Recheck, BeginCommit, GiveUp, WriteCheck, Check,
     WritePublish, WriteFails, Receipt, Confirm, Unconfirmed, Reconfirm, Ask
<1>3. ASSUME NEW b \in Tabs, InlineRollback(b)
      PROVE  rushed' = rushed
  BY <1>3 DEF InlineRollback, UndoCheck, Check, UndoPublish, UndoFails, Inspect,
     RollbackReceipt, Unresolved, Ask
<1>4. ASSUME NEW b \in Tabs, History(b)
      PROVE  \/ rushed' = rushed
             \/ \E t \in Txns :
                   InspectRecovery(b, t) /\ rushed' = (rushed \/ Working(t) # {})
  <2>1. CASE \E t \in Txns : InspectRecovery(b, t)
    BY <2>1 DEF InspectRecovery
  <2>2. CASE \E f \in Files : RestoreCheck(b, f)
    BY <2>2 DEF RestoreCheck, Check
  <2>. QED
    BY <1>4, <2>1, <2>2 DEF History, StartUndo, Recover, Revert, VerifyUndo, RestoreSkip,
       RestorePublish, RestoreFails, RestoreReceipt, Ask
<1>5. CASE \E b \in Tabs : TabGone(b)
  BY <1>5 DEF TabGone
<1>6. CASE \E q \in late : Deliver(q)
  BY <1>6 DEF Deliver
<1>7. CASE \E f \in Files : ExternalEdit(f)
  BY <1>7 DEF ExternalEdit
<1>8. CASE \E t \in Txns : LeaseExpires(t)
  BY <1>8 DEF LeaseExpires
<1>9. CASE Restart
  BY <1>9 DEF Restart
<1>. QED
  BY <1>1, <1>2, <1>3, <1>4, <1>5, <1>6, <1>7, <1>8, <1>9 DEF Next

LEMMA RushedIsBoolean == Spec => [](rushed \in BOOLEAN)
<1>1. Init => rushed \in BOOLEAN
  BY DEF Init
<1>2. rushed \in BOOLEAN /\ [Next]_vars => (rushed \in BOOLEAN)'
  <2>1. SUFFICES ASSUME rushed \in BOOLEAN, [Next]_vars
                 PROVE  rushed' \in BOOLEAN
    OBVIOUS
  <2>2. CASE rushed' = rushed
    BY <2>1, <2>2
  <2>3. CASE \E t \in Txns : rushed' = (rushed \/ Working(t) # {})
    BY <2>3
  <2>. QED
    BY <2>1, <2>2, <2>3, OnlyRecoveriesRush
<1>. QED
  BY <1>1, <1>2, PTL DEF Spec

LEMMA Invariance == Spec => []IInv
<1>. QED
  BY InitInv, StepInv, PTL DEF Spec

-----------------------------------------------------------------------------
(* The theorems.                                                           *)

\* The folder, the journal of every transaction, the tabs and the requests
\* under way keep their types, and credentials and late requests their bounds.
THEOREM TypeCorrect == Spec => []TypeOK
<1>1. ASSUME IInv, rushed \in BOOLEAN
      PROVE  TypeOK
  <2>1. ASSUME NEW t \in Txns
        PROVE  /\ DOMAIN record[t] = DOMAIN Blank
               /\ record[t].status \in Statuses
               /\ record[t].gen \in 0..MaxGen
               /\ record[t].original \in [Files -> Content]
    <3>1. PICK r \in RecordType : r = record[t]
      BY <1>1 DEF IInv, Types
    <3>2. PICK z \in RecordType : z = Blank
      BY Values
    <3>3. DOMAIN r = DOMAIN z
      BY DEF RecordType
    <3>4. r.gen <= MaxGen /\ r.gen \in Nat /\ MaxGen \in Nat
      BY <1>1, <3>1, LocalSaveAssumption DEF IInv, Types, RecordType
    <3>. QED
      BY <3>1, <3>2, <3>3, <3>4 DEF RecordType, Bytes
  <2>2. ASSUME NEW b \in Tabs
        PROVE  /\ DOMAIN tab[b] = DOMAIN Rest
               /\ tab[b].txn \in Txns \cup {NoTxn}
               /\ tab[b].at \in Files \cup {NoFile}
               /\ tab[b].left \subseteq Files
               /\ tab[b].wrote \subseteq Files
               /\ tab[b].saw \in [Files -> Content]
    <3>1. PICK w \in TabType : w = tab[b]
      BY <1>1 DEF IInv, Types
    <3>2. PICK z \in TabType : z = Rest
      BY Values
    <3>3. DOMAIN w = DOMAIN z
      BY DEF TabType
    <3>. QED
      BY <3>1, <3>2, <3>3 DEF TabType, Bytes
  <2>3. /\ disk \in [Files -> Content] /\ edits \subseteq Edits /\ Cardinality(late) <= MaxLate
        /\ told \in [Txns -> {"nothing", "applied", "unchanged", "undone", "recovery"}]
        /\ seen \in [Txns -> SUBSET Files]
    BY <1>1 DEF IInv, Types, Bytes, Words
  <2>. QED
    BY <1>1, <2>1, <2>2, <2>3 DEF TypeOK
<1>. QED
  BY <1>1, Invariance, RushedIsBoolean, PTL

\* A committed transaction, whoever sent its receipt and however late it
\* arrived: every file it planned has held the planned bytes.  The receipt
\* carries the hashes the tab read back from the folder (commitTransaction
\* compares them with the plan).
THEOREM ReceiptsAreTruthful == Spec => []CommittedWasOnDisk
<1>1. IInv => CommittedWasOnDisk
  BY DEF IInv, JournalOK, CommittedWasOnDisk
<1>. QED
  BY <1>1, Invariance, PTL

\* What a step changes on disk without an edit of another program is the file
\* some tab has in its hands, or one that did not exist.
LEMMA OnlyHandledFilesChange ==
    ASSUME IInv, [Next]_vars, NEW f \in Files, disk'[f] # disk[f], edits' = edits
    PROVE  \/ disk[f] = "absent"
           \/ \E b \in Tabs : tab[b].at = f /\ tab[b].pc \in {"write", "undo", "restore", "remove"}
<1>1. disk \in Bytes /\ edits \subseteq Edits /\ ~UNCHANGED vars
  BY DEF IInv, Types, vars
<1>2. ASSUME NEW b \in Tabs, NEW op, NEW q, NEW n, NEW w, NEW o, NEW e, Ask(b, q, n, w, o, e)
      PROVE  FALSE
  BY <1>2 DEF Ask
<1>3. ASSUME NEW b \in Tabs, NEW g \in Files, NEW pc, NEW x, Check(b, g, pc, x)
      PROVE  disk[f] = "absent"
  BY <1>1, <1>3 DEF Check, Bytes
<1>4. ASSUME NEW b \in Tabs, NEW g, NEW x, disk' = [disk EXCEPT ![g] = x]
      PROVE  f = g
  BY <1>1, <1>4 DEF Bytes
<1>5. ASSUME NEW b \in Tabs, Save(b)
      PROVE  disk[f] = "absent" \/ (tab[b].at = f /\ tab[b].pc = "write")
  <2>1. CASE WritePublish(b) \/ WriteFails(b)
    BY <2>1, <1>4 DEF WritePublish, WriteFails
  <2>2. CASE \E g \in Files : WriteCheck(b, g)
    BY <2>2, <1>3 DEF WriteCheck
  <2>3. CASE disk' = disk
    BY <2>3
  <2>4. disk' = disk \/ WritePublish(b) \/ WriteFails(b) \/ \E g \in Files : WriteCheck(b, g)
    BY <1>5, <1>2 DEF Save, StartSave, Prepare, Stage, Recheck, BeginCommit, GiveUp, Receipt,
       Confirm, Unconfirmed, Reconfirm
  <2>. QED
    BY <2>1, <2>2, <2>3, <2>4
<1>6. ASSUME NEW b \in Tabs, InlineRollback(b)
      PROVE  disk[f] = "absent" \/ (tab[b].at = f /\ tab[b].pc = "undo")
  <2>1. CASE UndoPublish(b)
    BY <2>1, <1>4 DEF UndoPublish
  <2>2. CASE \E g \in Files : UndoCheck(b, g)
    BY <2>2, <1>3 DEF UndoCheck
  <2>3. disk' = disk \/ UndoPublish(b) \/ \E g \in Files : UndoCheck(b, g)
    BY <1>6, <1>2 DEF InlineRollback, UndoFails, Inspect, RollbackReceipt, Unresolved
  <2>. QED
    BY <2>1, <2>2, <2>3
<1>7. ASSUME NEW b \in Tabs, History(b)
      PROVE  disk[f] = "absent" \/ (tab[b].at = f /\ tab[b].pc \in {"restore", "remove"})
  <2>1. CASE RestorePublish(b)
    BY <2>1, <1>4 DEF RestorePublish
  <2>2. CASE \E g \in Files : RestoreCheck(b, g)
    BY <2>2, <1>3 DEF RestoreCheck
  <2>3. disk' = disk \/ RestorePublish(b) \/ \E g \in Files : RestoreCheck(b, g)
    BY <1>7, <1>2 DEF History, InspectRecovery, StartUndo, Recover, Revert, VerifyUndo,
       RestoreSkip, RestoreFails, RestoreReceipt
  <2>. QED
    BY <2>1, <2>2, <2>3
<1>8. ASSUME NEW g \in Files, ExternalEdit(g)
      PROVE  FALSE
  BY <1>8 DEF ExternalEdit
<1>9. ASSUME NEW q \in late, Deliver(q)
      PROVE  FALSE
  BY <1>9 DEF Deliver
<1>10. ASSUME NEW t \in Txns, LeaseExpires(t)
       PROVE  FALSE
  BY <1>10 DEF LeaseExpires
<1>11. ASSUME NEW b \in Tabs, TabGone(b)
       PROVE  FALSE
  BY <1>11 DEF TabGone
<1>12. ~Restart
  BY DEF Restart
<1>. QED
  BY <1>1, <1>5, <1>6, <1>7, <1>8, <1>9, <1>10, <1>11, <1>12 DEF Next

\* The bytes a save or its inline rollback replaces were Citadel's own or are
\* kept in a backup, with edits of other programs between any two steps: a
\* target is compared with what the tab read before it is written, and what
\* the tab read was backed up before the journal began to commit.
THEOREM SavesReplaceOnlyKeptBytes == Spec => SavesKeepForeignBytes
<1>. DEFINE Good == \A f \in Files :
               disk'[f] # disk[f] /\ edits' = edits
                  /\ (\A b \in Tabs : tab[b].at = f => tab[b].pc # "restore") => Kept(f)
<1>1. ASSUME IInv, [Next]_vars
      PROVE  [Good]_vars
  <2>1. SUFFICES ASSUME NEW f \in Files, disk'[f] # disk[f], edits' = edits,
                        \A b \in Tabs : tab[b].at = f => tab[b].pc # "restore"
                 PROVE  Kept(f)
    OBVIOUS
  <2>2. CASE disk[f] = "absent"
    BY <2>2 DEF Kept
  <2>3. ASSUME NEW b \in Tabs, tab[b].at = f
        PROVE  Kept(f)
    <3>1. f # NoFile
      BY <1>1, Basics DEF IInv, Types
    <3>. QED
      BY <1>1, <2>1, <2>3, <3>1 DEF IInv, TargetOK
  <2>. QED
    BY <1>1, <2>1, <2>2, <2>3, OnlyHandledFilesChange
<1>. QED
  BY <1>1, Invariance, PTL DEF Spec, SavesKeepForeignBytes

\* In a native workspace the same holds of History recovery and of the undo of
\* a creation: there a file is replaced only while it holds the planned bytes
\* (recoverTransaction's check of provider.native).
THEOREM NativeRecoveryReplacesOnlyKeptBytes == Spec => NativeRecoveryKeepsForeignBytes
<1>. DEFINE Good == Native => \A f \in Files : disk'[f] # disk[f] /\ edits' = edits => Kept(f)
<1>1. ASSUME IInv, [Next]_vars
      PROVE  [Good]_vars
  <2>1. SUFFICES ASSUME Native, NEW f \in Files, disk'[f] # disk[f], edits' = edits
                 PROVE  Kept(f)
    OBVIOUS
  <2>2. CASE disk[f] = "absent"
    BY <2>2 DEF Kept
  <2>3. ASSUME NEW b \in Tabs, tab[b].at = f
        PROVE  Kept(f)
    <3>1. f # NoFile
      BY <1>1, Basics DEF IInv, Types
    <3>. QED
      BY <1>1, <2>1, <2>3, <3>1 DEF IInv, TargetOK
  <2>. QED
    BY <1>1, <2>1, <2>2, <2>3, OnlyHandledFilesChange
<1>. QED
  BY <1>1, Invariance, PTL DEF Spec, NativeRecoveryKeepsForeignBytes

-----------------------------------------------------------------------------
(* The second invariant: what holds until a recovery is begun of a save    *)
(* whose tab is still at work.                                             *)

\* The journal of a save that has written nothing.
Early(r) == \/ r.status \in {"none", "preparing", "authorized", "abandoned"}
            \/ r.status = "failed" /\ ~r.recovery

\* The journal of a save whose bytes may be on disk, to be put right.
Underway(r) == \/ r.status \in {"committing", "reverting"}
               \/ r.status = "failed" /\ r.recovery

Past(r) == r.status \notin {"none", "preparing", "authorized"}

\* The files in x are those of committed saves, or of none.
OnCommitted(x) == \A f \in Files : x[f] \in Txns => record[x[f]].status = "committed"

Gone(t) == \A f \in Files : disk[f] # t

Undoers == {"revert", "verify", "remove"}
Closing == {"receipt", "fail", "unresolved", "rollback", "recover", "revert"}

OneOpen == \A t, u \in Txns : Open(record[t]) /\ Open(record[u]) => t = u

JournalFits(t) ==
    LET r == record[t]
    IN  /\ Early(r) => seen[t] = {}
        /\ r.status = "rolled_back" => Gone(t)
        /\ \A f \in Files : r.original[f] # t
        /\ Underway(r) => OnCommitted(r.original)
        /\ told[t] \in {"unchanged", "undone"} =>
              r.status = "rolled_back" \/ (r.status = "failed" /\ ~r.recovery)

QueryFits(q) ==
    LET r == record[q.txn]
    IN  /\ q.op = "prepare" \/ q.gen <= r.gen
        /\ q.op \in Closing \ {"fail"} => Past(r)
        /\ q.op = "commit" =>
              r.status # "preparing" /\ (r.status = "authorized" => OnCommitted(r.original))
        /\ q.op = "fail" => seen[q.txn] = {}
        /\ q.op = "rollback" /\ q.gen = r.gen /\ Underway(r) => Gone(q.txn)

\* A tab in state w, by itself.
StageFits(w) ==
    LET r == record[w.txn]
    IN  /\ w.txn # NoTxn => w.gen <= r.gen
        /\ w.pc \in MayHaveWritten => Past(r)
        /\ w.pc \in NothingWritten =>
              seen[w.txn] = {}
              /\ r.status \in {"preparing", "authorized", "committing", "abandoned"}
        /\ w.pc \in {"recheck", "commit"} => r.status # "preparing"
        /\ w.pc = "commit" /\ r.status = "authorized" => OnCommitted(r.original)
        /\ w.pc \in Savers \ NothingWritten => r.status = "committing"
        /\ w.pc = "rollback" => Gone(w.txn)
        /\ w.pc = "revert" => r.status \in {"committed", "reverting", "rolled_back"}
        /\ w.pc \in {"verify", "remove"} => r.status \in {"reverting", "rolled_back"}
        /\ w.pc = "restore" => r.status # "committed" /\ (Underway(r) \/ OnlyCreates(r))
        /\ w.pc \in {"restore", "remove"} =>
              \A f \in Files \ w.left : f # w.at => disk[f] # w.txn

\* A tab in state w and a request q of another tab, or one given up on.
Coexist(w, q) ==
    q.txn = w.txn =>
        /\ w.pc \in Savers => q.op \notin Closing
        /\ /\ w.pc = "restore"
           /\ \/ q.op \in {"receipt", "fail"}
              \/ q.op = "rollback" /\ ~OnlyCreates(record[w.txn])
           => q.gen < w.gen

\* Two tabs, in states w and v.
NoClash(w, v) ==
    w.txn = v.txn /\ w.txn # NoTxn =>
        /\ w.pc \notin Savers /\ v.pc \notin Savers
        /\ w.pc \in Undoers \/ v.pc \in Undoers

PInv ==
    /\ OneOpen
    /\ \A t \in Txns : JournalFits(t)
    /\ \A q \in late : QueryFits(q)
    /\ \A b \in Tabs : StageFits(tab[b])
    /\ \A b \in Tabs, q \in late : Coexist(tab[b], q)
    /\ \A b, c \in Tabs : b # c => NoClash(tab[b], tab[c])

-----------------------------------------------------------------------------
(* A request reaches the server: what the second invariant says of the     *)
(* journals, of other requests and of other tabs.                          *)

\* A request that reached the server is refused, or served alone; none is
\* opened beside another open journal.
Renders(q) ==
    /\ record' \in [Txns -> RecordType]
    /\ \/ \A t \in Txns : Fades(record[t], record'[t])
       \/ /\ Serves(q, record[q.txn], record'[q.txn])
          /\ \A t \in Txns \ {q.txn} : Fades(record[t], record'[t])
          /\ q.op \in {"prepare", "revert"} =>
                \A t \in Txns \ {q.txn} : ~Open(record'[t])

LEMMA ServedRenders ==
    ASSUME IInv, NEW q \in QueryType, record' = Served(q) \/ record' = record
    PROVE  Renders(q)
<1>1. CASE record' = record
  BY <1>1 DEF IInv, Types, Renders, Fades
<1>2. CASE record' = Served(q)
  BY <1>2, ServedOnes DEF Renders
<1>. QED
  BY <1>1, <1>2

\* The journal r of a save, and what it is a step later.
LEMMA FadingStatus ==
    ASSUME NEW r \in RecordType, NEW u \in RecordType, Fades(r, u),
           r.recovery => r.status \in {"committing", "reverting", "failed"}
    PROVE  /\ Open(u) => Open(r)
           /\ Early(u) => Early(r)
           /\ Past(r) => Past(u)
           /\ Underway(u) <=> Underway(r)
           /\ u.status \in {r.status, "abandoned"}
           /\ u.status = "failed" => (u.recovery <=> r.recovery)
           /\ r.status \in {"committing", "committed", "reverting", "rolled_back", "failed"} =>
                 u.status = r.status
           /\ u.gen = r.gen /\ u.original = r.original
<1>1. r.status \in Statuses /\ u.status \in Statuses /\ r.recovery \in BOOLEAN
      /\ u.recovery \in BOOLEAN
  BY DEF RecordType
<1>. QED
  BY <1>1 DEF Fades, Open, Finished, Early, Past, Underway, Statuses

LEMMA ServingStatus ==
    ASSUME NEW q \in QueryType, NEW r \in RecordType, NEW u \in RecordType, Serves(q, r, u),
           r.recovery => r.status \in {"committing", "reverting", "failed"}
    PROVE  /\ q.op \notin {"prepare", "revert"} /\ Open(u) => Open(r)
           /\ Early(u) => Early(r) \/ q.op = "fail"
           /\ Past(r) => Past(u)
           /\ Underway(u) => \/ q.op # "prepare" /\ Underway(r)
                             \/ q.op = "commit" /\ r.status = "authorized"
                             \/ q.op = "unresolved" /\ ~Past(r)
                             \/ q.op = "revert" /\ OnlyCreates(r)
           /\ u.status = "authorized" => q.op = "authorize" /\ r.status = "preparing"
           /\ u.status = "rolled_back" => q.op = "rollback" /\ q.gen = r.gen /\ Underway(r)
           /\ r.status # "rolled_back" /\ (r.status = "failed" => r.recovery)
           /\ r.status = "committed" => q.op = "revert"
           /\ r.status # "none" => u.original = r.original
           /\ r.status # "none" =>
                 u.gen = r.gen + (IF q.op \in {"recover", "revert"} THEN 1 ELSE 0)
<1>1. r.status \in Statuses /\ u.status \in Statuses /\ r.recovery \in BOOLEAN
      /\ u.recovery \in BOOLEAN /\ r.gen \in Nat /\ u.gen \in Nat /\ q.op \in Ops
  BY DEF RecordType, QueryType
<1>2. q.op \notin {"prepare", "revert"} /\ Open(u) => Open(r)
  BY <1>1 DEF Serves, Open, Finished
<1>3. (Early(u) => Early(r) \/ q.op = "fail") /\ (Past(r) => Past(u))
  BY <1>1 DEF Serves, Early, Past
<1>4. Underway(u) => \/ q.op # "prepare" /\ Underway(r)
                     \/ q.op = "commit" /\ r.status = "authorized"
                     \/ q.op = "unresolved" /\ ~Past(r)
                     \/ q.op = "revert" /\ OnlyCreates(r)
  BY <1>1 DEF Serves, Underway, Past
<1>5. /\ u.status = "authorized" => q.op = "authorize" /\ r.status = "preparing"
      /\ u.status = "rolled_back" => q.op = "rollback" /\ q.gen = r.gen /\ Underway(r)
      /\ r.status # "rolled_back" /\ (r.status = "failed" => r.recovery)
      /\ r.status = "committed" => q.op = "revert"
  BY <1>1 DEF Serves, Underway
<1>6. r.status # "none" =>
         /\ u.original = r.original
         /\ u.gen = r.gen + (IF q.op \in {"recover", "revert"} THEN 1 ELSE 0)
  BY <1>1 DEF Serves
<1>. QED
  BY <1>2, <1>3, <1>4, <1>5, <1>6

LEMMA OnlyOneOpens ==
    ASSUME IInv, OneOpen, workspace' = workspace, NEW q \in QueryType, Renders(q)
    PROVE  OneOpen'
<1>1. \A t \in Txns : record[t] \in RecordType /\ record'[t] \in RecordType
                      /\ (record[t].recovery =>
                             record[t].status \in {"committing", "reverting", "failed"})
  BY DEF IInv, Types, JournalOK, Renders
<1>2. q.txn \in Txns
  BY DEF QueryType
<1>3. SUFFICES ASSUME NEW t \in Txns, NEW u \in Txns, Open(record'[t]), Open(record'[u]), t # u
               PROVE  FALSE
  BY Constants DEF OneOpen, Open, Finished
<1>4. ASSUME NEW v \in Txns, Fades(record[v], record'[v]), Open(record'[v])
      PROVE  Open(record[v])
  BY <1>1, <1>4, FadingStatus
<1>5. CASE \A v \in Txns : Fades(record[v], record'[v])
  BY <1>3, <1>4, <1>5 DEF OneOpen
<1>6. CASE Serves(q, record[q.txn], record'[q.txn])
  <2>1. q.op \notin {"prepare", "revert"} /\ Open(record'[q.txn]) => Open(record[q.txn])
    BY <1>1, <1>2, <1>6, ServingStatus
  <2>2. CASE q.op \in {"prepare", "revert"}
    BY <1>3, <1>5, <2>2 DEF Renders
  <2>3. CASE q.op \notin {"prepare", "revert"}
    BY <1>2, <1>3, <1>4, <1>5, <2>1, <2>3 DEF Renders, OneOpen
  <2>. QED
    BY <2>2, <2>3
<1>. QED
  BY <1>5, <1>6 DEF Renders

\* The committed saves an open one began from stay committed: their undo waits
\* for the lease.
LEMMA CommittedStays ==
    ASSUME IInv, workspace' = workspace, NEW q \in QueryType, Renders(q),
           NEW t \in Txns, NEW x, OnCommitted(x), Open(record'[t]), \A f \in Files : x[f] # t
    PROVE  OnCommitted(x)'
<1>1. \A v \in Txns : record[v] \in RecordType /\ record'[v] \in RecordType
                      /\ (record[v].recovery =>
                             record[v].status \in {"committing", "reverting", "failed"})
  BY DEF IInv, Types, JournalOK, Renders
<1>2. SUFFICES ASSUME NEW f \in Files, x[f] \in Txns
               PROVE  record'[x[f]].status = "committed"
  BY Constants DEF OnCommitted
<1>3. PICK v \in Txns : v = x[f] /\ record[v].status = "committed" /\ v # t
  BY <1>2 DEF OnCommitted
<1>4. CASE Fades(record[v], record'[v])
  BY <1>1, <1>3, <1>4, FadingStatus
<1>5. CASE v = q.txn /\ Serves(q, record[v], record'[v])
  <2>1. q.op = "revert"
    BY <1>1, <1>3, <1>5, ServingStatus
  <2>2. Fades(record[v], record'[v])
    BY <1>3, <1>5, <2>1 DEF Renders
  <2>. QED
    BY <1>4, <2>2
<1>. QED
  BY <1>3, <1>4, <1>5 DEF Renders

LEMMA Recorded ==
    ASSUME IInv, NEW t \in Txns
    PROVE  /\ record[t] \in RecordType
           /\ record[t].recovery => record[t].status \in {"committing", "reverting", "failed"}
           /\ record[t].status \in Statuses /\ record[t].gen \in Nat
           /\ record[t].original \in Bytes /\ Real(record[t].original)
           /\ record[t].status = "reverting" => OnlyCreates(record[t])
BY DEF IInv, Types, JournalOK, RecordType

LEMMA CreatesOnNothing ==
    ASSUME workspace \in Workspaces, NEW r, OnlyCreates(r)
    PROVE  OnCommitted(r.original)
BY Basics DEF OnlyCreates, OnCommitted

LEMMA JournalFitsStays ==
    ASSUME IInv, UNCHANGED <<workspace, disk, seen>>,
           NEW q \in QueryType, QueryOK(q), QueryFits(q), Renders(q),
           NEW t \in Txns, JournalFits(t),
           \/ told'[t] \notin {"unchanged", "undone"}
           \/ told'[t] = told[t]
           \/ /\ t = q.txn /\ q.op \in {"fail", "rollback"}
              /\ Serves(q, record[t], record'[t])
    PROVE  JournalFits(t)'
<1>1. PICK r \in RecordType : r = record[t]
  BY Recorded
<1>2. PICK u \in RecordType : u = record'[t]
  BY DEF Renders
<1>3. /\ r.recovery => r.status \in {"committing", "reverting", "failed"}
      /\ r.status \in Statuses /\ u.status \in Statuses
      /\ r.recovery \in BOOLEAN /\ u.recovery \in BOOLEAN
  BY <1>1, <1>2, Recorded DEF RecordType
<1>4. Fades(r, u) \/ (t = q.txn /\ Serves(q, r, u))
  BY <1>1, <1>2 DEF Renders
<1>5. /\ Early(r) => seen[t] = {}
      /\ r.status = "rolled_back" => Gone(t)
      /\ \A f \in Files : r.original[f] # t
      /\ Underway(r) => OnCommitted(r.original)
      /\ told[t] \in {"unchanged", "undone"} =>
            r.status = "rolled_back" \/ (r.status = "failed" /\ ~r.recovery)
  BY <1>1 DEF JournalFits
<1>6. workspace \in Workspaces
  BY DEF IInv, Types
<1>7. Early(u) => seen[t] = {}
  BY <1>1, <1>3, <1>4, <1>5, FadingStatus, ServingStatus DEF QueryFits
<1>8. u.status = "rolled_back" => Gone(t)
  <2>1. CASE Fades(r, u)
    BY <1>3, <1>5, <2>1, FadingStatus DEF Statuses
  <2>2. CASE t = q.txn /\ Serves(q, r, u)
    BY <1>1, <1>3, <2>2, ServingStatus DEF QueryFits
  <2>. QED
    BY <1>4, <2>1, <2>2
<1>9. \A f \in Files : u.original[f] # t
  <2>1. CASE Fades(r, u)
    BY <1>5, <2>1 DEF Fades
  <2>2. CASE t = q.txn /\ Serves(q, r, u) /\ r.status # "none"
    BY <1>3, <1>5, <2>2, ServingStatus
  <2>3. CASE t = q.txn /\ Serves(q, r, u) /\ r.status = "none"
    <3>1. u.original = q.files
      BY <2>3 DEF Serves
    <3>2. seen[t] = {}
      BY <1>5, <2>3 DEF Early
    <3>. QED
      BY <3>1, <3>2 DEF QueryOK, Real
  <2>. QED
    BY <1>4, <2>1, <2>2, <2>3
<1>10. ASSUME Underway(u)
       PROVE  OnCommitted(u.original)'
  <2>1. Open(record'[t])
    BY <1>2, <1>3, <1>10 DEF Underway, Open, Finished
  <2>2. OnCommitted(u.original)
    <3>1. CASE Fades(r, u)
      BY <1>3, <1>5, <1>10, <3>1, FadingStatus
    <3>2. CASE t = q.txn /\ Serves(q, r, u)
      <4>1. CASE q.op # "prepare" /\ Underway(r)
        <5>1. r.status # "none"
          BY <4>1 DEF Underway
        <5>. QED
          BY <1>3, <1>5, <3>2, <4>1, <5>1, ServingStatus
      <4>2. CASE q.op = "commit" /\ r.status = "authorized"
        BY <1>1, <1>3, <3>2, <4>2, ServingStatus DEF QueryFits
      <4>3. CASE q.op = "unresolved" /\ ~Past(r)
        BY <1>1, <3>2, <4>3 DEF QueryFits, Closing
      <4>4. CASE q.op = "revert" /\ OnlyCreates(r)
        <5>1. r.status # "none"
          BY <3>2, <4>4 DEF Serves
        <5>2. u.original = r.original
          BY <1>3, <3>2, <5>1, ServingStatus
        <5>. QED
          BY <1>6, <4>4, <5>2, CreatesOnNothing
      <4>. QED
        BY <1>3, <1>10, <3>2, <4>1, <4>2, <4>3, <4>4, ServingStatus
    <3>. QED
      BY <1>4, <3>1, <3>2
  <2>3. PICK x : x = u.original
    OBVIOUS
  <2>4. OnCommitted(x)'
    BY <1>9, <2>1, <2>2, <2>3, CommittedStays
  <2>5. OnCommitted(x)' = OnCommitted(u.original)'
    BY <2>3 DEF OnCommitted
  <2>. QED
    BY <2>4, <2>5
<1>11. told'[t] \in {"unchanged", "undone"} =>
          u.status = "rolled_back" \/ (u.status = "failed" /\ ~u.recovery)
  <2>1. CASE t = q.txn /\ q.op \in {"fail", "rollback"} /\ Serves(q, r, u)
    BY <2>1 DEF Serves
  <2>2. CASE told'[t] = told[t] /\ Fades(r, u)
    BY <1>3, <1>5, <2>2 DEF Fades
  <2>3. CASE told'[t] = told[t] /\ Serves(q, r, u)
    BY <1>3, <1>5, <2>3, ServingStatus
  <2>. QED
    BY <1>1, <1>2, <1>4, <2>1, <2>2, <2>3
<1>12. /\ Gone(t)' <=> Gone(t)
       /\ Early(u)' <=> Early(u)
       /\ Underway(u)' <=> Underway(u)
  BY Constants DEF Gone, Early, Underway
<1>. QED
  BY <1>2, <1>7, <1>8, <1>9, <1>10, <1>11, <1>12, Constants
     DEF JournalFits, Early, Underway, OnCommitted, Gone

LEMMA QueryFitsStays ==
    ASSUME IInv, UNCHANGED <<workspace, disk, seen>>,
           NEW q \in QueryType, Renders(q),
           NEW p \in QueryType, QueryOK(p), QueryFits(p), JournalFits(p.txn)
    PROVE  QueryFits(p)'
<1>1. PICK t \in Txns : t = p.txn
  BY DEF QueryType
<1>2. PICK r \in RecordType : r = record[t]
  BY Recorded
<1>3. PICK u \in RecordType : u = record'[t]
  BY DEF Renders
<1>4. /\ r.recovery => r.status \in {"committing", "reverting", "failed"}
      /\ r.status \in Statuses /\ u.status \in Statuses
      /\ r.gen \in Nat /\ u.gen \in Nat /\ p.gen \in Nat /\ p.op \in Ops
  BY <1>2, <1>3, Recorded DEF RecordType, QueryType
<1>5. Fades(r, u) \/ (t = q.txn /\ Serves(q, r, u))
  BY <1>1, <1>2, <1>3 DEF Renders
<1>6. /\ p.op = "prepare" \/ p.gen <= r.gen
      /\ p.op \in Closing \ {"fail"} => Past(r)
      /\ p.op = "commit" =>
            r.status # "preparing" /\ (r.status = "authorized" => OnCommitted(r.original))
      /\ p.op = "fail" => seen[t] = {}
      /\ p.op = "rollback" /\ p.gen = r.gen /\ Underway(r) => Gone(t)
      /\ p.op # "prepare" => r.status # "none"
      /\ \A f \in Files : r.original[f] # t
  BY <1>1, <1>2 DEF QueryFits, QueryOK, JournalFits
<1>7. Past(r) => Past(u)
  BY <1>4, <1>5, FadingStatus, ServingStatus
<1>8. /\ r.status # "none" => u.gen >= r.gen /\ u.original = r.original
      /\ q.op = "revert" /\ Serves(q, r, u) => u.gen > r.gen
  <2>1. ASSUME Serves(q, r, u)
        PROVE  /\ r.status # "none" => u.gen >= r.gen /\ u.original = r.original
               /\ q.op = "revert" => u.gen > r.gen
    <3>1. r.status # "none" => u.original = r.original
             /\ u.gen = r.gen + (IF q.op \in {"recover", "revert"} THEN 1 ELSE 0)
      BY <1>4, <2>1, ServingStatus
    <3>2. q.op = "revert" => r.status # "none"
      BY <2>1 DEF Serves
    <3>. QED
      BY <1>4, <3>1, <3>2
  <2>2. CASE Fades(r, u)
    BY <1>4, <2>1, <2>2 DEF Fades
  <2>. QED
    BY <1>5, <2>1, <2>2
<1>9. p.op = "commit" => u.status # "preparing"
  BY <1>4, <1>5, <1>6 DEF Fades, Serves
<1>10. ASSUME p.op = "commit", u.status = "authorized"
       PROVE  OnCommitted(u.original)'
  <2>1. r.status = "authorized"
    <3>1. CASE Fades(r, u)
      BY <1>4, <1>10, <3>1, FadingStatus
    <3>2. CASE Serves(q, r, u)
      BY <1>4, <1>6, <1>10, <3>2, ServingStatus
    <3>. QED
      BY <1>5, <3>1, <3>2
  <2>2. u.original = r.original /\ OnCommitted(r.original)
    BY <1>6, <1>8, <1>10, <2>1
  <2>3. Open(record'[t])
    BY <1>3, <1>10 DEF Open, Finished
  <2>4. PICK x : x = u.original
    OBVIOUS
  <2>5. OnCommitted(x)'
    BY <1>6, <2>2, <2>3, <2>4, CommittedStays
  <2>6. OnCommitted(x)' = OnCommitted(u.original)'
    BY <2>4 DEF OnCommitted
  <2>. QED
    BY <2>5, <2>6
<1>11. p.op = "rollback" /\ p.gen = u.gen /\ Underway(u) => Gone(t)
  <2>1. SUFFICES ASSUME p.op = "rollback", p.gen = u.gen, Underway(u)
                 PROVE  Underway(r) /\ p.gen = r.gen
    BY <1>6
  <2>2. Past(r) /\ r.status # "none"
    BY <1>6, <2>1 DEF Closing
  <2>3. p.gen = r.gen
    BY <1>4, <1>6, <1>8, <2>1, <2>2
  <2>4. CASE Fades(r, u)
    BY <1>4, <2>1, <2>3, <2>4, FadingStatus
  <2>5. CASE Serves(q, r, u)
    <3>1. q.op # "revert"
      BY <1>4, <1>8, <2>1, <2>3, <2>5
    <3>2. ~(q.op = "commit" /\ r.status = "authorized") /\ ~(q.op = "unresolved" /\ ~Past(r))
      BY <2>2 DEF Past
    <3>. QED
      BY <1>4, <2>1, <2>3, <2>5, <3>1, <3>2, ServingStatus
  <2>. QED
    BY <1>5, <2>4, <2>5
<1>12. p.op = "prepare" \/ p.gen <= u.gen
  BY <1>4, <1>6, <1>8
<1>13. Gone(t)' <=> Gone(t)
  BY Constants DEF Gone
<1>. QED
  BY <1>1, <1>3, <1>6, <1>7, <1>9, <1>10, <1>11, <1>12, <1>13, Constants
     DEF QueryFits, Past, Underway, OnCommitted, Gone

\* A tab with no transaction fits anything.
LEMMA NothingStays ==
    ASSUME NEW w, StateOK(w), w.txn = NoTxn
    PROVE  StageFits(w) /\ StageFits(w)'
<1>1. w.pc \in WithoutJournal
  BY DEF StateOK
<1>. QED
  BY <1>1 DEF StageFits, WithoutJournal, NothingWritten, MayHaveWritten, Savers

LEMMA StageFitsStays ==
    ASSUME IInv, UNCHANGED <<workspace, disk, seen>>,
           NEW q \in QueryType, Renders(q),
           NEW w \in TabType, StateOK(w), StageFits(w), Coexist(w, q),
           w.txn \in Txns => JournalFits(w.txn)
    PROVE  StageFits(w)'
<1>1. CASE w.txn = NoTxn
  BY <1>1, NothingStays
<1>2. CASE w.txn # NoTxn
  <2>1. PICK t \in Txns : t = w.txn
    BY <1>2 DEF TabType
  <2>2. PICK r \in RecordType : r = record[t]
    BY Recorded
  <2>3. PICK u \in RecordType : u = record'[t]
    BY DEF Renders
  <2>4. /\ r.recovery => r.status \in {"committing", "reverting", "failed"}
        /\ r.status \in Statuses /\ u.status \in Statuses /\ w.pc \in Pcs
        /\ r.recovery \in BOOLEAN /\ u.recovery \in BOOLEAN
        /\ r.gen \in Nat /\ u.gen \in Nat /\ q.gen \in Nat /\ w.gen \in Nat /\ q.op \in Ops
    BY <2>2, <2>3, Recorded DEF RecordType, QueryType, TabType
  <2>5. Fades(r, u) \/ (t = q.txn /\ Serves(q, r, u))
    BY <2>1, <2>2, <2>3 DEF Renders
  <2>6. /\ w.gen <= r.gen
        /\ w.pc \in MayHaveWritten => Past(r)
        /\ w.pc \in NothingWritten =>
              seen[t] = {} /\ r.status \in {"preparing", "authorized", "committing", "abandoned"}
        /\ w.pc \in {"recheck", "commit"} => r.status # "preparing"
        /\ w.pc = "commit" /\ r.status = "authorized" => OnCommitted(r.original)
        /\ w.pc \in Savers \ NothingWritten => r.status = "committing"
        /\ w.pc = "rollback" => Gone(t)
        /\ w.pc = "revert" => r.status \in {"committed", "reverting", "rolled_back"}
        /\ w.pc \in {"verify", "remove"} => r.status \in {"reverting", "rolled_back"}
        /\ w.pc = "restore" => r.status # "committed" /\ (Underway(r) \/ OnlyCreates(r))
        /\ w.pc \in {"restore", "remove"} =>
              \A f \in Files \ w.left : f # w.at => disk[f] # t
        /\ r.status # "none"
    BY <1>2, <2>1, <2>2 DEF StageFits, StateOK
  <2>7. t = q.txn => /\ w.pc \in Savers => q.op \notin Closing
                     /\ /\ w.pc = "restore"
                        /\ \/ q.op \in {"receipt", "fail"}
                           \/ q.op = "rollback" /\ ~OnlyCreates(r)
                        => q.gen < w.gen
    BY <2>1, <2>2 DEF Coexist
  <2>8. u.original = r.original /\ u.gen >= r.gen /\ (OnlyCreates(u) <=> OnlyCreates(r))
    <3>1. CASE Fades(r, u)
      BY <2>4, <3>1 DEF Fades, OnlyCreates
    <3>2. CASE Serves(q, r, u)
      <4>1. u.original = r.original
            /\ u.gen = r.gen + (IF q.op \in {"recover", "revert"} THEN 1 ELSE 0)
        BY <2>4, <2>6, <3>2, ServingStatus
      <4>. QED
        BY <2>4, <4>1 DEF OnlyCreates
    <3>. QED
      BY <2>5, <3>1, <3>2
  <2>9. Past(r) => Past(u)
    BY <2>4, <2>5, FadingStatus, ServingStatus
  <2>10. /\ w.pc \in NothingWritten =>
               u.status \in {"preparing", "authorized", "committing", "abandoned"}
         /\ w.pc \in {"recheck", "commit"} => u.status # "preparing"
         /\ w.pc \in Savers \ NothingWritten => u.status = "committing"
    <3>1. CASE Fades(r, u)
      BY <2>4, <2>6, <3>1 DEF Fades
    <3>2. CASE t = q.txn /\ Serves(q, r, u)
      BY <2>4, <2>6, <2>7, <3>2 DEF Serves, Savers, Closing, Ops
    <3>. QED
      BY <2>5, <3>1, <3>2
  <2>11. ASSUME w.pc = "commit", u.status = "authorized"
         PROVE  OnCommitted(u.original)'
    <3>1. r.status = "authorized"
      <4>1. CASE Fades(r, u)
        BY <2>4, <2>11, <4>1, FadingStatus
      <4>2. CASE Serves(q, r, u)
        BY <2>4, <2>6, <2>11, <4>2, ServingStatus
      <4>. QED
        BY <2>5, <4>1, <4>2
    <3>2. OnCommitted(r.original)
      BY <2>6, <2>11, <3>1
    <3>3. Open(record'[t])
      BY <2>3, <2>11 DEF Open, Finished
    <3>4. PICK x : x = u.original
      OBVIOUS
    <3>5. \A f \in Files : x[f] # t
      BY <2>1, <2>2, <2>8, <3>4 DEF JournalFits
    <3>6. OnCommitted(x)'
      BY <2>8, <3>2, <3>3, <3>4, <3>5, CommittedStays
    <3>7. OnCommitted(x)' = OnCommitted(u.original)'
      BY <3>4 DEF OnCommitted
    <3>. QED
      BY <3>6, <3>7
  <2>12. /\ w.pc = "revert" => u.status \in {"committed", "reverting", "rolled_back"}
         /\ w.pc \in {"verify", "remove"} => u.status \in {"reverting", "rolled_back"}
    BY <2>4, <2>5, <2>6 DEF Fades, Serves
  <2>13. w.pc = "restore" => u.status # "committed" /\ (Underway(u) \/ OnlyCreates(u))
    <3>1. CASE Fades(r, u)
      BY <2>4, <2>6, <2>8, <3>1, FadingStatus
    <3>2. CASE t = q.txn /\ Serves(q, r, u)
      <4>1. SUFFICES ASSUME w.pc = "restore"
                     PROVE  u.status # "committed" /\ (Underway(u) \/ OnlyCreates(u))
        OBVIOUS
      <4>2. q.op \in {"receipt", "fail"} \/ (q.op = "rollback" /\ ~OnlyCreates(r)) =>
               q.gen < w.gen
        BY <2>7, <3>2, <4>1
      <4>3. q.op \in {"receipt", "fail", "rollback"} => q.gen = r.gen
        BY <3>2 DEF Serves
      <4>4. ~(q.gen < w.gen /\ q.gen = r.gen)
        BY <2>4, <2>6
      <4>5. q.op \notin {"receipt", "fail"} /\ (q.op = "rollback" => OnlyCreates(r))
        BY <4>2, <4>3, <4>4
      <4>6. r.status # "committed" /\ (Underway(r) \/ OnlyCreates(r))
        BY <2>6, <4>1
      <4>7. u.status # "committed"
        BY <2>4, <3>2, <4>5, <4>6 DEF Serves
      <4>8. CASE Underway(r) /\ ~OnlyCreates(r)
        BY <2>4, <3>2, <4>5, <4>8 DEF Serves, Underway
      <4>. QED
        BY <2>8, <4>6, <4>7, <4>8
    <3>. QED
      BY <2>5, <3>1, <3>2
  <2>14. /\ Gone(t)' <=> Gone(t)
         /\ OnlyCreates(u)' <=> OnlyCreates(u)
    BY Constants DEF Gone, OnlyCreates
  <2>15. w.gen <= u.gen
    BY <2>4, <2>6, <2>8
  <2>. QED
    BY <2>1, <2>3, <2>6, <2>9, <2>10, <2>11, <2>12, <2>13, <2>14, <2>15, Constants
       DEF StageFits, Past, Underway, OnlyCreates, OnCommitted, Gone
<1>. QED
  BY <1>1, <1>2

LEMMA CoexistStays ==
    ASSUME IInv, workspace' = workspace, \A t \in Txns : Evolves(t),
           NEW w \in TabType, StateOK(w), NEW p \in QueryType, Coexist(w, p)
    PROVE  Coexist(w, p)'
<1>1. CASE w.txn = NoTxn
  <2>1. NoTxn \notin Txns
    BY Basics DEF IInv, Types
  <2>. QED
    BY <1>1, <2>1 DEF Coexist, QueryType
<1>2. CASE w.txn # NoTxn
  <2>1. w.txn \in Txns
    BY <1>2 DEF TabType
  <2>2. record'[w.txn].original = record[w.txn].original
    BY <1>2, <2>1 DEF StateOK, Evolves
  <2>3. OnlyCreates(record[w.txn])' <=> OnlyCreates(record[w.txn])
    BY <2>2, Constants DEF OnlyCreates
  <2>. QED
    BY <2>3 DEF Coexist
<1>. QED
  BY <1>1, <1>2

LEMMA FitsIn ==
    ASSUME NEW c \in Tabs, NEW w, tab'[c] = w
    PROVE  /\ StageFits(w)' => StageFits(tab[c])'
           /\ \A p : Coexist(w, p)' => Coexist(tab[c], p)'
BY DEF StageFits, Coexist, Past, Underway, OnlyCreates, OnCommitted, Gone

\* The parts of the second invariant after tab b moved to v.
LEMMA FitsAssembled ==
    ASSUME IInv, PInv, workspace' = workspace, OneOpen', \A t \in Txns : JournalFits(t)',
           \A p \in late' : QueryFits(p)',
           NEW b \in Tabs, NEW v \in TabType, tab' = [tab EXCEPT ![b] = v],
           StageFits(v)', \A p \in late' : Coexist(v, p)',
           \A c \in Tabs \ {b} : NoClash(v, tab[c]),
           \A c \in Tabs \ {b} : StageFits(tab[c])',
           \A c \in Tabs \ {b}, p \in late' : Coexist(tab[c], p)'
    PROVE  PInv'
<1>1. tab'[b] = v /\ \A c \in Tabs \ {b} : tab'[c] = tab[c]
  BY DEF IInv, Types
<1>2. StageFits(tab[b])' /\ \A p \in late' : Coexist(tab[b], p)'
  BY <1>1, FitsIn
<1>3. \A c, d \in Tabs : c # d => NoClash(tab[c], tab[d])'
  BY <1>1 DEF NoClash, PInv
<1>. QED
  BY <1>2, <1>3, Constants DEF PInv

LEMMA AskFits ==
    ASSUME IInv, PInv, NEW b \in Tabs, NEW q \in QueryType, QueryOK(q), QueryFits(q),
           \A c \in Tabs \ {b} : Coexist(tab[c], q),
           NEW next \in TabType, NEW otherwise \in TabType, NEW word, NEW errorWord,
           Ask(b, q, next, word, otherwise, errorWord),
           word \in {"unchanged", "undone"} =>
              q.txn = tab[b].txn /\ q.op \in {"fail", "rollback"},
           errorWord \notin {"unchanged", "undone"},
           q.op \in {"recover", "revert"} => record[q.txn].gen < MaxGen,
           StateOK(otherwise), StageFits(otherwise),
           Coexist(otherwise, q), \A p \in late : Coexist(otherwise, p),
           \A c \in Tabs \ {b} : NoClash(next, tab[c]),
           \A c \in Tabs \ {b} : NoClash(otherwise, tab[c]),
           Served1(q) => StageFits(next)' /\ \A p \in late : Coexist(next, p)'
    PROVE  PInv'
<1>1. /\ UNCHANGED <<workspace, disk, edits, seen>>
      /\ Journalled(q)
      /\ late' \subseteq late \cup {q}
      /\ \/ Served1(q) /\ late' = late /\ Go(b, next, word)
         \/ (record' = Served(q) \/ record' = record) /\ Go(b, otherwise, errorWord)
  BY Asked
<1>2. seen' \in [Txns -> SUBSET Files] /\ SeenGrows
  BY <1>1 DEF IInv, Types, SeenGrows
<1>3. \A t \in Txns : Evolves(t)
  BY <1>1, <1>2, JournalledKeeps
<1>4. Renders(q)
  BY <1>1, ServedRenders DEF Served1
<1>5. \A t \in Txns : JournalFits(t)
  BY DEF PInv
<1>6. OneOpen'
  BY <1>1, <1>4, OnlyOneOpens DEF PInv
<1>7. ASSUME NEW t \in Txns
      PROVE  JournalFits(t)'
  <2>1. \/ told'[t] \notin {"unchanged", "undone"}
        \/ told'[t] = told[t]
        \/ /\ t = q.txn /\ q.op \in {"fail", "rollback"}
           /\ Serves(q, record[t], record'[t])
    <3>1. told \in [Txns -> Words]
      BY DEF IInv, Types
    <3>2. CASE Served1(q) /\ Go(b, next, word)
      BY <3>1, <3>2 DEF Go, Served1
    <3>3. CASE Go(b, otherwise, errorWord)
      BY <3>1, <3>3 DEF Go
    <3>. QED
      BY <1>1, <3>2, <3>3
  <2>. QED
    BY <1>1, <1>4, <1>5, <2>1, JournalFitsStays
<1>8. ASSUME NEW p \in late'
      PROVE  QueryFits(p)'
  <2>1. p \in QueryType /\ QueryOK(p) /\ QueryFits(p)
    BY <1>1 DEF IInv, Types, PInv
  <2>2. p.txn \in Txns
    BY <2>1 DEF QueryType
  <2>. QED
    BY <1>1, <1>4, <1>5, <2>1, <2>2, QueryFitsStays
<1>9. ASSUME NEW w \in TabType, StateOK(w), StageFits(w), \A p \in late \cup {q} : Coexist(w, p)
      PROVE  StageFits(w)' /\ \A p \in late' : Coexist(w, p)'
  <2>1. StageFits(w)'
    BY <1>1, <1>4, <1>5, <1>9, StageFitsStays
  <2>2. ASSUME NEW p \in late'
        PROVE  Coexist(w, p)'
    <3>1. p \in QueryType /\ Coexist(w, p)
      BY <1>1, <1>9 DEF IInv, Types
    <3>. QED
      BY <1>1, <1>3, <1>9, <3>1, CoexistStays
  <2>. QED
    BY <2>1, <2>2
<1>10. PICK v \in TabType :
          /\ tab' = [tab EXCEPT ![b] = v]
          /\ StageFits(v)' /\ \A p \in late' : Coexist(v, p)'
          /\ \A c \in Tabs \ {b} : NoClash(v, tab[c])
  <2>1. CASE Served1(q) /\ late' = late /\ Go(b, next, word)
    BY <2>1 DEF Go
  <2>2. CASE Go(b, otherwise, errorWord)
    BY <1>9, <2>2 DEF Go
  <2>. QED
    BY <1>1, <2>1, <2>2
<1>11. ASSUME NEW c \in Tabs \ {b}
       PROVE  StageFits(tab[c])' /\ \A p \in late' : Coexist(tab[c], p)'
  <2>1. PICK w \in TabType : w = tab[c]
    BY DEF IInv, Types
  <2>2. StateOK(w) /\ StageFits(w) /\ \A p \in late \cup {q} : Coexist(w, p)
    BY <2>1 DEF IInv, PInv
  <2>3. tab'[c] = w
    BY <1>10, <2>1 DEF IInv, Types
  <2>. QED
    BY <1>9, <2>2, <2>3, FitsIn
<1>. QED
  BY <1>1, <1>6, <1>7, <1>8, <1>10, <1>11, FitsAssembled

\* A late request is no more than one its tab is still waiting for.
LEMMA DeliverFits ==
    ASSUME IInv, PInv, NEW q \in late, Deliver(q)
    PROVE  PInv'
<1>1. /\ UNCHANGED <<workspace, disk, edits, tab, told, seen>>
      /\ late' = late \ {q} /\ record' = Served(q)
      /\ q.op \in {"recover", "revert"} => record[q.txn].gen < MaxGen
  BY DEF Deliver
<1>2. q \in QueryType /\ QueryOK(q) /\ QueryFits(q) /\ \A b \in Tabs : Coexist(tab[b], q)
  BY DEF IInv, Types, PInv
<1>3. Renders(q) /\ Journalled(q)
  BY <1>1, <1>2, ServedRenders, RequestServed
<1>4. seen' \in [Txns -> SUBSET Files] /\ SeenGrows
  BY <1>1 DEF IInv, Types, SeenGrows
<1>5. \A t \in Txns : Evolves(t)
  BY <1>1, <1>2, <1>3, <1>4, JournalledKeeps
<1>6. \A t \in Txns : JournalFits(t)
  BY DEF PInv
<1>7. OneOpen'
  BY <1>1, <1>2, <1>3, OnlyOneOpens DEF PInv
<1>8. \A t \in Txns : JournalFits(t)'
  BY <1>1, <1>2, <1>3, <1>6, JournalFitsStays
<1>9. ASSUME NEW p \in late'
      PROVE  QueryFits(p)'
  <2>1. p \in QueryType /\ QueryOK(p) /\ QueryFits(p)
    BY <1>1 DEF IInv, Types, PInv
  <2>2. p.txn \in Txns
    BY <2>1 DEF QueryType
  <2>. QED
    BY <1>1, <1>2, <1>3, <1>6, <2>1, <2>2, QueryFitsStays
<1>10. ASSUME NEW c \in Tabs
       PROVE  StageFits(tab[c])' /\ \A p \in late' : Coexist(tab[c], p)'
  <2>1. PICK w \in TabType : w = tab[c]
    BY DEF IInv, Types
  <2>2. StateOK(w) /\ StageFits(w) /\ \A p \in late : Coexist(w, p)
    BY <2>1 DEF IInv, PInv
  <2>3. StageFits(w)'
    BY <1>1, <1>2, <1>3, <1>6, <2>2, StageFitsStays
  <2>4. ASSUME NEW p \in late'
        PROVE  Coexist(w, p)'
    <3>1. p \in QueryType /\ Coexist(w, p)
      BY <1>1, <2>2 DEF IInv, Types
    <3>. QED
      BY <1>1, <1>5, <2>2, <3>1, CoexistStays
  <2>5. tab'[c] = w
    BY <1>1, <2>1
  <2>. QED
    BY <2>3, <2>4, <2>5, FitsIn
<1>11. \A c, d \in Tabs : c # d => NoClash(tab[c], tab[d])'
  BY <1>1 DEF NoClash, PInv
<1>. QED
  BY <1>1, <1>7, <1>8, <1>9, <1>10, <1>11, Constants DEF PInv

\* Nor is a journal that fades.
LEMMA FadesFit ==
    ASSUME IInv, PInv, UNCHANGED <<workspace, disk, edits, tab, told, seen>>,
           record' \in [Txns -> RecordType], \A t \in Txns : Fades(record[t], record'[t]),
           late' \in {late, {}}
    PROVE  PInv'
<1>1. seen' \in [Txns -> SUBSET Files] /\ SeenGrows
  BY DEF IInv, Types, SeenGrows
<1>2. \A t \in Txns : Evolves(t) /\ JournalFits(t)
  BY <1>1, FadingKeeps DEF PInv
<1>3. ASSUME NEW t \in Txns
      PROVE  \E q \in QueryType : /\ q.txn = t /\ q.op = "prepare"
                                  /\ QueryOK(q) /\ QueryFits(q) /\ Renders(q)
  <2>1. PICK q \in QueryType : q = [op |-> "prepare", txn |-> t, gen |-> 0, files |-> disk]
    BY DEF QueryType, Ops, IInv, Types
  <2>2. q.txn = t /\ q.op = "prepare" /\ q.files = disk
    BY <2>1
  <2>. QED
    BY <2>2 DEF QueryOK, QueryFits, Renders, Closing, IInv
<1>4. OneOpen'
  <2>1. CASE Txns = {}
    BY <2>1, Constants DEF OneOpen
  <2>2. CASE Txns # {}
    BY <1>3, <2>2, OnlyOneOpens DEF PInv
  <2>. QED
    BY <2>1, <2>2
<1>5. \A t \in Txns : JournalFits(t)'
  BY <1>2, <1>3, JournalFitsStays
<1>6. ASSUME NEW p \in late'
      PROVE  QueryFits(p)'
  <2>1. p \in QueryType /\ QueryOK(p) /\ QueryFits(p)
    BY DEF IInv, Types, PInv
  <2>2. p.txn \in Txns
    BY <2>1 DEF QueryType
  <2>. QED
    BY <1>2, <1>3, <2>1, <2>2, QueryFitsStays
<1>7. ASSUME NEW c \in Tabs
      PROVE  StageFits(tab[c])' /\ \A p \in late' : Coexist(tab[c], p)'
  <2>1. PICK w \in TabType : w = tab[c]
    BY DEF IInv, Types
  <2>2. StateOK(w) /\ StageFits(w) /\ \A p \in late : Coexist(w, p)
    BY <2>1 DEF IInv, PInv
  <2>3. StageFits(w)'
    <3>1. CASE w.txn \in Txns
      <4>1. PICK q \in QueryType : q.txn = w.txn /\ q.op = "prepare" /\ Renders(q)
        BY <1>3, <3>1
      <4>2. Coexist(w, q)
        BY <4>1 DEF Coexist, Closing
      <4>. QED
        BY <1>2, <2>2, <3>1, <4>1, <4>2, StageFitsStays
    <3>2. CASE w.txn = NoTxn
      BY <2>2, <3>2, NothingStays
    <3>. QED
      BY <3>1, <3>2 DEF TabType
  <2>4. ASSUME NEW p \in late'
        PROVE  Coexist(w, p)'
    <3>1. p \in QueryType /\ Coexist(w, p)
      BY <2>2 DEF IInv, Types
    <3>. QED
      BY <1>2, <2>2, <3>1, CoexistStays
  <2>5. tab'[c] = w
    BY <2>1
  <2>. QED
    BY <2>3, <2>4, <2>5, FitsIn
<1>8. \A c, d \in Tabs : c # d => NoClash(tab[c], tab[d])'
  BY DEF NoClash, PInv
<1>. QED
  BY <1>4, <1>5, <1>6, <1>7, <1>8, Constants DEF PInv

-----------------------------------------------------------------------------
(* A tab moves by itself, and files change.                                *)

\* No file gets the bytes of u that had others.
Unspoilt(u) == (\A f \in Files : disk'[f] = u => disk[f] = u) /\ seen'[u] = seen[u]

\* The bytes that appear are those of committed saves.
Harmless(u) == Unspoilt(u) \/ (record[u].status = "committed" /\ seen'[u] = seen[u])

LEMMA JournalFitsMove ==
    ASSUME UNCHANGED <<workspace, record>>, NEW t \in Txns, JournalFits(t),
           told'[t] = told[t] \/ told'[t] \notin {"unchanged", "undone"},
           Harmless(t) \/ record[t].status = "committing"
    PROVE  JournalFits(t)'
<1>1. Gone(t) /\ Unspoilt(t) => Gone(t)'
  BY Constants DEF Gone, Unspoilt
<1>2. OnCommitted(record[t].original)' <=> OnCommitted(record[t].original)
  BY Constants DEF OnCommitted
<1>3. Early(record[t]) => seen'[t] = {}
  BY DEF JournalFits, Harmless, Unspoilt, Early
<1>4. record[t].status = "rolled_back" => Gone(t)'
  BY <1>1 DEF JournalFits, Harmless
<1>. QED
  BY <1>2, <1>3, <1>4, Constants DEF JournalFits, Early, Underway

LEMMA QueryFitsMove ==
    ASSUME UNCHANGED <<workspace, record>>, NEW p \in QueryType, QueryFits(p),
           Harmless(p.txn) \/ p.op \notin Closing
    PROVE  QueryFits(p)'
<1>1. Gone(p.txn) /\ Unspoilt(p.txn) => Gone(p.txn)'
  BY Constants DEF Gone, Unspoilt
<1>2. OnCommitted(record[p.txn].original)' <=> OnCommitted(record[p.txn].original)
  BY Constants DEF OnCommitted
<1>3. p.op = "fail" => seen'[p.txn] = {}
  BY DEF QueryFits, Harmless, Unspoilt, Closing
<1>4. p.op = "rollback" /\ p.gen = record[p.txn].gen /\ Underway(record[p.txn]) => Gone(p.txn)'
  BY <1>1 DEF QueryFits, Harmless, Closing, Underway
<1>. QED
  BY <1>2, <1>3, <1>4 DEF QueryFits, Past, Underway

LEMMA StageFitsMove ==
    ASSUME UNCHANGED <<workspace, record>>, NEW w \in TabType, StateOK(w), StageFits(w),
           w.txn \in Txns => Harmless(w.txn)
    PROVE  StageFits(w)'
<1>1. CASE w.txn = NoTxn
  BY <1>1, NothingStays
<1>2. CASE w.txn # NoTxn
  <2>1. PICK t \in Txns : t = w.txn
    BY <1>2 DEF TabType
  <2>2. Harmless(t)
    BY <2>1
  <2>3. Gone(t) /\ Unspoilt(t) => Gone(t)'
    BY Constants DEF Gone, Unspoilt
  <2>4. OnCommitted(record[t].original)' <=> OnCommitted(record[t].original)
    BY Constants DEF OnCommitted
  <2>5. OnlyCreates(record[t])' <=> OnlyCreates(record[t])
    BY Constants DEF OnlyCreates
  <2>6. w.pc \in NothingWritten => seen'[t] = {}
    BY <2>1, <2>2 DEF StageFits, Harmless, Unspoilt
  <2>7. w.pc = "rollback" => Gone(t)'
    BY <2>1, <2>2, <2>3 DEF StageFits, Harmless, Savers, NothingWritten
  <2>8. ASSUME w.pc \in {"restore", "remove"}, NEW f \in Files \ w.left, f # w.at
        PROVE  disk'[f] # t
    <3>1. disk[f] # t /\ record[t].status # "committed"
      BY <2>1, <2>8 DEF StageFits
    <3>. QED
      BY <2>2, <3>1 DEF Harmless, Unspoilt
  <2>. QED
    BY <2>1, <2>4, <2>5, <2>6, <2>7, <2>8, Constants DEF StageFits, Past, Underway
<1>. QED
  BY <1>1, <1>2

LEMMA MoveFits ==
    ASSUME IInv, PInv, NEW b \in Tabs, NEW w \in TabType,
           UNCHANGED <<workspace, record, late>>, tab' = [tab EXCEPT ![b] = w],
           \A t \in Txns : told'[t] = told[t] \/ told'[t] \notin {"unchanged", "undone"},
           \A u \in Txns : Harmless(u) \/ (u = tab[b].txn /\ tab[b].pc = "write"),
           StageFits(w)', \A p \in late : Coexist(w, p),
           \A c \in Tabs \ {b} : NoClash(w, tab[c])
    PROVE  PInv'
<1>1. tab[b].pc = "write" =>
         /\ record[tab[b].txn].status = "committing"
         /\ \A p \in late : p.txn = tab[b].txn => p.op \notin Closing
         /\ \A c \in Tabs \ {b} : tab[c].txn \in Txns => tab[c].txn # tab[b].txn
  <2>1. NoTxn \notin Txns
    BY Basics DEF IInv, Types
  <2>. QED
    BY <2>1 DEF PInv, StageFits, Coexist, NoClash, Savers, NothingWritten
<1>2. OneOpen'
  BY Constants DEF PInv, OneOpen, Open, Finished
<1>3. \A t \in Txns : JournalFits(t)'
  BY <1>1, JournalFitsMove DEF PInv
<1>4. ASSUME NEW p \in late'
      PROVE  QueryFits(p)'
  <2>1. p \in late /\ p \in QueryType /\ QueryFits(p) /\ p.txn \in Txns
    BY DEF IInv, Types, PInv, QueryType
  <2>. QED
    BY <1>1, <2>1, QueryFitsMove
<1>5. ASSUME NEW x \in TabType, NEW p \in QueryType, Coexist(x, p)
      PROVE  Coexist(x, p)'
  <2>1. OnlyCreates(record[x.txn])' <=> OnlyCreates(record[x.txn])
    BY Constants DEF OnlyCreates
  <2>. QED
    BY <1>5, <2>1 DEF Coexist
<1>6. ASSUME NEW c \in Tabs \ {b}
      PROVE  StageFits(tab[c])' /\ \A p \in late' : Coexist(tab[c], p)'
  <2>1. PICK x \in TabType : x = tab[c]
    BY DEF IInv, Types
  <2>2. StateOK(x) /\ StageFits(x) /\ \A p \in late : Coexist(x, p)
    BY <2>1 DEF IInv, PInv
  <2>3. StageFits(x)'
    BY <1>1, <2>1, <2>2, StageFitsMove
  <2>4. tab'[c] = x
    BY <2>1 DEF IInv, Types
  <2>5. late' = late /\ late \subseteq QueryType
    BY DEF IInv, Types
  <2>. QED
    BY <1>5, <2>2, <2>3, <2>4, <2>5, FitsIn
<1>7. \A p \in late' : Coexist(w, p)'
  BY <1>5 DEF IInv, Types
<1>. QED
  BY <1>2, <1>3, <1>4, <1>6, <1>7, FitsAssembled

-----------------------------------------------------------------------------
(* What the actions need of the second invariant.                          *)

LEMMA RestFits ==
    ASSUME IInv, NEW w, w = Rest
    PROVE  /\ w \in TabType /\ StateOK(w) /\ StageFits(w) /\ StageFits(w)'
           /\ w.at = NoFile
           /\ \A p \in late : Coexist(w, p)
           /\ \A p \in QueryType : Coexist(w, p)
           /\ \A v : NoClash(w, v)
<1>1. w \in TabType /\ StateOK(w) /\ w.at = NoFile /\ w.txn = NoTxn /\ NoTxn \notin Txns
      /\ late \subseteq QueryType
  BY RestIsFine, Values, Basics DEF IInv, Types
<1>2. \A p \in QueryType : Coexist(w, p)
  BY <1>1 DEF Coexist, QueryType
<1>. QED
  BY <1>1, <1>2, NothingStays DEF NoClash

\* A tab that was at work on a transaction, or has looked at its journal.
LEMMA AtWork ==
    ASSUME IInv, PInv, NEW b \in Tabs, tab[b].pc \notin WithoutJournal
    PROVE  /\ tab[b] \in TabType /\ StateOK(tab[b]) /\ StageFits(tab[b])
           /\ tab[b].txn # NoTxn /\ tab[b].txn \in Txns /\ tab[b].saw \in Bytes
           /\ Real(tab[b].saw) /\ tab[b].gen \in Nat /\ tab[b].gen <= record[tab[b].txn].gen
           /\ record[tab[b].txn].status # "none"
           /\ JournalFits(tab[b].txn)
           /\ tab[b].pc \in NothingWritten \cup MayHaveWritten
<1>1. tab[b] \in TabType /\ StateOK(tab[b]) /\ StageFits(tab[b])
  BY DEF IInv, PInv, Types
<1>2. tab[b].txn # NoTxn /\ tab[b].txn \in Txns
  BY <1>1 DEF StateOK, TabType
<1>. QED
  BY <1>1, <1>2 DEF PInv, StateOK, StageFits, TabType, MayHaveWritten

\* The tab goes on with its transaction: others have no more to fear from it.
LEMMA GoesOn ==
    ASSUME IInv, PInv, NEW b \in Tabs, NEW w \in TabType, w.txn = tab[b].txn,
           w.pc \in Savers => tab[b].pc \in Savers,
           tab[b].pc \in Undoers => w.pc \in Undoers
    PROVE  /\ \A c \in Tabs \ {b} : NoClash(w, tab[c])
           /\ w.pc # "restore" \/ (tab[b].pc = "restore" /\ w.gen = tab[b].gen) =>
                 \A p \in late : Coexist(w, p)
<1>1. \A c \in Tabs \ {b} : NoClash(tab[b], tab[c])
  BY DEF PInv
<1>2. \A p \in late : Coexist(tab[b], p)
  BY DEF PInv
<1>. QED
  BY <1>1, <1>2 DEF NoClash, Coexist

\* Other tabs have nothing to fear from what it asks for.
LEMMA OthersCoexist ==
    ASSUME IInv, PInv, NEW b \in Tabs, tab[b].pc \notin WithoutJournal,
           NEW q \in QueryType, q.txn = tab[b].txn,
           tab[b].pc \in Undoers =>
              q.op = "revert" \/ (q.op = "rollback" /\ OnlyCreates(record[tab[b].txn]))
    PROVE  \A c \in Tabs \ {b} : Coexist(tab[c], q)
<1>1. tab[b].txn # NoTxn
  BY AtWork
<1>2. \A c \in Tabs \ {b} : NoClash(tab[b], tab[c])
  BY DEF PInv
<1>. QED
  BY <1>1, <1>2 DEF NoClash, Coexist, Undoers

LEMMA AcceptedFits ==
    ASSUME IInv, NEW q \in QueryType, Served1(q), q.op # "prepare"
    PROVE  /\ Serves(q, record[q.txn], record'[q.txn])
           /\ record'[q.txn].gen =
                 record[q.txn].gen + (IF q.op \in {"recover", "revert"} THEN 1 ELSE 0)
           /\ record'[q.txn].original = record[q.txn].original
BY DEF Served1, Serves

LEMMA PrepareFits ==
    ASSUME IInv, PInv, NEW b \in Tabs, NEW t \in Txns, Prepare(b, t)
    PROVE  PInv'
<1>1. PICK w \in TabType : w = tab[b] /\ StateOK(w) /\ w.pc = "prepare"
  BY DEF IInv, Types, Prepare
<1>2. PICK q \in QueryType :
         q = [op |-> "prepare", txn |-> t, gen |-> 0, files |-> w.saw]
  BY <1>1 DEF TabType, QueryType, Ops
<1>3. q.op = "prepare" /\ q.txn = t /\ q.files = w.saw
  BY <1>2
<1>4. QueryOK(q) /\ QueryFits(q) /\ w.at = NoFile
  BY <1>1, <1>3 DEF QueryOK, QueryFits, StateOK, Closing
<1>5. PICK next : next = [w EXCEPT !.pc = "stage", !.txn = t, !.gen = 1]
  OBVIOUS
<1>6. next \in TabType /\ next.pc = "stage" /\ next.txn = t /\ next.gen = 1
  BY <1>1, <1>5 DEF TabType, Pcs
<1>7. PICK v : v = Rest
  OBVIOUS
<1>8. Ask(b, q, next, "", v, "")
  BY <1>1, <1>2, <1>5, <1>7 DEF Prepare
<1>9. record[t].status = "none" /\ \A p \in late : p.txn # t
  BY DEF Prepare
<1>10. \A c \in Tabs : Coexist(tab[c], q)
  BY <1>3 DEF Coexist, Closing
<1>11. \A c \in Tabs \ {b} : NoClash(next, tab[c])
  BY <1>6, <1>9 DEF NoClash, IInv, StateOK
<1>13. /\ v \in TabType /\ StateOK(v) /\ StageFits(v) /\ Coexist(v, q)
       /\ \A p \in late : Coexist(v, p)
       /\ \A c \in Tabs \ {b} : NoClash(v, tab[c])
  BY <1>7, RestFits
<1>12. ASSUME Served1(q)
       PROVE  StageFits(next)' /\ \A p \in late : Coexist(next, p)'
  <2>1. record'[t].status = "preparing" /\ record'[t].gen = 1
    BY <1>3, <1>12 DEF Served1, Serves
  <2>2. seen' = seen /\ seen[t] = {}
    BY <1>8, <1>9 DEF Ask, PInv, JournalFits, Early
  <2>3. StageFits(next)'
    BY <1>6, <2>1, <2>2 DEF StageFits, MayHaveWritten, NothingWritten, Savers
  <2>. QED
    BY <1>6, <1>9, <2>3 DEF Coexist
<1>. QED
  BY <1>3, <1>4, <1>6, <1>8, <1>10, <1>11, <1>12, <1>13, AskFits

LEMMA StageOnFits ==
    ASSUME IInv, PInv, NEW b \in Tabs, tab[b].pc \notin WithoutJournal,
           NEW pc \in Pcs \ WithoutJournal,
           pc \notin Undoers \cup {"restore"},
           pc \in NothingWritten => tab[b].pc \in NothingWritten,
           pc \in {"recheck", "commit"} => record[tab[b].txn].status # "preparing",
           pc = "commit" => OnCommitted(record[tab[b].txn].original),
           pc \in Savers \ NothingWritten => tab[b].pc \in Savers \ NothingWritten,
           pc = "rollback" => Gone(tab[b].txn),
           pc \in MayHaveWritten => tab[b].pc \in MayHaveWritten
    PROVE  StageFits(At(b, pc))
<1>1. StageFits(tab[b]) /\ tab[b].txn # NoTxn
  BY AtWork
<1>. QED
  BY <1>1, AtTypes DEF StageFits, Undoers

LEMMA StageAsksFits ==
    ASSUME IInv, PInv, NEW b \in Tabs, Stage(b)
    PROVE  PInv'
<1>1. tab[b].pc = "stage"
  BY DEF Stage
<1>2. tab[b].pc \notin WithoutJournal \cup Undoers /\ tab[b].pc \in NothingWritten \cap Savers
  BY <1>1 DEF WithoutJournal, NothingWritten, Savers, Undoers
<1>3. tab[b].saw \in Bytes /\ Real(tab[b].saw) /\ tab[b].gen <= record[tab[b].txn].gen
      /\ seen[tab[b].txn] = {} /\ tab[b].txn # NoTxn
  BY <1>2, AtWork DEF StageFits
<1>4. PICK q \in QueryType : /\ q = Request(b, "authorize", tab[b].saw) /\ QueryOK(q)
                             /\ q.op = "authorize" /\ q.txn = tab[b].txn /\ q.gen = tab[b].gen
  BY <1>2, <1>3, RequestTypes DEF Ops
<1>5. QueryFits(q)
  BY <1>3, <1>4 DEF QueryFits, Closing
<1>6. PICK v \in TabType : v = At(b, "recheck") /\ v.pc = "recheck" /\ v.txn = tab[b].txn
                           /\ v.gen = tab[b].gen
  BY AtTypes DEF Pcs
<1>7. PICK w \in TabType : w = At(b, "giveup") /\ w.pc = "giveup" /\ w.txn = tab[b].txn
                           /\ StateOK(w) /\ StageFits(w)
  BY <1>2, StageIsFine, StageOnFits, AtTypes
     DEF Pcs, WithoutJournal, NothingWritten, MayHaveWritten, Undoers, Savers
<1>8. Ask(b, q, v, "", w, "")
  BY <1>4, <1>6, <1>7 DEF Stage
<1>9. /\ \A c \in Tabs \ {b} : NoClash(v, tab[c])
      /\ \A c \in Tabs \ {b} : NoClash(w, tab[c])
      /\ \A p \in late : Coexist(v, p)
      /\ \A p \in late : Coexist(w, p)
  BY <1>2, <1>6, <1>7, GoesOn DEF Undoers
<1>10. Coexist(w, q)
  BY <1>4, <1>7 DEF Coexist, Closing
<1>11. ASSUME Served1(q)
       PROVE  StageFits(v)' /\ \A p \in late : Coexist(v, p)'
  <2>1. record'[v.txn].status = "authorized" /\ record'[v.txn].gen = record[v.txn].gen
    BY <1>4, <1>6, <1>11, AcceptedFits, Recorded DEF Serves, QueryType
  <2>2. seen'[v.txn] = {}
    BY <1>3, <1>6, <1>8 DEF Ask
  <2>3. StageFits(v)'
    BY <1>3, <1>6, <2>1, <2>2 DEF StageFits, MayHaveWritten, NothingWritten, Savers
  <2>. QED
    BY <1>6, <1>9, <2>3 DEF Coexist
<1>12. \A c \in Tabs \ {b} : Coexist(tab[c], q)
  BY <1>2, <1>4, OthersCoexist
<1>13. /\ q \in QueryType /\ q.op = "authorize" /\ QueryOK(q)
       /\ v \in TabType /\ w \in TabType /\ StateOK(w) /\ StageFits(w)
  BY <1>4, <1>6, <1>7
<1>14. "" \notin {"unchanged", "undone"} /\ q.op \notin {"recover", "revert"}
  BY <1>13
<1>. QED
  BY <1>5, <1>8, <1>9, <1>10, <1>11, <1>12, <1>13, <1>14, AskFits

LEMMA BeginCommitFits ==
    ASSUME IInv, PInv, NEW b \in Tabs, BeginCommit(b)
    PROVE  PInv'
<1>1. tab[b].pc = "commit"
  BY DEF BeginCommit
<1>2. tab[b].pc \notin WithoutJournal \cup Undoers /\ tab[b].pc \in NothingWritten \cap Savers
  BY <1>1 DEF WithoutJournal, NothingWritten, Savers, Undoers
<1>3. tab[b].saw \in Bytes /\ Real(tab[b].saw) /\ tab[b].gen <= record[tab[b].txn].gen
      /\ tab[b].txn # NoTxn /\ StageFits(tab[b])
  BY <1>2, AtWork
<1>4. PICK q \in QueryType : /\ q = Request(b, "commit", tab[b].saw) /\ QueryOK(q)
                             /\ q.op = "commit" /\ q.txn = tab[b].txn /\ q.gen = tab[b].gen
  BY <1>2, <1>3, RequestTypes DEF Ops
<1>5. QueryFits(q)
  BY <1>1, <1>3, <1>4 DEF QueryFits, Closing, StageFits
<1>6. PICK v \in TabType : v = At(b, "write") /\ v.pc = "write" /\ v.txn = tab[b].txn
                           /\ v.gen = tab[b].gen
  BY AtTypes DEF Pcs
<1>7. PICK w \in TabType : w = At(b, "giveup") /\ w.pc = "giveup" /\ w.txn = tab[b].txn
                           /\ StateOK(w) /\ StageFits(w)
  BY <1>2, StageIsFine, StageOnFits, AtTypes
     DEF Pcs, WithoutJournal, NothingWritten, MayHaveWritten, Undoers, Savers
<1>8. Ask(b, q, v, "", w, "")
  BY <1>4, <1>6, <1>7 DEF BeginCommit
<1>9. /\ \A c \in Tabs \ {b} : NoClash(v, tab[c])
      /\ \A c \in Tabs \ {b} : NoClash(w, tab[c])
      /\ \A p \in late : Coexist(v, p)
      /\ \A p \in late : Coexist(w, p)
  BY <1>2, <1>6, <1>7, GoesOn DEF Undoers
<1>10. Coexist(w, q)
  BY <1>4, <1>7 DEF Coexist, Closing
<1>11. ASSUME Served1(q)
       PROVE  StageFits(v)' /\ \A p \in late : Coexist(v, p)'
  <2>1. record'[v.txn].status = "committing" /\ record'[v.txn].gen = record[v.txn].gen
    BY <1>4, <1>6, <1>11, AcceptedFits, Recorded DEF Serves, QueryType
  <2>2. StageFits(v)'
    BY <1>3, <1>6, <2>1 DEF StageFits, MayHaveWritten, NothingWritten, Savers, Past
  <2>. QED
    BY <1>6, <1>9, <2>2 DEF Coexist
<1>12. \A c \in Tabs \ {b} : Coexist(tab[c], q)
  BY <1>2, <1>4, OthersCoexist
<1>13. /\ q \in QueryType /\ q.op = "commit" /\ QueryOK(q)
       /\ v \in TabType /\ w \in TabType /\ StateOK(w) /\ StageFits(w)
  BY <1>4, <1>6, <1>7
<1>14. "" \notin {"unchanged", "undone"} /\ q.op \notin {"recover", "revert"}
  BY <1>13
<1>. QED
  BY <1>5, <1>8, <1>9, <1>10, <1>11, <1>12, <1>13, <1>14, AskFits

\* A last request, after which the tab rests in any case.
LEMMA LastRequestFits ==
    ASSUME IInv, PInv, NEW b \in Tabs, tab[b].pc \notin WithoutJournal,
           NEW op \in {"fail", "unresolved", "rollback"}, NEW x \in Bytes, Real(x),
           op = "unresolved" => record[tab[b].txn].backed,
           op = "fail" => seen[tab[b].txn] = {},
           op # "fail" => Past(record[tab[b].txn]),
           op = "rollback" /\ Underway(record[tab[b].txn]) => Gone(tab[b].txn),
           tab[b].pc \in Undoers => op = "rollback" /\ OnlyCreates(record[tab[b].txn]),
           NEW word \in {"unchanged", "recovery", "undone"},
           word # "recovery" => op # "unresolved",
           Ask(b, Request(b, op, x), Rest, word, Rest, "recovery")
    PROVE  PInv'
<1>1. op \in Ops \ {"prepare"}
  BY DEF Ops
<1>2. PICK q \in QueryType : /\ q = Request(b, op, x) /\ QueryOK(q)
                             /\ q.op = op /\ q.txn = tab[b].txn /\ q.gen = tab[b].gen
  BY <1>1, RequestTypes
<1>3. tab[b].gen <= record[tab[b].txn].gen
  BY AtWork
<1>4. QueryFits(q)
  BY <1>2, <1>3 DEF QueryFits, Closing
<1>5. PICK v : v = Rest
  OBVIOUS
<1>6. Ask(b, q, v, word, v, "recovery")
  BY <1>2, <1>5
<1>7. /\ v \in TabType /\ StateOK(v) /\ StageFits(v) /\ StageFits(v)' /\ Coexist(v, q)
      /\ \A p \in late : Coexist(v, p)
      /\ \A c \in Tabs \ {b} : NoClash(v, tab[c])
  BY <1>5, RestFits
<1>8. v.txn = NoTxn
  BY <1>5 DEF Rest
<1>9. \A p \in late : Coexist(v, p)'
  <2>1. late \subseteq QueryType /\ NoTxn \notin Txns
    BY Basics DEF IInv, Types
  <2>. QED
    BY <1>8, <2>1 DEF Coexist, QueryType
<1>10. \A c \in Tabs \ {b} : Coexist(tab[c], q)
  BY <1>2, OthersCoexist
<1>11. /\ q \in QueryType /\ QueryOK(q) /\ q.op \notin {"recover", "revert"}
       /\ word \in {"unchanged", "undone"} => q.txn = tab[b].txn /\ q.op \in {"fail", "rollback"}
       /\ "recovery" \notin {"unchanged", "undone"}
  BY <1>2
<1>. QED
  BY <1>4, <1>6, <1>7, <1>9, <1>10, <1>11, AskFits

\* Files that are to be put back have been, at the end of a rollback.
LEMMA AllPutBack ==
    ASSUME IInv, PInv, NEW b \in Tabs, tab[b].pc \in {"restore", "remove"},
           tab[b].at = NoFile, tab[b].left = {}
    PROVE  Gone(tab[b].txn)
<1>1. StageFits(tab[b]) /\ \A f \in Files : f # NoFile
  BY Basics DEF IInv, PInv, Types
<1>. QED
  BY <1>1 DEF StageFits, Gone

LEMMA LastRequestsFit ==
    ASSUME IInv, PInv, NEW b \in Tabs,
           GiveUp(b) \/ RollbackReceipt(b) \/ Unresolved(b) \/ RestoreReceipt(b)
    PROVE  PInv'
<1>1. tab[b].pc \in {"giveup", "rollback", "unresolved", "restore", "remove"}
  BY DEF GiveUp, RollbackReceipt, Unresolved, RestoreReceipt
<1>2. tab[b].pc \notin WithoutJournal
  BY <1>1 DEF WithoutJournal
<1>3. tab[b].saw \in Bytes /\ Real(tab[b].saw) /\ tab[b].txn \in Txns
      /\ StateOK(tab[b]) /\ StageFits(tab[b])
  BY <1>2, AtWork
<1>4. tab[b].pc # "giveup" => /\ tab[b].pc \in MayHaveWritten
                              /\ Past(record[tab[b].txn]) /\ record[tab[b].txn].backed
  BY <1>1, <1>3 DEF StageFits, StateOK, MayHaveWritten, Pcs, WithoutJournal, NothingWritten
<1>5. CASE GiveUp(b)
  <2>1. /\ tab[b].pc = "giveup"
        /\ Ask(b, Request(b, "fail", tab[b].saw), Rest, "unchanged", Rest, "recovery")
    BY <1>5 DEF GiveUp
  <2>2. seen[tab[b].txn] = {}
    BY <1>3, <2>1 DEF StageFits, NothingWritten
  <2>. QED
    BY <1>2, <1>3, <2>1, <2>2, LastRequestFits DEF Undoers
<1>6. CASE RollbackReceipt(b)
  <2>1. /\ tab[b].pc = "rollback"
        /\ Ask(b, Request(b, "rollback", tab[b].saw), Rest, "unchanged", Rest, "recovery")
    BY <1>6 DEF RollbackReceipt
  <2>2. Gone(tab[b].txn)
    BY <1>3, <2>1 DEF StageFits
  <2>. QED
    BY <1>2, <1>3, <1>4, <2>1, <2>2, LastRequestFits DEF Undoers
<1>7. CASE Unresolved(b)
  <2>1. /\ tab[b].pc = "unresolved"
        /\ Ask(b, Request(b, "unresolved", tab[b].saw), Rest, "recovery", Rest, "recovery")
    BY <1>7 DEF Unresolved
  <2>. QED
    BY <1>2, <1>3, <1>4, <2>1, LastRequestFits DEF Undoers
<1>8. CASE RestoreReceipt(b)
  <2>1. /\ tab[b].pc \in {"restore", "remove"} /\ tab[b].at = NoFile /\ tab[b].left = {}
        /\ Ask(b, Request(b, "rollback", record[tab[b].txn].original),
               Rest, "undone", Rest, "recovery")
    BY <1>8 DEF RestoreReceipt
  <2>2. Gone(tab[b].txn)
    BY <2>1, AllPutBack
  <2>3. record[tab[b].txn].original \in Bytes /\ Real(record[tab[b].txn].original)
    BY <1>3, Recorded
  <2>4. tab[b].pc \in Undoers => OnlyCreates(record[tab[b].txn])
    BY <1>3, <2>1 DEF Undoers, StateOK
  <2>. QED
    BY <1>2, <1>4, <2>1, <2>2, <2>3, <2>4, LastRequestFits
<1>. QED
  BY <1>5, <1>6, <1>7, <1>8

LEMMA ReceiptFits ==
    ASSUME IInv, PInv, NEW b \in Tabs, Receipt(b)
    PROVE  PInv'
<1>. DEFINE x == IF tab[b].pc = "write" THEN Final(b) ELSE tab[b].saw
<1>1. /\ tab[b].pc \in {"write", "complete"}
      /\ tab[b].pc = "write" => tab[b].wrote = Files
      /\ Ask(b, Request(b, "receipt", x), Rest, "applied", At(b, "confirm"), "")
  BY DEF Receipt
<1>2. tab[b].pc \notin WithoutJournal \cup Undoers
      /\ tab[b].pc \in MayHaveWritten
  BY <1>1 DEF WithoutJournal, NothingWritten, MayHaveWritten, Pcs, Undoers
<1>3. /\ tab[b].saw \in Bytes /\ Real(tab[b].saw) /\ tab[b].txn \in Txns
      /\ tab[b].gen <= record[tab[b].txn].gen
      /\ Past(record[tab[b].txn]) /\ record[tab[b].txn].backed /\ StateOK(tab[b])
  BY <1>2, AtWork DEF StateOK, StageFits
<1>4. x \in Bytes /\ Real(x)
  <2>1. CASE tab[b].pc = "write"
    <3>1. x = [f \in Files |-> tab[b].txn]
      BY <2>1 DEF Final
    <3>2. Files \subseteq seen[tab[b].txn]
      BY <1>1, <1>3, <2>1 DEF StateOK
    <3>. HIDE DEF x
    <3>. QED
      BY <1>3, <3>1, <3>2 DEF Bytes, Content, Real
  <2>. QED
    BY <1>1, <1>3, <2>1
<1>. HIDE DEF x
<1>5. PICK q \in QueryType : /\ q = Request(b, "receipt", x) /\ QueryOK(q)
                             /\ q.op = "receipt" /\ q.txn = tab[b].txn /\ q.gen = tab[b].gen
  BY <1>2, <1>4, RequestTypes DEF Ops
<1>6. QueryFits(q)
  BY <1>3, <1>5 DEF QueryFits, Closing
<1>7. PICK v : v = Rest
  OBVIOUS
<1>8. /\ v \in TabType /\ StageFits(v)'
      /\ \A c \in Tabs \ {b} : NoClash(v, tab[c])
  BY <1>7, RestFits
<1>9. \A p \in late : Coexist(v, p)'
  <2>1. late \subseteq QueryType /\ NoTxn \notin Txns /\ v.txn = NoTxn
    BY <1>7, Basics DEF IInv, Types, Rest
  <2>. QED
    BY <2>1 DEF Coexist, QueryType
<1>10. PICK w \in TabType : w = At(b, "confirm") /\ w.pc = "confirm" /\ w.txn = tab[b].txn
                            /\ StateOK(w) /\ StageFits(w)
  BY <1>2, <1>3, StageIsFine, StageOnFits, AtTypes
     DEF Pcs, WithoutJournal, NothingWritten, MayHaveWritten, Undoers, Savers
<1>11. /\ \A c \in Tabs \ {b} : NoClash(w, tab[c])
       /\ \A p \in late : Coexist(w, p)
  BY <1>2, <1>10, GoesOn DEF Undoers, Savers, NothingWritten
<1>12. Coexist(w, q)
  BY <1>5, <1>10 DEF Coexist, Savers, NothingWritten
<1>13. \A c \in Tabs \ {b} : Coexist(tab[c], q)
  BY <1>2, <1>5, OthersCoexist
<1>14. Ask(b, q, v, "applied", w, "")
  BY <1>1, <1>5, <1>7, <1>10
<1>15. /\ q \in QueryType /\ QueryOK(q) /\ q.op \notin {"recover", "revert"}
       /\ w \in TabType /\ StateOK(w) /\ StageFits(w)
       /\ "applied" \notin {"unchanged", "undone"} /\ "" \notin {"unchanged", "undone"}
  BY <1>5, <1>10
<1>. QED
  BY <1>6, <1>8, <1>9, <1>11, <1>12, <1>13, <1>14, <1>15, AskFits

LEMMA UnconfirmedFits ==
    ASSUME IInv, PInv, NEW b \in Tabs, Unconfirmed(b)
    PROVE  PInv'
<1>1. tab[b].pc = "unconfirmed" /\ disk \in Bytes /\ Real(disk)
  BY DEF IInv, Types, Unconfirmed
<1>2. tab[b].pc \notin WithoutJournal \cup Undoers /\ tab[b].pc \in MayHaveWritten
  BY <1>1 DEF WithoutJournal, NothingWritten, MayHaveWritten, Pcs, Undoers
<1>3. /\ tab[b].txn \in Txns /\ tab[b].gen <= record[tab[b].txn].gen
      /\ Past(record[tab[b].txn]) /\ record[tab[b].txn].backed
  BY <1>2, AtWork DEF StateOK, StageFits
<1>5. PICK q \in QueryType : /\ q = Request(b, "unresolved", disk) /\ QueryOK(q)
                             /\ q.op = "unresolved" /\ q.txn = tab[b].txn /\ q.gen = tab[b].gen
  BY <1>1, <1>2, <1>3, RequestTypes DEF Ops
<1>6. QueryFits(q)
  BY <1>3, <1>5 DEF QueryFits, Closing
<1>7. PICK v : v = Rest
  OBVIOUS
<1>8. /\ v \in TabType /\ StageFits(v)'
      /\ \A c \in Tabs \ {b} : NoClash(v, tab[c])
  BY <1>7, RestFits
<1>9. \A p \in late : Coexist(v, p)'
  <2>1. late \subseteq QueryType /\ NoTxn \notin Txns /\ v.txn = NoTxn
    BY <1>7, Basics DEF IInv, Types, Rest
  <2>. QED
    BY <2>1 DEF Coexist, QueryType
<1>10. PICK w \in TabType : w = At(b, "reconfirm") /\ w.pc = "reconfirm" /\ w.txn = tab[b].txn
                            /\ StateOK(w) /\ StageFits(w)
  BY <1>2, <1>3, StageIsFine, StageOnFits, AtTypes
     DEF Pcs, WithoutJournal, NothingWritten, MayHaveWritten, Undoers, Savers
<1>11. /\ \A c \in Tabs \ {b} : NoClash(w, tab[c])
       /\ \A p \in late : Coexist(w, p)
  BY <1>2, <1>10, GoesOn DEF Undoers, Savers, NothingWritten
<1>12. Coexist(w, q)
  BY <1>5, <1>10 DEF Coexist, Savers, NothingWritten
<1>13. \A c \in Tabs \ {b} : Coexist(tab[c], q)
  BY <1>2, <1>5, OthersCoexist
<1>14. Ask(b, q, v, "recovery", w, "")
  BY <1>5, <1>7, <1>10 DEF Unconfirmed
<1>15. /\ q \in QueryType /\ QueryOK(q) /\ q.op \notin {"recover", "revert"}
       /\ w \in TabType /\ StateOK(w) /\ StageFits(w)
       /\ "recovery" \notin {"unchanged", "undone"} /\ "" \notin {"unchanged", "undone"}
  BY <1>5, <1>10
<1>. QED
  BY <1>6, <1>8, <1>9, <1>11, <1>12, <1>13, <1>14, <1>15, AskFits

LEMMA Later ==
    ASSUME NEW g \in Nat, NEW r \in Nat, g <= r
    PROVE  g < r + 1
OBVIOUS

LEMMA NoLater == \A n \in Nat : n <= n
OBVIOUS

\* New credentials make the requests of the earlier ones harmless.
LEMMA RenewedFits ==
    ASSUME IInv, PInv, NEW b \in Tabs, NEW q \in QueryType, QueryOK(q),
           tab[b].pc \in MayHaveWritten, tab[b].pc \notin Savers,
           tab[b].pc \in Undoers => q.op = "revert",
           q.txn = tab[b].txn, q.gen = tab[b].gen,
           record[q.txn].gen < MaxGen,
           NEW n \in Nat, n = record[q.txn].gen + 1, NEW pc \in {"complete", "restore", "verify"},
           pc = "verify" => q.op = "revert",
           pc # "verify" => q.op = "recover",
           NEW v \in TabType, v = Renewed(b, pc, n), NEW w, w = Rest,
           Ask(b, q, v, "", w, "")
    PROVE  PInv'
<1>1. tab[b].pc \notin WithoutJournal
  BY DEF MayHaveWritten
<1>2. /\ tab[b].gen <= record[q.txn].gen /\ Past(record[q.txn]) /\ q.txn \in Txns
      /\ record[q.txn].gen \in Nat
  BY <1>1, AtWork, Recorded DEF StageFits
<1>3. q.op \in {"recover", "revert"}
  OBVIOUS
<1>4. QueryFits(q)
  BY <1>2, <1>3 DEF QueryFits, Closing
<1>5. v.pc = pc /\ v.txn = q.txn /\ v.gen = n /\ v.left = Files /\ n \in Nat
  <2>1. pc \in Pcs
    BY DEF Pcs
  <2>. QED
    BY <2>1, RenewedTypes
<1>6. /\ w \in TabType /\ StateOK(w) /\ StageFits(w) /\ Coexist(w, q)
      /\ \A p \in late : Coexist(w, p)
      /\ \A c \in Tabs \ {b} : NoClash(w, tab[c])
  BY RestFits
<1>7. \A c \in Tabs \ {b} : NoClash(v, tab[c])
  BY <1>1, <1>5, GoesOn DEF Savers, NothingWritten, Undoers
<1>8. ASSUME Served1(q)
      PROVE  StageFits(v)' /\ \A p \in late : Coexist(v, p)'
  <2>1. PICK r \in RecordType : r = record[q.txn] /\ r.gen \in Nat
    BY <1>2, Recorded
  <2>2. PICK u \in RecordType : u = record'[q.txn] /\ Serves(q, r, u)
    BY <1>8, <2>1 DEF Served1, Serves
  <2>3. u.gen = n /\ Past(u) /\ (pc = "verify" => u.status = "reverting")
        /\ (pc # "verify" => Underway(u) /\ u.status # "committed")
    BY <1>3, <2>1, <2>2 DEF Serves, Past, Underway
  <2>4. StageFits(v)'
    <3>1. v.gen <= u.gen
      <4>1. n <= n
        BY NoLater
      <4>. QED
        BY <1>5, <2>3, <4>1
    <3>2. Files' = Files
      BY Constants DEF Ask
    <3>. QED
      BY <1>5, <2>2, <2>3, <3>1, <3>2 DEF StageFits, NothingWritten, Savers, Past, Underway
  <2>5. ASSUME NEW p \in late, p.txn = v.txn, p.op # "prepare"
        PROVE  p.gen < v.gen
    <3>1. p \in QueryType /\ QueryFits(p)
      BY DEF IInv, Types, PInv
    <3>2. p.gen <= record[q.txn].gen /\ p.gen \in Nat
      BY <1>5, <2>5, <3>1 DEF QueryFits, QueryType
    <3>. QED
      BY <1>2, <1>5, <3>2, Later
  <2>6. v.pc \notin Savers
    BY <1>5 DEF Savers, NothingWritten
  <2>. QED
    BY <2>4, <2>5, <2>6 DEF Coexist
<1>9. \A c \in Tabs \ {b} : Coexist(tab[c], q)
  BY <1>1, <1>3, OthersCoexist DEF Undoers
<1>10. "" \notin {"unchanged", "undone"}
  OBVIOUS
<1>. QED
  BY <1>4, <1>6, <1>7, <1>8, <1>9, <1>10, AskFits

LEMMA RecoverFits ==
    ASSUME IInv, PInv, NEW b \in Tabs, Recover(b)
    PROVE  PInv'
<1>1. /\ tab[b].pc \in {"unwind", "resume"} /\ disk \in Bytes /\ Real(disk)
      /\ record[tab[b].txn].gen < MaxGen
  BY DEF IInv, Types, Recover
<1>2. /\ tab[b].pc \notin WithoutJournal \cup Undoers \cup Savers
      /\ tab[b].pc \in MayHaveWritten
  BY <1>1 DEF WithoutJournal, NothingWritten, MayHaveWritten, Pcs, Undoers, Savers
<1>3. PICK q \in QueryType : /\ q = Request(b, "recover", disk) /\ QueryOK(q)
                             /\ q.op = "recover" /\ q.txn = tab[b].txn /\ q.gen = tab[b].gen
                             /\ q.txn \in Txns
  BY <1>1, <1>2, RequestTypes DEF Ops
<1>4. PICK n \in Nat : n = record[q.txn].gen + 1
  BY <1>3, Recorded
<1>5. PICK pc \in {"complete", "restore"} :
         pc = IF tab[b].pc = "resume" THEN "complete" ELSE "restore"
  OBVIOUS
<1>6. PICK v \in TabType : v = Renewed(b, pc, n)
  BY RenewedTypes DEF Pcs
<1>7. PICK w : w = Rest
  OBVIOUS
<1>8. Ask(b, q, v, "", w, "")
  BY <1>3, <1>4, <1>5, <1>6, <1>7 DEF Recover, Renewed
<1>9. q.op = "recover" /\ pc # "verify" /\ record[q.txn].gen < MaxGen
  BY <1>1, <1>3, <1>5
<1>. QED
  BY <1>2, <1>3, <1>4, <1>6, <1>7, <1>8, <1>9, RenewedFits

LEMMA RevertFits ==
    ASSUME IInv, PInv, NEW b \in Tabs, Revert(b)
    PROVE  PInv'
<1>1. /\ tab[b].pc = "revert" /\ disk \in Bytes /\ Real(disk)
      /\ record[tab[b].txn].gen < MaxGen
  BY DEF IInv, Types, Revert
<1>2. /\ tab[b].pc \notin WithoutJournal \cup Savers
      /\ tab[b].pc \in MayHaveWritten
  BY <1>1 DEF WithoutJournal, NothingWritten, MayHaveWritten, Pcs, Savers
<1>3. PICK q \in QueryType : /\ q = Request(b, "revert", disk) /\ QueryOK(q)
                             /\ q.op = "revert" /\ q.txn = tab[b].txn /\ q.gen = tab[b].gen
                             /\ q.txn \in Txns
  BY <1>1, <1>2, RequestTypes DEF Ops
<1>4. PICK n \in Nat : n = record[q.txn].gen + 1
  BY <1>3, Recorded
<1>5. PICK v \in TabType : v = Renewed(b, "verify", n)
  BY RenewedTypes DEF Pcs
<1>6. PICK w : w = Rest
  OBVIOUS
<1>7. Ask(b, q, v, "", w, "")
  BY <1>3, <1>4, <1>5, <1>6 DEF Revert, Renewed
<1>8. q.op = "revert" /\ record[q.txn].gen < MaxGen
  BY <1>1, <1>3
<1>. QED
  BY <1>2, <1>3, <1>4, <1>5, <1>6, <1>7, <1>8, RenewedFits

\* A tab moves to w and nothing else changes, but for what was said.
LEMMA GoFits ==
    ASSUME IInv, PInv, NEW b \in Tabs, NEW w \in TabType,
           UNCHANGED <<workspace, disk, record, late, seen>>,
           tab' = [tab EXCEPT ![b] = w],
           told' = told \/ \E word \in {"applied", "recovery"} :
                              told' = [told EXCEPT ![tab[b].txn] = word],
           StateOK(w), StageFits(w), \A p \in late : Coexist(w, p),
           \A c \in Tabs \ {b} : NoClash(w, tab[c])
    PROVE  PInv'
<1>1. \A u \in Txns : Harmless(u)
  BY DEF Harmless, Unspoilt
<1>2. StageFits(w)'
  BY <1>1, StageFitsMove
<1>3. \A t \in Txns : told'[t] = told[t] \/ told'[t] \notin {"unchanged", "undone"}
  BY DEF IInv, Types
<1>. QED
  BY <1>1, <1>2, <1>3, MoveFits

LEMMA EndFits ==
    ASSUME IInv, PInv, NEW b \in Tabs,
           UNCHANGED <<workspace, disk, edits, record, late, seen>>,
           \/ tab' = [tab EXCEPT ![b] = Rest] /\ told' = told
           \/ \E word \in {"", "applied", "recovery"} : Go(b, Rest, word)
    PROVE  PInv'
<1>1. PICK w \in TabType : w = Rest /\ StateOK(w)
  BY RestIsFine DEF IInv, Types
<1>2. /\ StageFits(w) /\ \A p \in late : Coexist(w, p)
      /\ \A c \in Tabs \ {b} : NoClash(w, tab[c])
  BY <1>1, RestFits
<1>3. /\ tab' = [tab EXCEPT ![b] = w]
      /\ told' = told \/ \E word \in {"applied", "recovery"} :
                            told' = [told EXCEPT ![tab[b].txn] = word]
  BY <1>1 DEF Go
<1>. QED
  BY <1>1, <1>2, <1>3, GoFits

\* The tab goes on to a stage from which it neither saves nor restores.
LEMMA MovesFit ==
    ASSUME IInv, PInv, NEW b \in Tabs, NEW pc \in Pcs \ WithoutJournal, Moves(b, pc, ""),
           StateOK(At(b, pc)), StageFits(At(b, pc)),
           pc \in Savers => tab[b].pc \in Savers,
           tab[b].pc \in Undoers => pc \in Undoers,
           pc # "restore"
    PROVE  PInv'
<1>1. PICK w \in TabType : w = At(b, pc) /\ StateOK(w) /\ StageFits(w)
                           /\ w.pc = pc /\ w.txn = tab[b].txn
  BY AtTypes
<1>2. /\ \A p \in late : Coexist(w, p)
      /\ \A c \in Tabs \ {b} : NoClash(w, tab[c])
  BY <1>1, GoesOn
<1>3. /\ tab' = [tab EXCEPT ![b] = w] /\ told' = told
      /\ UNCHANGED <<workspace, disk, record, late, seen>>
  BY <1>1 DEF Moves, Go
<1>. QED
  BY <1>1, <1>2, <1>3, GoFits

\* A file that was just read does not hold bytes of another open save.
LEMMA FoundCommitted ==
    ASSUME IInv, PInv, NEW t \in Txns, record[t].status \in {"authorized", "committing"},
           record[t].original = disk
    PROVE  OnCommitted(disk)
<1>1. SUFFICES ASSUME NEW f \in Files, disk[f] \in Txns
               PROVE  record[disk[f]].status = "committed"
  BY DEF OnCommitted
<1>2. PICK u \in Txns : u = disk[f]
  BY <1>1
<1>3. u # t
  BY <1>2 DEF PInv, JournalFits
<1>4. ~Early(record[u]) /\ record[u].status # "rolled_back"
  BY <1>2 DEF IInv, Real, PInv, JournalFits, Gone
<1>5. Open(record[t])
  BY DEF Open, Finished
<1>6. ~Open(record[u])
  BY <1>3, <1>5 DEF PInv, OneOpen
<1>7. record[u].status \in Statuses
  BY Recorded
<1>. QED
  BY <1>2, <1>4, <1>6, <1>7 DEF Open, Finished, Early, Statuses

LEMMA LooksFit ==
    ASSUME IInv, PInv, NEW b \in Tabs,
           \/ Recheck(b) \/ Confirm(b) \/ Reconfirm(b) \/ Inspect(b)
           \/ RestoreFails(b) \/ VerifyUndo(b) \/ TabGone(b)
    PROVE  PInv'
<1>1. StateOK(tab[b]) /\ StageFits(tab[b])
  BY DEF IInv, PInv
<1>. USE DEF Pcs, WithoutJournal, NothingWritten, Savers
<1>2. CASE Recheck(b)
  <2>1. PICK pc \in {"commit", "giveup"} : Moves(b, pc, "") /\ (pc = "commit" => disk = tab[b].saw)
    BY <1>2 DEF Recheck, Moves
  <2>2. tab[b].pc = "recheck"
    BY <1>2 DEF Recheck
  <2>3. StateOK(At(b, pc))
    BY <2>2, StageIsFine DEF MayHaveWritten
  <2>4. tab[b].txn \in Txns /\ record[tab[b].txn].original = tab[b].saw
        /\ record[tab[b].txn].status \in {"authorized", "committing", "abandoned"}
    BY <1>1, <2>2, AtWork DEF StateOK, StageFits
  <2>5. StageFits(At(b, pc))
    <3>1. PICK r : r = record[tab[b].txn]
      OBVIOUS
    <3>2. ASSUME pc = "commit", r.status = "authorized"
          PROVE  OnCommitted(r.original)
      BY <2>1, <2>4, <3>1, <3>2, FoundCommitted
    <3>. QED
      BY <1>1, <2>2, <2>4, <3>1, <3>2, AtTypes DEF StageFits, MayHaveWritten
  <2>. QED
    BY <2>1, <2>2, <2>3, <2>5, MovesFit DEF Undoers
<1>3. CASE Confirm(b)
  <2>1. tab[b].pc = "confirm" /\ UNCHANGED <<workspace, disk, edits, record, late, seen>>
    BY <1>3 DEF Confirm
  <2>2. CASE Go(b, Rest, "recovery") \/ Go(b, Rest, "applied")
    BY <2>1, <2>2, EndFits
  <2>4. CASE Go(b, At(b, "unconfirmed"), "")
    <3>1. record[tab[b].txn].backed
      BY <1>1, <2>1 DEF StateOK, MayHaveWritten
    <3>2. StateOK(At(b, "unconfirmed"))
      BY <2>1, <3>1, StageIsFine
    <3>3. StageFits(At(b, "unconfirmed"))
      BY <2>1, StageOnFits DEF MayHaveWritten, Undoers
    <3>4. Moves(b, "unconfirmed", "")
      BY <2>1, <2>4 DEF Moves
    <3>. QED
      BY <2>1, <3>2, <3>3, <3>4, MovesFit DEF Undoers
  <2>. QED
    BY <1>3, <2>2, <2>4 DEF Confirm
<1>4. CASE Reconfirm(b)
  BY <1>4, EndFits DEF Reconfirm
<1>5. CASE Inspect(b)
  <2>1. PICK pc \in {"rollback", "unresolved"} :
           Moves(b, pc, "") /\ (pc = "rollback" => disk = tab[b].saw)
    BY <1>5 DEF Inspect, Moves
  <2>2. tab[b].pc = "undo"
    BY <1>5 DEF Inspect
  <2>3. record[tab[b].txn].backed /\ record[tab[b].txn].original = tab[b].saw
    BY <1>1, <2>2 DEF StateOK, MayHaveWritten
  <2>4. StateOK(At(b, pc))
    BY <2>2, <2>3, StageIsFine
  <2>5. pc = "rollback" => Gone(tab[b].txn)
    <3>1. JournalFits(tab[b].txn)
      BY <2>2, AtWork
    <3>2. \A f \in Files : record[tab[b].txn].original[f] # tab[b].txn
      BY <3>1 DEF JournalFits
    <3>. QED
      BY <2>1, <2>3, <3>2 DEF Gone
  <2>6. StageFits(At(b, pc))
    BY <2>2, <2>5, StageOnFits DEF MayHaveWritten, Undoers
  <2>. QED
    BY <2>1, <2>2, <2>4, <2>6, MovesFit DEF Undoers
<1>6. CASE RestoreFails(b)
  BY <1>6, EndFits DEF RestoreFails
<1>7. CASE VerifyUndo(b)
  <2>1. tab[b].pc = "verify" /\ UNCHANGED <<workspace, disk, edits, record, late, seen>>
    BY <1>7 DEF VerifyUndo
  <2>2. CASE Go(b, At(b, "remove"), "")
    <3>1. record[tab[b].txn].backed /\ OnlyCreates(record[tab[b].txn])
      BY <1>1, <2>1 DEF StateOK, MayHaveWritten
    <3>2. StateOK(At(b, "remove"))
      BY <2>1, <3>1, StageIsFine
    <3>3. StageFits(At(b, "remove"))
      BY <1>1, <2>1, AtTypes DEF StageFits, MayHaveWritten
    <3>4. Moves(b, "remove", "")
      BY <2>1, <2>2 DEF Moves
    <3>. QED
      BY <2>1, <3>2, <3>3, <3>4, MovesFit DEF Undoers
  <2>3. CASE Go(b, Rest, "")
    BY <2>1, <2>3, EndFits
  <2>. QED
    BY <1>7, <2>2, <2>3 DEF VerifyUndo
<1>8. CASE TabGone(b)
  BY <1>8, EndFits DEF TabGone
<1>. QED
  BY <1>2, <1>3, <1>4, <1>5, <1>6, <1>7, <1>8

LEMMA OpenHistoryFits ==
    ASSUME IInv, PInv, ~rushed', NEW b \in Tabs, NEW t \in Txns,
           InspectRecovery(b, t) \/ StartUndo(b, t)
    PROVE  PInv'
<1>1. t # NoTxn /\ Rest \in TabType /\ Rest.wrote = {} /\ Rest.at = NoFile /\ Rest.gen = 0
      /\ StateOK(Rest)
  BY Basics, RestIsFine DEF IInv, Types, Rest
<1>2. disk \in Bytes /\ Real(disk) /\ JournalOK(t) /\ record[t] \in RecordType
      /\ record[t].gen \in Nat /\ record[t].status \in Statuses
  BY Recorded DEF IInv, Types
<1>3. UnconfirmedNativeCreation(record[t]) \in BOOLEAN
  BY DEF UnconfirmedNativeCreation
<1>4. \A p \in late : p \in QueryType
  BY DEF IInv, Types
<1>5. CASE InspectRecovery(b, t)
  <2>1. PICK pc \in {"unwind", "resume"}, d \in BOOLEAN :
           tab' = [tab EXCEPT ![b] = [Rest EXCEPT !.pc = pc, !.txn = t, !.saw = disk,
                                                  !.unconfirmed = d]]
    BY <1>3, <1>5 DEF InspectRecovery
  <2>2. PICK w : w = [Rest EXCEPT !.pc = pc, !.txn = t, !.saw = disk, !.unconfirmed = d]
    OBVIOUS
  <2>3. /\ w \in TabType /\ w.pc = pc /\ w.txn = t /\ w.at = Rest.at
        /\ w.wrote = Rest.wrote /\ w.saw = disk /\ w.gen = 0
    BY <1>1, <1>2, <2>2 DEF TabType, Pcs
  <2>4. record[t].backed /\ record[t].status \in {"committing", "reverting", "failed"}
    BY <1>2, <1>5 DEF InspectRecovery, JournalOK
  <2>5. StateOK(w)
    BY <1>1, <1>2, <2>3, <2>4 DEF StateOK, WithoutJournal, NothingWritten, Savers
  <2>6. StageFits(w)
    BY <1>2, <2>3, <2>4 DEF StageFits, Past, NothingWritten, Savers
  <2>7. \A p \in late : Coexist(w, p)
    BY <2>3 DEF Coexist, Savers, NothingWritten
  <2>8. \A c \in Tabs \ {b} : NoClash(w, tab[c])
    <3>1. Working(t) = {}
      BY <1>5 DEF InspectRecovery
    <3>. QED
      BY <2>3, <3>1 DEF NoClash, Working
  <2>9. UNCHANGED <<workspace, disk, record, late, seen>> /\ told' = told
        /\ tab' = [tab EXCEPT ![b] = w]
    BY <1>5, <2>1, <2>2 DEF InspectRecovery
  <2>. QED
    BY <2>3, <2>5, <2>6, <2>7, <2>8, <2>9, GoFits
<1>6. CASE StartUndo(b, t)
  <2>1. PICK w : w = [Rest EXCEPT !.pc = "revert", !.txn = t]
    OBVIOUS
  <2>2. /\ w \in TabType /\ w.pc = "revert" /\ w.txn = t /\ w.at = Rest.at
        /\ w.wrote = Rest.wrote /\ w.saw = Rest.saw /\ w.gen = 0
    BY <1>1, <2>1 DEF TabType, Pcs
  <2>3. record[t].backed /\ record[t].status = "committed"
    BY <1>2, <1>6 DEF StartUndo, JournalOK
  <2>4. StateOK(w)
    BY <1>1, <2>2, <2>3 DEF StateOK, WithoutJournal, NothingWritten, Savers
  <2>5. StageFits(w)
    BY <1>2, <2>2, <2>3 DEF StageFits, Past, NothingWritten, Savers
  <2>6. \A p \in late : Coexist(w, p)
    BY <2>2 DEF Coexist, Savers, NothingWritten
  <2>7. \A c \in Tabs \ {b} : NoClash(w, tab[c])
    <3>1. ASSUME NEW c \in Tabs \ {b}, tab[c].txn = t
          PROVE  tab[c].pc \notin Savers
      BY <2>3, <3>1 DEF PInv, StageFits, Savers, NothingWritten
    <3>. QED
      BY <2>2, <3>1 DEF NoClash, Undoers, Savers, NothingWritten
  <2>8. UNCHANGED <<workspace, disk, record, late, seen>> /\ told' = told
        /\ tab' = [tab EXCEPT ![b] = w]
    BY <1>6, <2>1 DEF StartUndo
  <2>. QED
    BY <2>2, <2>4, <2>5, <2>6, <2>7, <2>8, GoFits
<1>. QED
  BY <1>5, <1>6

\* A tab with its hands on the files takes one up, puts it down or lets it be.
LEMMA HandleFits ==
    ASSUME IInv, PInv, NEW b \in Tabs, tab[b].pc \in {"write", "undo", "restore", "remove"},
           UNCHANGED <<workspace, record, late, told>>,
           NEW w \in TabType, tab' = [tab EXCEPT ![b] = w],
           w.txn = tab[b].txn, w.gen = tab[b].gen,
           w.pc = tab[b].pc \/ (tab[b].pc = "write" /\ w.pc = "undo"),
           \A u \in Txns : Harmless(u) \/ (u = tab[b].txn /\ tab[b].pc = "write"),
           tab[b].pc \in {"restore", "remove"} =>
              \A g \in Files \ w.left : g # w.at => disk'[g] # tab[b].txn
    PROVE  PInv'
<1>1. StageFits(tab[b]) /\ tab[b].txn # NoTxn /\ tab[b].txn \in Txns
  BY AtWork DEF WithoutJournal
<1>2. /\ \A p \in late : Coexist(w, p)
      /\ \A c \in Tabs \ {b} : NoClash(w, tab[c])
  BY GoesOn DEF Savers, NothingWritten, Undoers
<1>3. OnlyCreates(record[w.txn])' <=> OnlyCreates(record[w.txn])
  BY Constants DEF OnlyCreates
<1>4. StageFits(w)'
  BY <1>1, <1>3, Constants
     DEF StageFits, Past, Underway, Savers, NothingWritten, MayHaveWritten, Pcs, WithoutJournal
<1>. QED
  BY <1>2, <1>4, MoveFits

LEMMA SkipsFit ==
    ASSUME IInv, PInv, NEW b \in Tabs, UndoFails(b) \/ \E f \in Files : RestoreSkip(b, f)
    PROVE  PInv'
<1>1. tab[b].left \in SUBSET Files /\ tab[b].pc \in {"undo", "restore"}
      /\ UNCHANGED <<workspace, disk, record, late, told, seen>>
  BY HandlingForms DEF UndoFails, RestoreSkip
<1>2. \A u \in Txns : Harmless(u)
  BY <1>1 DEF Harmless, Unspoilt
<1>3. CASE UndoFails(b)
  <2>1. PICK L \in SUBSET Files : tab' = [tab EXCEPT ![b] = Handling(b, NoFile, L)]
    <3>1. CASE tab' = [tab EXCEPT ![b] = [@ EXCEPT !.at = NoFile]]
      BY <1>1, <3>1, Puts
    <3>2. ASSUME NEW g, tab[b].at = NoFile,
                 tab' = [tab EXCEPT ![b] = [@ EXCEPT !.left = tab[b].left \ {g}]]
          PROVE  \E L \in SUBSET Files : tab' = [tab EXCEPT ![b] = Handling(b, NoFile, L)]
      BY <1>1, <3>2, Drops
    <3>. QED
      BY <1>3, <3>1, <3>2 DEF UndoFails
  <2>2. PICK w \in TabType : /\ w = Handling(b, NoFile, L) /\ w.pc = tab[b].pc
                             /\ w.txn = tab[b].txn /\ w.gen = tab[b].gen
    BY SameStage
  <2>3. tab[b].pc = "undo"
    BY <1>3 DEF UndoFails
  <2>. QED
    BY <1>1, <1>2, <2>1, <2>2, <2>3, HandleFits
<1>4. ASSUME NEW f \in Files, RestoreSkip(b, f)
      PROVE  PInv'
  <2>1. /\ tab[b].pc = "restore" /\ tab[b].at = NoFile
        /\ disk[f] = record[tab[b].txn].original[f]
        /\ tab' = [tab EXCEPT ![b] = Handling(b, NoFile, tab[b].left \ {f})]
    BY <1>4, Drops DEF RestoreSkip
  <2>2. PICK w \in TabType : /\ w = Handling(b, NoFile, tab[b].left \ {f})
                             /\ w.at = NoFile /\ w.left = tab[b].left \ {f}
                             /\ w.pc = tab[b].pc /\ w.txn = tab[b].txn /\ w.gen = tab[b].gen
    BY <1>1, SameStage
  <2>3. JournalFits(tab[b].txn) /\ StageFits(tab[b])
    BY <2>1, AtWork DEF WithoutJournal
  <2>4. ASSUME NEW g \in Files \ w.left, g # w.at
        PROVE  disk'[g] # tab[b].txn
    <3>1. CASE g = f
      BY <1>1, <2>1, <2>3, <3>1 DEF JournalFits
    <3>2. CASE g # f
      BY <1>1, <2>1, <2>2, <2>3, <2>4, <3>2 DEF StageFits
    <3>. QED
      BY <3>1, <3>2
  <2>. QED
    BY <1>1, <1>2, <2>1, <2>2, <2>4, HandleFits
<1>. QED
  BY <1>3, <1>4

LEMMA CheckFits ==
    ASSUME IInv, PInv, NEW b \in Tabs, NEW f \in Files, NEW expected, NEW pc,
           pc \in {"write", "undo", "restore", "remove"}, Check(b, f, pc, expected)
    PROVE  PInv'
<1>1. /\ UNCHANGED <<workspace, edits, record, late, told, seen>>
      /\ tab[b].pc = pc /\ tab[b].at = NoFile
      /\ disk' = IF expected = "absent" THEN [disk EXCEPT ![f] = "empty"] ELSE disk
      /\ disk \in Bytes /\ "empty" \notin Txns /\ tab[b].left \in SUBSET Files
  BY Basics, HandlingForms DEF Check, IInv, Types
<1>2. \A u \in Txns, g \in Files : disk'[g] = u => disk[g] = u
  BY <1>1 DEF Bytes
<1>3. \A u \in Txns : Harmless(u)
  BY <1>1, <1>2 DEF Harmless, Unspoilt
<1>4. tab' = [tab EXCEPT ![b] = Handling(b, f, tab[b].left \ {f})]
  BY Takes DEF Check
<1>5. PICK w \in TabType : /\ w = Handling(b, f, tab[b].left \ {f})
                           /\ w.at = f /\ w.left = tab[b].left \ {f}
                           /\ w.pc = tab[b].pc /\ w.txn = tab[b].txn /\ w.gen = tab[b].gen
  BY <1>1, SameStage
<1>6. StageFits(tab[b]) /\ tab[b].txn \in Txns
  BY <1>1, AtWork DEF WithoutJournal
<1>7. ASSUME tab[b].pc \in {"restore", "remove"}, NEW g \in Files \ w.left, g # w.at
      PROVE  disk'[g] # tab[b].txn
  <2>1. g \notin tab[b].left /\ g # tab[b].at
    BY <1>1, <1>5, <1>7, Basics DEF IInv, Types
  <2>. QED
    BY <1>2, <1>6, <1>7, <2>1 DEF StageFits
<1>. QED
  BY <1>1, <1>3, <1>4, <1>5, <1>7, HandleFits

LEMMA ChecksFit ==
    ASSUME IInv, PInv, NEW b \in Tabs, NEW f \in Files,
           WriteCheck(b, f) \/ UndoCheck(b, f) \/ RestoreCheck(b, f)
    PROVE  PInv'
<1>1. PICK pc \in {"write", "undo", "restore", "remove"} :
         \E expected : Check(b, f, pc, expected)
  BY DEF WriteCheck, UndoCheck, RestoreCheck
<1>. QED
  BY <1>1, CheckFits

LEMMA StartSaveFits ==
    ASSUME IInv, PInv, NEW b \in Tabs, StartSave(b)
    PROVE  PInv'
<1>1. PICK w : w = [Rest EXCEPT !.pc = "prepare", !.saw = disk]
  OBVIOUS
<1>2. Rest \in TabType /\ disk \in Bytes /\ Real(disk) /\ NoTxn \notin Txns
  BY Values, Basics DEF IInv, Types
<1>3. /\ w \in TabType /\ w.pc = "prepare" /\ w.txn = Rest.txn /\ w.at = Rest.at
      /\ w.wrote = Rest.wrote /\ w.saw = disk
  BY <1>1, <1>2 DEF TabType, Pcs
<1>4. Rest.txn = NoTxn /\ Rest.at = NoFile /\ Rest.wrote = {}
  BY DEF Rest
<1>5. StateOK(w)
  BY <1>2, <1>3, <1>4 DEF StateOK, WithoutJournal, NothingWritten, Savers, MayHaveWritten
<1>6. StageFits(w)
  BY <1>3, <1>4 DEF StageFits, NothingWritten, Savers, MayHaveWritten, WithoutJournal
<1>7. \A p \in late : Coexist(w, p)
  BY <1>2, <1>3, <1>4 DEF IInv, Types, QueryType, Coexist
<1>8. \A c \in Tabs \ {b} : NoClash(w, tab[c])
  BY <1>3, <1>4 DEF NoClash
<1>9. /\ UNCHANGED <<workspace, disk, record, late, seen>> /\ told' = told
      /\ tab' = [tab EXCEPT ![b] = w]
  BY <1>1 DEF StartSave
<1>. QED
  BY <1>3, <1>5, <1>6, <1>7, <1>8, <1>9, GoFits

LEMMA WritePublishFits ==
    ASSUME IInv, PInv, NEW b \in Tabs, WritePublish(b)
    PROVE  PInv'
<1>1. PICK f, t : f = tab[b].at /\ t = tab[b].txn
  OBVIOUS
<1>2. /\ tab[b].pc = "write" /\ f # NoFile
      /\ disk' = [disk EXCEPT ![f] = t] /\ seen' = [seen EXCEPT ![t] = @ \cup {f}]
      /\ UNCHANGED <<workspace, edits, record, late, told>>
  BY <1>1 DEF WritePublish
<1>3. PICK v \in TabType : v = tab[b] /\ v.txn \in Txns
  BY <1>2, HandsOn
<1>4. f \in Files /\ t \in Txns /\ v.wrote \in SUBSET Files
  BY <1>1, <1>2, <1>3 DEF TabType
<1>5. PICK W \in SUBSET Files : W = v.wrote \cup {f}
  BY <1>4
<1>6. PICK w : w = [v EXCEPT !.at = NoFile, !.wrote = W]
  OBVIOUS
<1>7. tab' = [tab EXCEPT ![b] = w]
  <2>1. tab' = [tab EXCEPT ![b] = [tab[b] EXCEPT !.at = NoFile, !.wrote = tab[b].wrote \cup {f}]]
    BY <1>1 DEF WritePublish
  <2>2. [tab[b] EXCEPT !.at = NoFile, !.wrote = tab[b].wrote \cup {f}] = w
    BY <1>3, <1>5, <1>6
  <2>. QED
    BY <2>1, <2>2
<1>8. w \in TabType /\ w.pc = v.pc /\ w.txn = v.txn /\ w.gen = v.gen
  BY <1>3, <1>6 DEF TabType
<1>9. \A u \in Txns : Harmless(u) \/ u = t
  <2>1. \A g \in Files : disk'[g] = disk[g] \/ disk'[g] = t
    BY <1>2 DEF IInv, Types, Bytes
  <2>2. \A u \in Txns : u # t => seen'[u] = seen[u]
    BY <1>2 DEF IInv, Types
  <2>. QED
    BY <2>1, <2>2 DEF Harmless, Unspoilt
<1>10. tab[b].pc \notin {"restore", "remove"}
  BY <1>2
<1>. QED
  BY <1>1, <1>2, <1>3, <1>7, <1>8, <1>9, <1>10, HandleFits

LEMMA WriteFailsFits ==
    ASSUME IInv, PInv, NEW b \in Tabs, WriteFails(b)
    PROVE  PInv'
<1>1. PICK f, t : f = tab[b].at /\ t = tab[b].txn
  OBVIOUS
<1>2. /\ tab[b].pc = "write" /\ UNCHANGED <<workspace, edits, record, late, told>>
      /\ tab' = [tab EXCEPT ![b] = [At(b, "undo") EXCEPT !.left = tab[b].wrote]]
  BY DEF WriteFails
<1>3. tab[b] \in TabType /\ tab[b].txn \in Txns
  BY <1>2, HandsOn
<1>4. t \in Txns /\ tab[b].wrote \in SUBSET Files /\ "absent" \notin Txns
  BY <1>1, <1>3, Basics DEF TabType, IInv, Types
<1>5. PICK v \in TabType : v = At(b, "undo") /\ v.pc = "undo" /\ v.txn = tab[b].txn
                           /\ v.gen = tab[b].gen
  BY AtTypes DEF Pcs
<1>6. PICK L \in SUBSET Files : L = tab[b].wrote
  BY <1>4
<1>7. PICK w : w = [v EXCEPT !.left = L]
  OBVIOUS
<1>8. w \in TabType /\ w.pc = v.pc /\ w.txn = v.txn /\ w.gen = v.gen
  BY <1>5, <1>7 DEF TabType
<1>9. tab' = [tab EXCEPT ![b] = w]
  BY <1>2, <1>5, <1>6, <1>7
<1>10. \A u \in Txns : Harmless(u) \/ u = t
  <2>1. \A g \in Files : disk'[g] = disk[g] \/ disk'[g] \in {t, "absent"}
    BY <1>1 DEF WriteFails, IInv, Types, Bytes
  <2>2. \A u \in Txns : u # t => seen'[u] = seen[u]
    BY <1>1 DEF WriteFails, IInv, Types
  <2>. QED
    BY <1>4, <2>1, <2>2 DEF Harmless, Unspoilt
<1>11. tab[b].pc \notin {"restore", "remove"}
  BY <1>2
<1>. QED
  BY <1>1, <1>2, <1>5, <1>8, <1>9, <1>10, <1>11, HandleFits

\* What is put back is no save's, or that of a committed one.
LEMMA BackupsFit ==
    ASSUME IInv, PInv, NEW b \in Tabs, UndoPublish(b) \/ RestorePublish(b)
    PROVE  PInv'
<1>1. PICK f, x, t : /\ f = tab[b].at /\ f # NoFile /\ t = tab[b].txn
                     /\ x = record[tab[b].txn].original[f]
                     /\ disk' = [disk EXCEPT ![f] = x]
  BY HandsOn DEF UndoPublish, RestorePublish
<1>2. /\ tab[b].pc \in {"undo", "restore", "remove"}
      /\ UNCHANGED <<workspace, edits, record, late, told, seen>>
      /\ tab' = [tab EXCEPT ![b] = [@ EXCEPT !.at = NoFile]]
  BY DEF UndoPublish, RestorePublish
<1>3. tab[b] \in TabType /\ t \in Txns /\ StateOK(tab[b]) /\ StageFits(tab[b]) /\ JournalFits(t)
  BY <1>1, <1>2, AtWork DEF WithoutJournal
<1>4. f \in Files
  BY <1>1, <1>3 DEF TabType
<1>5. x # t /\ (x \in Txns => record[x].status = "committed")
  <2>1. Underway(record[t]) \/ OnlyCreates(record[t])
    BY <1>1, <1>2, <1>3
       DEF StateOK, StageFits, Savers, NothingWritten, Underway
  <2>2. CASE Underway(record[t])
    BY <1>1, <1>3, <1>4, <2>2 DEF JournalFits, OnCommitted
  <2>3. CASE OnlyCreates(record[t])
    <3>1. "absent" \notin Txns
      BY Basics DEF IInv, Types
    <3>. QED
      BY <1>1, <1>3, <1>4, <2>3, <3>1 DEF OnlyCreates
  <2>. QED
    BY <2>1, <2>2, <2>3
<1>6. \A g \in Files : disk'[g] = IF g = f THEN x ELSE disk[g]
  BY <1>1 DEF IInv, Types, Bytes
<1>7. \A u \in Txns : Harmless(u)
  BY <1>2, <1>5, <1>6 DEF Harmless, Unspoilt
<1>. tab[b].left \in SUBSET Files
  BY HandlingForms
<1>8. PICK w \in TabType : /\ w = Handling(b, NoFile, tab[b].left)
                           /\ w.at = NoFile /\ w.left = tab[b].left
                           /\ w.pc = tab[b].pc /\ w.txn = tab[b].txn /\ w.gen = tab[b].gen
  BY SameStage
<1>9. tab' = [tab EXCEPT ![b] = w]
  BY <1>2, <1>8, Puts
<1>10. ASSUME tab[b].pc \in {"restore", "remove"}, NEW g \in Files \ w.left, g # w.at
       PROVE  disk'[g] # tab[b].txn
  <2>1. CASE g = f
    BY <1>1, <1>5, <1>6, <2>1
  <2>2. CASE g # f
    <3>1. disk[g] # tab[b].txn
      BY <1>1, <1>3, <1>8, <1>10, <2>2 DEF StageFits
    <3>. QED
      BY <1>6, <2>2, <3>1
  <2>. QED
    BY <2>1, <2>2
<1>. QED
  BY <1>2, <1>7, <1>8, <1>9, <1>10, HandleFits

\* Another program's bytes are no save's.
LEMMA ExternalEditFits ==
    ASSUME IInv, PInv, NEW f \in Files, ExternalEdit(f)
    PROVE  PInv'
<1>1. UNCHANGED <<workspace, record, late, tab, told, seen>>
  BY DEF ExternalEdit
<1>2. PICK e \in edits : \/ disk' = [disk EXCEPT ![f] = e]
                         \/ disk' = [disk EXCEPT ![f] = "absent"]
  BY DEF ExternalEdit
<1>3. \A g \in Files : disk'[g] = disk[g] \/ disk'[g] \in {e, "absent"}
  BY <1>2 DEF IInv, Types, Bytes
<1>4. e \notin Txns /\ "absent" \notin Txns
  BY Basics DEF IInv, Types
<1>5. \A u \in Txns : Harmless(u)
  BY <1>1, <1>3, <1>4 DEF Harmless, Unspoilt
<1>6. OneOpen'
  BY <1>1, Constants DEF PInv, OneOpen, Open, Finished
<1>7. \A t \in Txns : JournalFits(t)'
  BY <1>1, <1>5, JournalFitsMove DEF PInv
<1>8. ASSUME NEW p \in late'
      PROVE  QueryFits(p)'
  <2>1. p \in QueryType /\ QueryFits(p) /\ p.txn \in Txns
    BY <1>1 DEF IInv, Types, PInv, QueryType
  <2>. QED
    BY <1>1, <1>5, <2>1, QueryFitsMove
<1>9. ASSUME NEW c \in Tabs
      PROVE  StageFits(tab[c])' /\ \A p \in late' : Coexist(tab[c], p)'
  <2>1. PICK x \in TabType : x = tab[c]
    BY DEF IInv, Types
  <2>2. StateOK(x) /\ StageFits(x) /\ \A p \in late : Coexist(x, p)
    BY <2>1 DEF IInv, PInv
  <2>3. StageFits(x)'
    BY <1>1, <1>5, <2>2, StageFitsMove
  <2>4. OnlyCreates(record[x.txn])' <=> OnlyCreates(record[x.txn])
    BY <1>1, Constants DEF OnlyCreates
  <2>5. \A p \in late' : Coexist(x, p)'
    BY <1>1, <2>2, <2>4 DEF Coexist
  <2>6. tab'[c] = x
    BY <1>1, <2>1
  <2>. QED
    BY <2>3, <2>5, <2>6, FitsIn
<1>10. \A c, d \in Tabs : c # d => NoClash(tab[c], tab[d])'
  BY <1>1 DEF NoClash, PInv
<1>. QED
  BY <1>1, <1>6, <1>7, <1>8, <1>9, <1>10, Constants DEF PInv

LEMMA InitFits ==
    ASSUME Init
    PROVE  PInv
<1>1. workspace \in Workspaces
  BY DEF Init
<1>2. NoTxn \notin Txns /\ \A t \in Txns : t # "absent"
  BY <1>1, Basics
<1>3. Blank.status = "none" /\ (\A f \in Files : Blank.original[f] = "absent") /\ Rest.txn = NoTxn
      /\ Rest.pc = "idle"
  BY Values
<1>4. OneOpen
  BY <1>3 DEF Init, OneOpen, Open
<1>5. \A t \in Txns : JournalFits(t)
  BY <1>2, <1>3 DEF Init, JournalFits, Early, Underway
<1>6. StageFits(Rest)
  BY <1>3 DEF StageFits, MayHaveWritten, WithoutJournal, NothingWritten, Savers
<1>7. \A b, c \in Tabs : NoClash(tab[b], tab[c])
  BY <1>3 DEF Init, NoClash
<1>. QED
  BY <1>4, <1>5, <1>6, <1>7 DEF Init, PInv

LEMMA StepFits ==
    ASSUME IInv, PInv, ~rushed', [Next]_vars
    PROVE  PInv'
<1>1. CASE UNCHANGED vars
  <2>1. \A t \in Txns : Fades(record[t], record[t])
    BY DEF IInv, Types, Fades
  <2>. QED
    BY <1>1, <2>1, FadesFit DEF vars, IInv, Types
<1>2. ASSUME NEW b \in Tabs, Save(b)
      PROVE  PInv'
  BY <1>2, StartSaveFits, PrepareFits, StageAsksFits, LooksFit, BeginCommitFits,
     LastRequestsFit, ChecksFit, WritePublishFits, WriteFailsFits, ReceiptFits, UnconfirmedFits
     DEF Save
<1>3. ASSUME NEW b \in Tabs, InlineRollback(b)
      PROVE  PInv'
  BY <1>3, ChecksFit, BackupsFit, SkipsFit, LooksFit, LastRequestsFit DEF InlineRollback
<1>4. ASSUME NEW b \in Tabs, History(b)
      PROVE  PInv'
  BY <1>4, OpenHistoryFits, RecoverFits, RevertFits, LooksFit, ChecksFit, SkipsFit,
     BackupsFit, LastRequestsFit DEF History
<1>5. ASSUME NEW b \in Tabs, TabGone(b)
      PROVE  PInv'
  BY <1>5, LooksFit
<1>6. ASSUME NEW t \in Txns, LeaseExpires(t)
      PROVE  PInv'
  BY <1>6, LeaseExpiresFades, FadesFit DEF LeaseExpires
<1>7. CASE Restart
  BY <1>7, RestartFades, FadesFit DEF Restart
<1>. QED
  BY <1>1, <1>2, <1>3, <1>4, <1>5, <1>6, <1>7, DeliverFits, ExternalEditFits DEF Next

LEMMA UnhurriedInvariance == Spec => [](IInv /\ (~rushed => PInv))
<1>1. Init => IInv /\ (~rushed => PInv)
  BY InitInv, InitFits
<1>2. IInv /\ (~rushed => PInv) /\ [Next]_vars => IInv' /\ (~rushed => PInv)'
  <2>1. SUFFICES ASSUME IInv, ~rushed => PInv, [Next]_vars, ~rushed'
                 PROVE  PInv'
    BY StepInv
  <2>2. ~rushed
    BY <2>1, OnlyRecoveriesRush
  <2>. QED
    BY <2>1, <2>2, StepFits
<1>. QED
  BY <1>1, <1>2, PTL DEF Spec

\* As long as no recovery was begun while a tab was at work on that save (the
\* condition is part of the property): whatever was lost, late, closed or
\* restarted, bytes of a save are on disk only while its journal is committed
\* or still open to recovery.  The server accepts a rollback only from the
\* credentials of the last recover, and fail only from a tab that wrote nothing
\* (transactions.mjs, transaction-client.mjs).
THEOREM NoBytesUnaccounted == Spec => []NoUnaccountedBytes
<1>1. ASSUME IInv, ~rushed => PInv
      PROVE  NoUnaccountedBytes
  <2>1. SUFFICES ASSUME ~rushed, NEW t \in Txns, NEW f \in Files, disk[f] = t
                 PROVE  Open(record[t]) \/ record[t].status = "committed"
    BY DEF NoUnaccountedBytes
  <2>2. ~Early(record[t]) /\ record[t].status # "rolled_back"
    BY <1>1, <2>1 DEF IInv, Real, PInv, JournalFits, Gone
  <2>3. record[t].status \in Statuses
    BY <1>1, Recorded
  <2>. QED
    BY <2>2, <2>3 DEF Open, Finished, Early, Statuses
<1>. QED
  BY <1>1, UnhurriedInvariance, PTL

\* The user is told the truth: an applied save was committed; and, under the
\* same condition, after a plain failure, a History rollback or the undo of a
\* creation nothing of the save is left and nothing waits for recovery.
THEOREM UsersAreToldTheTruth == Spec => []ToldTheTruth
<1>1. ASSUME IInv, ~rushed => PInv
      PROVE  ToldTheTruth
  <2>1. SUFFICES ASSUME NEW t \in Txns
                 PROVE  /\ told[t] = "applied" => Applied(record[t])
                        /\ ~rushed /\ told[t] \in {"unchanged", "undone"} =>
                              ~Open(record[t]) /\ Gone(t)
    BY DEF ToldTheTruth, Applied, OnlyCreates, Gone
  <2>2. told[t] = "applied" => Applied(record[t])
    BY <1>1 DEF IInv, ToldOK
  <2>3. ASSUME ~rushed, told[t] \in {"unchanged", "undone"}
        PROVE  ~Open(record[t]) /\ Gone(t)
    <3>1. CASE record[t].status = "rolled_back"
      <4>1. ~record[t].recovery
        BY <1>1, <3>1 DEF IInv, JournalOK
      <4>2. Gone(t)
        BY <1>1, <2>3, <3>1 DEF PInv, JournalFits
      <4>. QED
        BY <3>1, <4>1, <4>2 DEF Open, Finished
    <3>2. CASE record[t].status = "failed" /\ ~record[t].recovery
      <4>1. seen[t] = {}
        BY <1>1, <2>3, <3>2 DEF PInv, JournalFits, Early
      <4>2. Gone(t)
        BY <1>1, <4>1 DEF IInv, Real, Gone
      <4>. QED
        BY <3>2, <4>2 DEF Open, Finished
    <3>. QED
      BY <1>1, <2>3, <3>1, <3>2 DEF PInv, JournalFits
  <2>. QED
    BY <2>2, <2>3
<1>. QED
  BY <1>1, UnhurriedInvariance, PTL
=============================================================================
