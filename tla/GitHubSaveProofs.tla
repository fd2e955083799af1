--------------------------- MODULE GitHubSaveProofs ---------------------------
(***************************************************************************)
(* Proofs about GitHubSave, for every set of tabs, files and contents,     *)
(* every bound on requests, pushes and lost calls, and every search depth. *)
(***************************************************************************)
EXTENDS GitHubSave, FiniteSetTheorems, SequenceTheorems, TLAPS

Bytes     == Contents \cup {Absent}
DraftType == [file : Files, from : Bytes, to : Bytes, quarantined : BOOLEAN]
Refs      == Nat \cup {None}
\* A change says of each of its files, and of no other, what was and is to be.
ChangeType == UNION {[files : {F}, before : [F -> Bytes], after : [F -> Bytes]] :
                        F \in SUBSET Files}
AttemptType ==
    [stage : Stages, kind : {"edit", "subscription", "undo"}, tab : Tabs \cup {None},
     base : Refs, change : ChangeType, target : Refs, commit : Refs, found : Refs,
     outcome : Outcomes, names : Refs]
Claims   == Outcomes \cup {"nothing", "notSaved", "error", "updated"}
ToldType == [outcome : Claims, attempt : Attempts \cup {None}]

(* The inductive invariant. *)

\* A commit's parent exists before it, and the branch is a chain of commits.
StoreInv ==
    /\ commits \in Seq([parent : Commits, tree : Trees])
    /\ Len(commits) > 0
    /\ \A c \in 1..Len(commits) : commits[c].parent \in 1..Len(commits)
    /\ branch \in Seq(Nat) /\ Len(branch) > 0
    /\ OnBranch \cup delayed \subseteq 1..Len(commits)
    /\ \A i \in 2..Len(branch) : commits[branch[i]].parent = branch[i - 1]
    /\ side \in 1..Len(commits) \cup {None}
    /\ Written \subseteq
          {Elsewhere} \cup [commit : 1..Len(commits), environment : {Environment[t] : t \in Tabs}]

OthersType ==
    /\ attempt \in [Attempts -> AttemptType]
    /\ snapshot \in [Tabs -> Nat]
    /\ draft \in [Tabs -> DraftType \cup {None}]
    /\ waiting \in [Tabs -> Attempts \cup {None}]
    /\ told \in [Tabs -> ToldType]
    /\ foreign \in 0..MaxForeign /\ losses \in 0..MaxLosses

\* What attempt a names exists, and it belongs to a tab from when it is sent.
Refers(a) ==
    LET r == attempt[a]
    IN  /\ {r.base, r.target, r.commit, r.found, r.names} \subseteq 1..Len(commits) \cup {None}
        /\ r.stage # "unused" => r.tab \in Tabs
        /\ r.stage \in {"sent", "ready"} => r.base # None
        /\ r.stage = "sent" => r.kind = "undo"
        /\ r.stage \in {"unused", "sent", "ready"} => r.commit = None
        /\ r.stage \in {"built", "recorded", "ambiguous", "refused", "equivalent"} =>
              r.commit # None

Undoes(r) == r.target \in 1..Len(commits) /\ r.change = UndoChange(r.target)

\* The commit of a is its base with the change, as it was reviewed there.
Made(a) ==
    LET r == attempt[a]
    IN  /\ r.kind = "undo" /\ (r.stage = "ready" \/ r.commit # None) => Undoes(r)
        /\ r.commit # None =>
              /\ r.base \in 1..Len(commits)
              /\ commits[r.commit].parent = r.base
              /\ Tree(r.commit) = [f \in Files |->
                    IF f \in r.change.files THEN r.change.after[f] ELSE Tree(r.base)[f]]
              /\ \A f \in r.change.files : Tree(r.base)[f] = r.change.before[f]

\* The audit comes before the branch, and the branch before the answer.
Ordered(a) ==
    LET r == attempt[a]
    IN  /\ r.commit # None /\ (r.stage \in {"recorded", "ambiguous", "refused", "equivalent"}
                               \/ r.commit \in OnBranch \cup delayed \cup {side}) =>
              Recorded(r.commit, Environment[r.tab])
        /\ r.stage \in {"built", "recorded", "refused", "equivalent"} =>
              r.commit \notin OnBranch \cup delayed
        /\ r.stage = "equivalent" => r.found # None /\ Tree(r.found) = Tree(r.commit)

\* What the server answers about a is, and stays, true.
Answered(a) ==
    LET r == attempt[a]
    IN  /\ r.names \in OnBranch \cup {r.commit, None}
        /\ r.stage \in {"answered", "closed"} =>
              /\ r.outcome \in {"applied", "unchanged"} =>
                    r.names \in OnBranch /\ Holds(r.names, r.change)
              /\ r.outcome = "applied" => Recorded(r.names, Environment[r.tab])
              /\ r.outcome \in {"pending", "refused", "notApplied"} =>
                    r.commit \notin OnBranch \ delayed

AttemptInv(a) == Refers(a) /\ Made(a) /\ Ordered(a) /\ Answered(a)

\* A tab waits for a request of its own, about the draft it still shows.
Waits(t) ==
    LET r == attempt[waiting[t]]
    IN  waiting[t] # None =>
           /\ r.tab = t /\ r.stage \notin {"unused", "closed"}
           /\ r.kind # "undo" => draft[t] \in DraftType /\ r.change = Edited(draft[t])
           /\ r.kind = "subscription" => draft[t].file \in Bridge

\* What the user reads is what the server answered.
Reads(t) ==
    LET r == attempt[told[t].attempt]
    IN  /\ told[t].outcome \in {"applied", "unchanged", "pending", "notSaved", "indeterminate"} =>
              told[t].attempt \in Attempts /\ r.tab = t /\ r.stage # "unused"
        /\ told[t].outcome \in {"applied", "unchanged", "pending", "notSaved"} =>
              r.stage = "closed"
        /\ told[t].outcome \in {"applied", "unchanged", "pending"} => r.outcome = told[t].outcome
        /\ told[t].outcome = "notSaved" => r.outcome \in {"refused", "notApplied"}

TabInv(t) == snapshot[t] \in OnBranch /\ Waits(t) /\ Reads(t)

\* No two attempts share a commit, and nobody else makes any.
Unique == \A a, b \in Attempts :
             attempt[a].commit # None /\ attempt[a].commit = attempt[b].commit => a = b
Built   == {a \in Attempts : attempt[a].commit # None}
Counted == Len(commits) = 1 + foreign + Cardinality(Built)

\* The audit file holds the newest of the records, as many as there are or fit.
Records == [commit : Refs, environment : {Environment[t] : t \in Tabs} \cup {None}]
Window(file, all) ==
    /\ Len(file) =< Len(all) /\ Len(file) =< MaxRecords
    /\ Len(file) < MaxRecords => Len(file) = Len(all)
    /\ \A k \in 1..Len(file) : file[k] = all[Len(all) - Len(file) + k]
FileInv == audit \in Seq(Records) /\ log \in Seq(Records) /\ Window(audit, log)

IInv ==
    /\ StoreInv /\ OthersType
    /\ \A a \in Attempts : AttemptInv(a)
    /\ \A t \in Tabs : TabInv(t)
    /\ Unique /\ Counted

-----------------------------------------------------------------------------
(* Types of the values the actions build. *)

LEMMA ChangeTypes ==
    ASSUME NEW c
    PROVE  /\ c \in ChangeType => /\ c \in Change /\ c.files \subseteq Files
                                  /\ c.before \in [c.files -> Bytes]
                                  /\ c.after \in [c.files -> Bytes]
           /\ \A F \in SUBSET Files : \A b, e \in [F -> Bytes] :
                 [files |-> F, before |-> b, after |-> e] \in ChangeType
<1>1. ASSUME c \in ChangeType
      PROVE  /\ c \in Change /\ c.files \subseteq Files
             /\ c.before \in [c.files -> Bytes]
             /\ c.after \in [c.files -> Bytes]
  <2>1. PICK F \in SUBSET Files : c \in [files : {F}, before : [F -> Bytes], after : [F -> Bytes]]
    BY <1>1 DEF ChangeType
  <2>2. c = [files |-> F, before |-> c.before, after |-> c.after]
    BY <2>1
  <2>3. c.before \in [F -> Bytes] /\ c.after \in [F -> Bytes] /\ c.files = F
    BY <2>1
  <2>4. c \in Change
    BY <2>2, <2>3 DEF Change, Bytes
  <2>. QED
    BY <2>3, <2>4
<1>2. ASSUME NEW F \in SUBSET Files, NEW b \in [F -> Bytes], NEW e \in [F -> Bytes]
      PROVE  [files |-> F, before |-> b, after |-> e] \in ChangeType
  BY DEF ChangeType
<1>. QED
  BY <1>1, <1>2

LEMMA NoChangeType == NoChange \in ChangeType
<1>1. <<>> \in [{} -> Bytes]
  <2>1. <<>> \in Seq(Bytes) /\ Len(<<>>) = 0
    OBVIOUS
  <2>2. <<>> \in [1..0 -> Bytes]
    BY <2>1
  <2>. QED
    BY <2>2
<1>. QED
  BY <1>1, ChangeTypes DEF NoChange

LEMMA UnusedType == Unused \in AttemptType
BY NoChangeType DEF Unused, AttemptType, Stages, Outcomes, Refs

LEMMA EditedType ==
    ASSUME NEW d \in DraftType
    PROVE  Edited(d) \in ChangeType
<1>1. {d.file} \in SUBSET Files
  BY DEF DraftType
<1>2. [f \in {d.file} |-> d.from] \in [{d.file} -> Bytes]
  BY DEF DraftType
<1>3. [f \in {d.file} |-> d.to] \in [{d.file} -> Bytes]
  BY DEF DraftType
<1>. QED
  BY <1>1, <1>2, <1>3, ChangeTypes DEF Edited

\* The fields of an attempt after a move, after an answer and after the rest.
LEMMA MoveStep ==
    ASSUME attempt \in [Attempts -> AttemptType], NEW a \in Attempts, NEW s \in Stages, Move(a, s)
    PROVE  /\ attempt' \in [Attempts -> AttemptType]
           /\ \A b \in Attempts \ {a} : attempt'[b] = attempt[b]
           /\ attempt'[a] = [attempt[a] EXCEPT !.stage = s]
           /\ attempt'[a].stage = s
           /\ attempt'[a].kind = attempt[a].kind
           /\ attempt'[a].tab = attempt[a].tab
           /\ attempt'[a].base = attempt[a].base
           /\ attempt'[a].change = attempt[a].change
           /\ attempt'[a].target = attempt[a].target
           /\ attempt'[a].commit = attempt[a].commit
           /\ attempt'[a].found = attempt[a].found
           /\ attempt'[a].outcome = attempt[a].outcome
           /\ attempt'[a].names = attempt[a].names
<1>1. attempt[a] \in AttemptType
  OBVIOUS
<1>2. [attempt[a] EXCEPT !.stage = s] \in AttemptType
  BY <1>1 DEF AttemptType
<1>3. attempt' = [attempt EXCEPT ![a] = [attempt[a] EXCEPT !.stage = s]]
  BY DEF Move
<1>4. attempt'[a] = [attempt[a] EXCEPT !.stage = s]
  BY <1>3
<1>. QED
  BY <1>1, <1>2, <1>3, <1>4 DEF AttemptType

LEMMA AnswerStep ==
    ASSUME attempt \in [Attempts -> AttemptType], NEW a \in Attempts, NEW o \in Outcomes,
           NEW c \in Refs, Answer(a, o, c)
    PROVE  /\ attempt' \in [Attempts -> AttemptType]
           /\ \A b \in Attempts \ {a} : attempt'[b] = attempt[b]
           /\ attempt'[a].stage = "answered"
           /\ attempt'[a].kind = attempt[a].kind
           /\ attempt'[a].tab = attempt[a].tab
           /\ attempt'[a].base = attempt[a].base
           /\ attempt'[a].change = attempt[a].change
           /\ attempt'[a].target = attempt[a].target
           /\ attempt'[a].commit = attempt[a].commit
           /\ attempt'[a].found = attempt[a].found
           /\ attempt'[a].outcome = o
           /\ attempt'[a].names = c
<1>. DEFINE r == [attempt[a] EXCEPT !.stage = "answered", !.outcome = o, !.names = c]
<1>1. attempt[a] \in AttemptType
  OBVIOUS
<1>2. /\ r \in AttemptType
      /\ r.stage = "answered" /\ r.outcome = o /\ r.names = c
      /\ r.kind = attempt[a].kind /\ r.tab = attempt[a].tab /\ r.base = attempt[a].base
      /\ r.change = attempt[a].change /\ r.target = attempt[a].target
      /\ r.commit = attempt[a].commit /\ r.found = attempt[a].found
  BY <1>1 DEF AttemptType, Stages
<1>3. attempt' = [attempt EXCEPT ![a] = r]
  BY DEF Answer
<1>. HIDE DEF r
<1>. QED
  BY <1>2, <1>3

-----------------------------------------------------------------------------
(* The audit file. *)

LEMMA WindowMoves ==
    ASSUME NEW S, NEW file \in Seq(S), NEW all \in Seq(S), NEW x \in S, Window(file, all)
    PROVE  /\ NewestOf(Append(file, x)) \in Seq(S)
           /\ Window(NewestOf(Append(file, x)), Append(all, x))
<1>0. MaxRecords \in Nat \ {0} /\ Len(file) \in Nat /\ Len(all) \in Nat
  BY GitHubAssumption DEF GitHubAssumption
<1>1. PICK longer \in Seq(S) : /\ longer = Append(file, x)
                               /\ Len(longer) = Len(file) + 1
                               /\ \A k \in 1..Len(file) : longer[k] = file[k]
                               /\ longer[Len(file) + 1] = x
  BY AppendProperties
<1>2. PICK more \in Seq(S) : /\ more = Append(all, x)
                             /\ Len(more) = Len(all) + 1
                             /\ \A k \in 1..Len(all) : more[k] = all[k]
                             /\ more[Len(all) + 1] = x
  BY AppendProperties
<1>3. ASSUME NEW k \in 1..Len(longer)
      PROVE  longer[k] = more[Len(more) - Len(longer) + k]
  <2>1. CASE k = Len(file) + 1
    BY <1>0, <1>1, <1>2, <2>1
  <2>2. CASE k # Len(file) + 1
    <3>1. k \in 1..Len(file) /\ Len(all) - Len(file) + k \in 1..Len(all)
      BY <1>0, <1>1, <2>2 DEF Window
    <3>2. longer[k] = all[Len(all) - Len(file) + k]
      BY <1>1, <3>1 DEF Window
    <3>. QED
      BY <1>0, <1>1, <1>2, <3>1, <3>2
  <2>. QED
    BY <2>1, <2>2
<1>4. CASE Len(longer) > MaxRecords
  <2>1. Len(longer) = MaxRecords + 1 /\ NewestOf(longer) = SubSeq(longer, 2, MaxRecords + 1)
    <3>1. Len(longer) = MaxRecords + 1
      BY <1>0, <1>1, <1>4 DEF Window
    <3>2. Len(longer) - MaxRecords + 1 = 2
      BY <1>0, <3>1
    <3>. QED
      BY <1>4, <3>1, <3>2 DEF NewestOf
  <2>2. \A k \in 2..(MaxRecords + 1) : longer[k] \in S
    BY <1>0, <1>1, <2>1
  <2>3. PICK kept : kept = SubSeq(longer, 2, MaxRecords + 1)
    OBVIOUS
  <2>4. /\ kept \in Seq(S) /\ Len(kept) = MaxRecords
        /\ \A k \in 1..MaxRecords : kept[k] = longer[k + 1]
    <3>1. 2 \in Int /\ MaxRecords + 1 \in Int /\ 2 =< MaxRecords + 1
      BY <1>0
    <3>2. /\ kept \in Seq(S)
          /\ Len(kept) = IF 2 =< MaxRecords + 1 THEN (MaxRecords + 1) - 2 + 1 ELSE 0
          /\ \A k \in 1..((MaxRecords + 1) - 2 + 1) : kept[k] = longer[2 + k - 1]
      BY <2>2, <2>3, <3>1, SubSeqProperties
    <3>3. (MaxRecords + 1) - 2 + 1 = MaxRecords /\ \A k \in Nat : 2 + k - 1 = k + 1
      BY <1>0
    <3>. QED
      BY <1>0, <3>1, <3>2, <3>3
  <2>5. ASSUME NEW k \in 1..MaxRecords
        PROVE  kept[k] = more[Len(more) - MaxRecords + k]
    <3>1. k + 1 \in 1..Len(longer) /\ kept[k] = longer[k + 1]
      BY <1>0, <2>1, <2>4
    <3>2. longer[k + 1] = more[Len(more) - Len(longer) + (k + 1)]
      BY <1>3, <3>1
    <3>3. Len(more) - Len(longer) + (k + 1) = Len(more) - MaxRecords + k
      BY <1>0, <1>2, <2>1
    <3>. QED
      BY <3>1, <3>2, <3>3
  <2>6. MaxRecords =< Len(more)
    BY <1>0, <1>1, <1>2, <2>1 DEF Window
  <2>7. Window(kept, more)
    BY <1>0, <2>4, <2>5, <2>6 DEF Window
  <2>. QED
    BY <1>1, <1>2, <2>1, <2>3, <2>4, <2>7
<1>5. CASE Len(longer) =< MaxRecords
  <2>1. NewestOf(longer) = longer
    BY <1>0, <1>1, <1>5 DEF NewestOf
  <2>2. Len(longer) =< Len(more) /\ (Len(longer) < MaxRecords => Len(longer) = Len(more))
    BY <1>0, <1>1, <1>2, <1>5 DEF Window
  <2>3. Window(longer, more)
    BY <1>3, <1>5, <2>2 DEF Window
  <2>. QED
    BY <1>1, <1>2, <2>1, <2>3
<1>. QED
  BY <1>0, <1>1, <1>4, <1>5

LEMMA AppendsKeeps ==
    ASSUME FileInv, NEW x \in Records, Appends(x)
    PROVE  FileInv' /\ Written' = Written \cup {x}
<1>1. audit' = NewestOf(Append(audit, x)) /\ log' = Append(log, x)
  BY DEF Appends
<1>2. /\ log' \in Seq(Records) /\ Len(log') = Len(log) + 1
      /\ \A k \in 1..Len(log) : log'[k] = log[k]
      /\ log'[Len(log) + 1] = x
  BY <1>1, AppendProperties DEF FileInv
<1>3. FileInv'
  <2>1. audit' \in Seq(Records) /\ Window(audit', log')
    BY <1>1, WindowMoves DEF FileInv
  <2>2. Records' = Records
    BY DEF Records, Refs
  <2>. QED
    BY <1>2, <2>1, <2>2 DEF FileInv
<1>4. Written' = Written \cup {x}
  <2>1. Len(log) \in Nat /\ DOMAIN log = 1..Len(log) /\ DOMAIN log' = 1..(Len(log) + 1)
    BY <1>2 DEF FileInv
  <2>2. Written' = {log'[i] : i \in 1..(Len(log) + 1)} /\ Written = {log[i] : i \in 1..Len(log)}
    BY <2>1 DEF Written
  <2>3. /\ \A i \in 1..(Len(log) + 1) : i \in 1..Len(log) \/ i = Len(log) + 1
        /\ Len(log) + 1 \in 1..(Len(log) + 1) /\ 1..Len(log) \subseteq 1..(Len(log) + 1)
    BY <2>1
  <2>4. Written' \subseteq Written \cup {x}
    BY <1>2, <2>2, <2>3
  <2>5. Written \cup {x} \subseteq Written'
    BY <1>2, <2>2, <2>3
  <2>. QED
    BY <2>4, <2>5
<1>. QED
  BY <1>3, <1>4

\* What audit.find finds was written.
LEMMA KeptWasWritten ==
    ASSUME FileInv, NEW c, NEW e, Attributed(c, e)
    PROVE  Recorded(c, e)
<1>1. PICK k \in 1..Len(audit) : audit[k] = Entry(c, e)
  BY DEF Attributed, Kept, FileInv
<1>2. Len(log) - Len(audit) + k \in DOMAIN log
  BY <1>1 DEF FileInv, Window
<1>. QED
  BY <1>1, <1>2 DEF FileInv, Window, Recorded, Written

\* What was written is kept until MaxRecords records more were.
LEMMA WrittenIsKept ==
    ASSUME FileInv, NEW c, NEW e, Recorded(c, e)
    PROVE  \E i \in DOMAIN log : /\ log[i] = Entry(c, e)
                                 /\ Attributed(c, e) \/ Len(log) - i >= MaxRecords
<1>0. MaxRecords \in Nat \ {0} /\ Len(log) \in Nat /\ Len(audit) \in Nat
  BY GitHubAssumption DEF GitHubAssumption, FileInv
<1>1. PICK i \in DOMAIN log : log[i] = Entry(c, e)
  BY DEF Recorded, Written
<1>2. i \in 1..Len(log)
  BY <1>1 DEF FileInv
<1>3. ASSUME Len(log) - i < MaxRecords
      PROVE  Attributed(c, e)
  <2>. DEFINE k == i - (Len(log) - Len(audit))
  <2>1. k \in 1..Len(audit) /\ Len(log) - Len(audit) + k = i
    BY <1>0, <1>2, <1>3 DEF FileInv, Window
  <2>2. audit[k] = Entry(c, e)
    BY <1>1, <2>1 DEF FileInv, Window
  <2>. QED
    BY <2>1, <2>2 DEF FileInv, Attributed, Kept
<1>. QED
  BY <1>0, <1>1, <1>2, <1>3

-----------------------------------------------------------------------------
(* What every step keeps: nothing GitHub holds or the server recorded goes away. *)

Grows ==
    /\ Len(commits) =< Len(commits')
    /\ \A c \in 1..Len(commits) : commits'[c] = commits[c]
    /\ OnBranch \subseteq OnBranch' /\ delayed \subseteq delayed' /\ Written \subseteq Written'

\* After the step, the audit holds the commit that a has before it.
Logged(a) == Entry(attempt[a].commit, Environment[attempt[a].tab]) \in Written'

\* The step puts the commit of a nowhere it was not, unless it is in the audit.
Clear(a) ==
    LET c == attempt[a].commit
    IN  c # None => /\ c \in OnBranch' \cup delayed' => c \in OnBranch \cup delayed
                    /\ c \in OnBranch' \ delayed' => c \in OnBranch \ delayed
                    /\ c = side' => c = side \/ Logged(a)

LEMMA RemoteSame ==
    ASSUME UNCHANGED remote, Written \subseteq Written'
    PROVE  Grows /\ (\A a \in Attempts : Clear(a))
BY DEF remote, Grows, Clear, OnBranch

\* Commits are immutable, and so is what is said of them.
LEMMA TreesKept ==
    ASSUME StoreInv, StoreInv', Grows, NEW c \in 1..Len(commits)
    PROVE  /\ c \in 1..Len(commits')
           /\ commits'[c] = commits[c]
           /\ Tree(c)' = Tree(c)
           /\ Changed(c)' = Changed(c)
           /\ UndoChange(c)' = UndoChange(c)
<1>1. Len(commits) \in Nat /\ Len(commits') \in Nat
  BY DEF StoreInv
<1>2. \A d \in 1..Len(commits) : d \in 1..Len(commits') /\ commits'[d] = commits[d]
  BY <1>1 DEF Grows
<1>3. \A d \in 1..Len(commits) : Tree(d)' = Tree(d)
  BY <1>2 DEF Tree
<1>4. commits[c].parent \in 1..Len(commits)
  BY DEF StoreInv
<1>5. Changed(c)' = Changed(c)
  BY <1>2, <1>3, <1>4 DEF Changed
<1>6. UndoChange(c)' = UndoChange(c)
  BY <1>2, <1>3, <1>4, <1>5 DEF UndoChange
<1>. QED
  BY <1>2, <1>3, <1>5, <1>6

LEMMA Undisturbed ==
    ASSUME StoreInv, StoreInv', OthersType, NEW a \in Attempts, AttemptInv(a), Grows, Clear(a),
           attempt'[a] = attempt[a]
    PROVE  AttemptInv(a)'
<1>. DEFINE r == attempt[a]
<1>0. GitHubAssumption
  BY GitHubAssumption
<1>1. /\ Len(commits) \in Nat /\ Len(commits') \in Nat
      /\ 1..Len(commits) \subseteq 1..Len(commits')
  BY DEF StoreInv, Grows
<1>2. \A c \in 1..Len(commits) : /\ commits'[c] = commits[c] /\ Tree(c)' = Tree(c)
                                 /\ UndoChange(c)' = UndoChange(c)
  BY TreesKept
<1>3. Refers(a)'
  BY <1>1 DEF AttemptInv, Refers
<1>4. None \notin 1..Len(commits)
  BY <1>0 DEF GitHubAssumption
<1>5. r.commit # None => r.commit \in 1..Len(commits)
  BY DEF AttemptInv, Refers
<1>6. Undoes(r) => Undoes(r)'
  BY <1>1, <1>2 DEF Undoes
<1>7. Made(a)'
  <2>1. r.kind = "undo" /\ (r.stage = "ready" \/ r.commit # None) => Undoes(r)'
    BY <1>6 DEF AttemptInv, Made
  <2>2. r.commit # None => r.base \in 1..Len(commits)
    BY DEF AttemptInv, Made
  <2>. QED
    BY <1>1, <1>2, <1>5, <2>1, <2>2 DEF AttemptInv, Made
<1>8. Ordered(a)'
  <2>1. r.found # None => r.found \in 1..Len(commits)
    BY DEF AttemptInv, Refers
  <2>. QED
    BY <1>2, <1>5, <2>1 DEF AttemptInv, Ordered, Grows, Clear, Tree, Recorded, Refers, Logged
<1>9. Answered(a)'
  <2>1. r.names \in OnBranch => r.names \in 1..Len(commits)
    BY DEF StoreInv
  <2>2. r.names \in OnBranch /\ Holds(r.names, r.change) => Holds(r.names, r.change)'
    BY <2>1, <1>2 DEF Holds
  <2>3. r.names \in OnBranch => r.names \in OnBranch'
    BY DEF Grows
  <2>4. r.commit \notin OnBranch \ delayed => r.commit \notin OnBranch' \ delayed'
    <3>1. CASE r.commit = None
      BY <3>1, <1>0, <1>1 DEF GitHubAssumption, StoreInv
    <3>2. CASE r.commit # None
      BY <3>2 DEF Clear
    <3>. QED
      BY <3>1, <3>2
  <2>5. r.names \in OnBranch' \cup {r.commit, None}
    BY <2>3 DEF AttemptInv, Answered
  <2>6. Recorded(r.names, Environment[r.tab]) => Recorded(r.names, Environment[r.tab])'
    BY DEF Grows, Recorded
  <2>. QED
    BY <2>2, <2>3, <2>4, <2>5, <2>6 DEF AttemptInv, Answered
<1>. QED
  BY <1>3, <1>7, <1>8, <1>9 DEF AttemptInv

-----------------------------------------------------------------------------
(* Assembling the invariant after a step. *)

\* The set of attempts with a commit stays the same unless one of them gets one.
LEMMA CommitsKept ==
    ASSUME Unique, Counted, UNCHANGED <<commits, foreign>>,
           \A a \in Attempts : attempt'[a].commit = attempt[a].commit
    PROVE  Unique' /\ Counted'
<1>1. Built' = Built
  BY DEF Built
<1>. QED
  BY <1>1 DEF Unique, Counted

\* A step of one attempt, which no tab is told of.
LEMMA ServerAssemble ==
    ASSUME IInv, StoreInv', Grows, NEW a \in Attempts,
           attempt' \in [Attempts -> AttemptType],
           \A b \in Attempts \ {a} : attempt'[b] = attempt[b] /\ Clear(b),
           AttemptInv(a)', Unique', Counted',
           UNCHANGED browser, foreign' \in 0..MaxForeign, losses' \in 0..MaxLosses,
           attempt[a].stage \notin {"unused", "answered", "closed"},
           attempt'[a].stage \notin {"unused", "closed"},
           attempt'[a].tab = attempt[a].tab, attempt'[a].kind = attempt[a].kind,
           attempt[a].kind # "undo" => attempt'[a].change = attempt[a].change
    PROVE  IInv'
<1>1. OthersType'
  BY DEF IInv, OthersType, browser
<1>2. ASSUME NEW b \in Attempts
      PROVE  AttemptInv(b)'
  <2>1. CASE b = a
    BY <2>1
  <2>2. CASE b # a
    BY <2>2, Undisturbed DEF IInv
  <2>. QED
    BY <2>1, <2>2
<1>3. ASSUME NEW t \in Tabs
      PROVE  TabInv(t)'
  <2>1. TabInv(t) /\ waiting[t] \in Attempts \cup {None} /\ told[t] \in ToldType
    BY DEF IInv, OthersType
  <2>2. snapshot'[t] \in OnBranch'
    BY <2>1 DEF TabInv, Grows, browser
  <2>3. Waits(t)'
    BY <2>1 DEF TabInv, Waits, browser
  <2>4. Reads(t)'
    BY <2>1 DEF TabInv, Reads, browser
  <2>. QED
    BY <2>2, <2>3, <2>4 DEF TabInv
<1>. QED
  BY <1>1, <1>2, <1>3 DEF IInv

Running(a) == attempt[a].stage \notin {"unused", "answered", "closed"}

\* The server goes on to the next call about a commit that exists.
LEMMA MoveKeeps ==
    ASSUME IInv, StoreInv', Grows, UNCHANGED <<commits, browser, foreign>>,
           losses' \in 0..MaxLosses,
           NEW a \in Attempts, Running(a), attempt[a].commit # None,
           \A b \in Attempts \ {a} : Clear(b),
           NEW s \in {"recorded", "ambiguous", "refused"}, Move(a, s),
           Logged(a),
           s # "ambiguous" => attempt[a].commit \notin OnBranch' \cup delayed'
    PROVE  IInv'
<1>0. GitHubAssumption
  BY GitHubAssumption
<1>1. /\ attempt' \in [Attempts -> AttemptType]
      /\ \A b \in Attempts \ {a} : attempt'[b] = attempt[b]
      /\ attempt'[a].stage = s
      /\ attempt'[a].kind = attempt[a].kind
      /\ attempt'[a].tab = attempt[a].tab
      /\ attempt'[a].base = attempt[a].base
      /\ attempt'[a].change = attempt[a].change
      /\ attempt'[a].target = attempt[a].target
      /\ attempt'[a].commit = attempt[a].commit
      /\ attempt'[a].found = attempt[a].found
      /\ attempt'[a].outcome = attempt[a].outcome
      /\ attempt'[a].names = attempt[a].names
  <2>1. attempt \in [Attempts -> AttemptType] /\ s \in Stages
    BY DEF IInv, OthersType, Stages
  <2>. QED
    BY <2>1, MoveStep
<1>2. AttemptInv(a)
  BY DEF IInv
<1>3. Refers(a)'
  BY <1>1, <1>2 DEF AttemptInv, Refers, Running
<1>4. Made(a)'
  <2>1. \A c \in 1..Len(commits) : UndoChange(c)' = UndoChange(c) /\ Tree(c)' = Tree(c)
    BY DEF UndoChange, Tree, Changed
  <2>2. /\ attempt[a].kind = "undo" => Undoes(attempt[a])
        /\ attempt[a].base \in 1..Len(commits)
    BY <1>2 DEF AttemptInv, Made
  <2>3. Undoes(attempt[a]) => Undoes(attempt[a])'
    BY <2>1, <1>1 DEF Undoes
  <2>4. attempt[a].commit \in 1..Len(commits)
    BY <1>2 DEF AttemptInv, Refers
  <2>. QED
    BY <1>1, <1>2, <2>1, <2>2, <2>3, <2>4 DEF AttemptInv, Made
<1>5. Ordered(a)'
  BY <1>1, <1>2 DEF AttemptInv, Ordered, Recorded, Logged
<1>6. Answered(a)'
  BY <1>1, <1>2 DEF AttemptInv, Answered, Grows
<1>7. Unique' /\ Counted'
  <2>1. \A b \in Attempts : attempt'[b].commit = attempt[b].commit
    BY <1>1
  <2>. QED
    BY <2>1, CommitsKept DEF IInv
<1>8. attempt[a].stage \notin {"unused", "answered", "closed"} /\ foreign' \in 0..MaxForeign
  BY DEF Running, IInv, OthersType
<1>9. AttemptInv(a)'
  BY <1>3, <1>4, <1>5, <1>6 DEF AttemptInv
<1>. QED
  BY <1>1, <1>7, <1>8, <1>9, ServerAssemble

\* The server answers.
LEMMA AnswerKeeps ==
    ASSUME IInv, StoreInv', Grows, UNCHANGED <<commits, browser, foreign>>,
           losses' \in 0..MaxLosses,
           NEW a \in Attempts, Running(a),
           \A b \in Attempts \ {a} : Clear(b),
           NEW o \in Outcomes, NEW c \in OnBranch' \cup {attempt[a].commit, None},
           Answer(a, o, c),
           attempt[a].commit # None /\ attempt[a].commit \in OnBranch' \cup delayed' \cup {side'} =>
              Logged(a),
           o \in {"applied", "unchanged"} => c \in OnBranch' /\ Holds(c, attempt[a].change),
           o = "applied" => Entry(c, Environment[attempt[a].tab]) \in Written',
           o \in {"pending", "refused", "notApplied"} =>
              attempt[a].commit \notin OnBranch' \ delayed'
    PROVE  IInv'
<1>0. GitHubAssumption
  BY GitHubAssumption
<1>1. /\ attempt' \in [Attempts -> AttemptType]
      /\ \A b \in Attempts \ {a} : attempt'[b] = attempt[b]
      /\ attempt'[a].stage = "answered"
      /\ attempt'[a].kind = attempt[a].kind
      /\ attempt'[a].tab = attempt[a].tab
      /\ attempt'[a].base = attempt[a].base
      /\ attempt'[a].change = attempt[a].change
      /\ attempt'[a].target = attempt[a].target
      /\ attempt'[a].commit = attempt[a].commit
      /\ attempt'[a].found = attempt[a].found
      /\ attempt'[a].outcome = o
      /\ attempt'[a].names = c
  <2>1. attempt \in [Attempts -> AttemptType]
    BY DEF IInv, OthersType
  <2>2. attempt[a].commit \in Refs
    BY <2>1 DEF AttemptType
  <2>3. c \in Refs
    BY <2>2 DEF StoreInv, Refs
  <2>. QED
    BY <2>1, <2>3, AnswerStep
<1>2. AttemptInv(a)
  BY DEF IInv
<1>3. Refers(a)'
  BY <1>1, <1>2 DEF AttemptInv, Refers, Running, StoreInv
<1>4. Made(a)'
  <2>1. \A d \in 1..Len(commits) : UndoChange(d)' = UndoChange(d) /\ Tree(d)' = Tree(d)
    BY DEF UndoChange, Tree, Changed
  <2>2. attempt[a].commit # None => /\ attempt[a].kind = "undo" => Undoes(attempt[a])
                                    /\ attempt[a].base \in 1..Len(commits)
    BY <1>2 DEF AttemptInv, Made
  <2>3. Undoes(attempt[a]) => Undoes(attempt[a])'
    BY <2>1, <1>1 DEF Undoes
  <2>4. attempt[a].commit # None => attempt[a].commit \in 1..Len(commits)
    BY <1>2 DEF AttemptInv, Refers
  <2>. QED
    BY <1>1, <1>2, <2>1, <2>2, <2>3, <2>4 DEF AttemptInv, Made
<1>5. Ordered(a)'
  BY <1>1, <1>2 DEF AttemptInv, Ordered, Recorded, Logged
<1>6. Answered(a)'
  <2>1. Holds(c, attempt[a].change) => Holds(c, attempt[a].change)'
    BY <1>1 DEF Holds, Tree
  <2>. QED
    BY <1>1, <1>2, <2>1 DEF Answered, Recorded
<1>7. Unique' /\ Counted'
  <2>1. \A b \in Attempts : attempt'[b].commit = attempt[b].commit
    BY <1>1
  <2>. QED
    BY <2>1, CommitsKept DEF IInv
<1>8. attempt[a].stage \notin {"unused", "answered", "closed"} /\ foreign' \in 0..MaxForeign
  BY DEF Running, IInv, OthersType
<1>9. AttemptInv(a)'
  BY <1>3, <1>4, <1>5, <1>6 DEF AttemptInv
<1>. QED
  BY <1>1, <1>7, <1>8, <1>9, ServerAssemble

-----------------------------------------------------------------------------
(* The store. *)

LEMMA CommitType ==
    ASSUME StoreInv, NEW c \in 1..Len(commits)
    PROVE  Tree(c) \in Trees /\ commits[c].parent \in Commits
<1>. DEFINE R == [parent : Commits, tree : Trees]
<1>1. commits \in Seq(R)
  BY DEF StoreInv
<1>2. commits[c] \in R
  <2>. HIDE DEF R
  <2>. QED
    BY <1>1
<1>. QED
  BY <1>2 DEF Tree

LEMMA OnBranchIndex ==
    ASSUME StoreInv, NEW i \in 1..Len(branch)
    PROVE  branch[i] \in OnBranch /\ branch[i] \in 1..Len(commits)
<1>1. branch \in Seq(Nat)
  BY DEF StoreInv
<1>2. branch[i] \in OnBranch
  BY <1>1 DEF OnBranch
<1>. QED
  BY <1>2 DEF StoreInv

LEMMA TipOnBranch ==
    ASSUME StoreInv
    PROVE  Tip \in OnBranch /\ Tip \in 1..Len(commits)
BY DEF StoreInv, Tip, OnBranch

\* GitHub is asked nothing that changes it; the audit may get a record.
LEMMA StoreSame ==
    ASSUME StoreInv, UNCHANGED remote,
           \/ Written' = Written
           \/ Written' = Written \cup {Elsewhere}
           \/ \E c \in 1..Len(commits), t \in Tabs :
                 Written' = Written \cup {Entry(c, Environment[t])}
    PROVE  StoreInv'
<1>1. Written' \subseteq
         {Elsewhere} \cup [commit : 1..Len(commits), environment : {Environment[t] : t \in Tabs}]
  BY DEF StoreInv, Entry
<1>. QED
  BY <1>1 DEF StoreInv, remote, OnBranch

LEMMA BranchAppend ==
    ASSUME branch \in Seq(Nat), NEW c \in Nat, branch' = Append(branch, c)
    PROVE  /\ branch' \in Seq(Nat) /\ Len(branch') = Len(branch) + 1
           /\ \A i \in 1..Len(branch) : branch'[i] = branch[i]
           /\ branch'[Len(branch) + 1] = c
           /\ OnBranch' = OnBranch \cup {c}
<1>1. /\ branch' \in Seq(Nat) /\ Len(branch') = Len(branch) + 1
      /\ \A i \in 1..Len(branch) : branch'[i] = branch[i]
      /\ branch'[Len(branch) + 1] = c
  OBVIOUS
<1>2. /\ Len(branch) \in Nat
      /\ DOMAIN branch = 1..Len(branch) /\ DOMAIN branch' = 1..(Len(branch) + 1)
  BY <1>1
<1>3. OnBranch' = {branch'[i] : i \in DOMAIN branch'}
  BY DEF OnBranch
<1>4. ASSUME NEW d \in OnBranch
      PROVE  d \in OnBranch'
  <2>1. PICK i \in 1..Len(branch) : d = branch[i]
    BY <1>2 DEF OnBranch
  <2>. QED
    BY <1>1, <1>2, <1>3, <2>1
<1>5. c \in OnBranch'
  BY <1>1, <1>2, <1>3
<1>6. ASSUME NEW d \in OnBranch'
      PROVE  d \in OnBranch \cup {c}
  <2>1. PICK i \in 1..(Len(branch) + 1) : d = branch'[i]
    BY <1>2, <1>3
  <2>. QED
    BY <1>1, <1>2, <2>1 DEF OnBranch
<1>. QED
  BY <1>1, <1>4, <1>5, <1>6

\* The branch moves to a child of its tip.
LEMMA StoreAdvances ==
    ASSUME StoreInv, NEW c \in 1..Len(commits), Accepts(c),
           UNCHANGED <<commits, side, Written>>, branch' = Append(branch, c),
           delayed \subseteq delayed', delayed' \subseteq 1..Len(commits)
    PROVE  /\ StoreInv' /\ Grows
           /\ OnBranch' = OnBranch \cup {c}
<1>1. /\ branch' \in Seq(Nat) /\ Len(branch') = Len(branch) + 1
      /\ \A i \in 1..Len(branch) : branch'[i] = branch[i]
      /\ branch'[Len(branch) + 1] = c
      /\ OnBranch' = OnBranch \cup {c}
  BY BranchAppend DEF StoreInv
<1>2. OnBranch' = OnBranch \cup {c}
  BY <1>1
<1>3. ASSUME NEW i \in 2..Len(branch')
      PROVE  commits'[branch'[i]].parent = branch'[i - 1]
  <2>1. CASE i = Len(branch')
    BY <1>1, <2>1 DEF StoreInv, Accepts, Tip
  <2>2. CASE i # Len(branch')
    BY <1>1, <2>2 DEF StoreInv
  <2>. QED
    BY <2>1, <2>2
<1>4. Grows
  BY <1>2 DEF Grows, StoreInv
<1>5. OnBranch' \cup delayed' \subseteq 1..Len(commits')
  BY <1>2 DEF StoreInv
<1>. QED
  BY <1>1, <1>2, <1>3, <1>4, <1>5 DEF StoreInv

\* A new commit object, which nothing refers to yet.
LEMMA StoreCommits ==
    ASSUME StoreInv, NEW p \in 1..Len(commits), NEW tree \in Trees, Len(commits) + 1 \in Commits,
           commits' = NewCommit(p, tree), UNCHANGED <<side, delayed, Written>>,
           branch' = branch \/ (p = Tip /\ branch' = Append(branch, Len(commits')))
    PROVE  /\ StoreInv' /\ Grows
           /\ Len(commits') = Len(commits) + 1
           /\ commits'[Len(commits')] = [parent |-> p, tree |-> tree]
           /\ OnBranch' = OnBranch \/ OnBranch' = OnBranch \cup {Len(commits')}
           /\ branch' = branch => OnBranch' = OnBranch
<1>. DEFINE n == Len(commits) + 1
<1>0. /\ Len(commits) \in Nat /\ n \in Nat
      /\ 1..Len(commits) \subseteq 1..n /\ n \in 1..n
  <2>1. Len(commits) \in Nat /\ Len(commits) > 0
    BY DEF StoreInv
  <2>. QED
    BY <2>1
<1>1. MaxAttempts \in Nat /\ MaxForeign \in Nat
  BY GitHubAssumption DEF GitHubAssumption
<1>2. p \in Commits
  BY <1>0, <1>1 DEF Commits
<1>3. [parent |-> p, tree |-> tree] \in [parent : Commits, tree : Trees]
  BY <1>2
<1>4. /\ commits' \in Seq([parent : Commits, tree : Trees])
      /\ Len(commits') = n
      /\ \A c \in 1..Len(commits) : commits'[c] = commits[c]
      /\ commits'[n] = [parent |-> p, tree |-> tree]
  BY <1>3 DEF StoreInv, NewCommit
<1>5. ASSUME NEW c \in 1..n
      PROVE  commits'[c].parent \in 1..n
  <2>1. CASE c = n
    BY <1>0, <1>4, <2>1
  <2>2. CASE c # n
    <3>1. c \in 1..Len(commits)
      BY <1>0, <2>2
    <3>2. commits[c].parent \in 1..Len(commits)
      BY <3>1 DEF StoreInv
    <3>. QED
      BY <1>0, <1>4, <3>1, <3>2
  <2>. QED
    BY <2>1, <2>2
<1>6. CASE branch' = branch
  <2>1. OnBranch' = OnBranch
    BY <1>6 DEF OnBranch
  <2>2. ASSUME NEW i \in 2..Len(branch')
        PROVE  commits'[branch'[i]].parent = branch'[i - 1]
    <3>1. i \in 1..Len(branch) /\ i \in 2..Len(branch)
      BY <1>6 DEF StoreInv
    <3>2. commits[branch[i]].parent = branch[i - 1]
      BY <3>1 DEF StoreInv
    <3>. QED
      BY <1>4, <1>6, <3>1, <3>2, OnBranchIndex
  <2>. QED
    BY <1>0, <1>4, <1>5, <1>6, <2>1, <2>2 DEF StoreInv, Grows
<1>7. CASE p = Tip /\ branch' = Append(branch, Len(commits'))
  <2>1. /\ branch' \in Seq(Nat) /\ Len(branch') = Len(branch) + 1
        /\ \A i \in 1..Len(branch) : branch'[i] = branch[i]
        /\ branch'[Len(branch) + 1] = n
        /\ OnBranch' = OnBranch \cup {n}
    BY <1>0, <1>4, <1>7, BranchAppend DEF StoreInv
  <2>2. OnBranch' = OnBranch \cup {n}
    BY <2>1
  <2>3. ASSUME NEW i \in 2..Len(branch')
        PROVE  commits'[branch'[i]].parent = branch'[i - 1]
    <3>1. CASE i = Len(branch')
      BY <1>4, <1>7, <2>1, <3>1 DEF StoreInv, Tip
    <3>2. CASE i # Len(branch')
      <4>1. i \in 2..Len(branch)
        BY <2>1, <3>2 DEF StoreInv
      <4>2. branch[i] \in 1..Len(commits)
        <5>1. i \in 1..Len(branch)
          BY <4>1 DEF StoreInv
        <5>. QED
          BY <5>1, OnBranchIndex
      <4>3. branch'[i] = branch[i] /\ branch'[i - 1] = branch[i - 1]
        <5>1. i \in 1..Len(branch) /\ (i - 1) \in 1..Len(branch)
          BY <4>1 DEF StoreInv
        <5>. QED
          BY <5>1, <2>1
      <4>4. commits[branch[i]].parent = branch[i - 1]
        BY <4>1 DEF StoreInv
      <4>. QED
        BY <1>4, <4>2, <4>3, <4>4
    <3>. QED
      BY <3>1, <3>2
  <2>4. Grows
    BY <1>0, <1>4, <1>7, <2>2 DEF Grows
  <2>5. OnBranch' \cup delayed' \subseteq 1..Len(commits')
    BY <1>0, <1>4, <2>2 DEF StoreInv
  <2>6. /\ side' \in 1..Len(commits') \cup {None}
        /\ Written' \subseteq {Elsewhere} \cup
              [commit : 1..Len(commits'), environment : {Environment[t] : t \in Tabs}]
    BY <1>0, <1>4 DEF StoreInv
  <2>7. Len(branch') > 0 /\ Len(commits') > 0
    BY <1>0, <1>4, <2>1 DEF StoreInv
  <2>8. StoreInv'
    BY <1>4, <1>5, <2>1, <2>3, <2>5, <2>6, <2>7 DEF StoreInv
  <2>. QED
    BY <1>4, <1>7, <2>1, <2>2, <2>4, <2>8
<1>. QED
  BY <1>6, <1>7

-----------------------------------------------------------------------------
(* The server's steps. *)

\* The server answers, and asks nothing of GitHub that could change it.
LEMMA AnswerOnly ==
    ASSUME IInv, NEW a \in Attempts, Running(a),
           UNCHANGED <<remote, Written, browser, foreign>>, losses' \in 0..MaxLosses,
           NEW o \in Outcomes, NEW c \in OnBranch \cup {attempt[a].commit, None},
           Answer(a, o, c),
           o \in {"applied", "unchanged"} => c \in OnBranch /\ Holds(c, attempt[a].change),
           o = "applied" => Recorded(c, Environment[attempt[a].tab]),
           o \in {"pending", "refused", "notApplied"} =>
              attempt[a].commit \notin OnBranch \ delayed
    PROVE  IInv'
<1>1. StoreInv' /\ Grows /\ \A b \in Attempts : Clear(b)
  BY StoreSame, RemoteSame DEF IInv
<1>2. /\ UNCHANGED <<commits, browser, foreign, side>>
      /\ OnBranch' = OnBranch /\ delayed' = delayed
  BY DEF remote, OnBranch
<1>3. attempt[a].commit # None /\ attempt[a].commit \in OnBranch' \cup delayed' \cup {side'} =>
         Recorded(attempt[a].commit, Environment[attempt[a].tab])
  BY <1>2 DEF IInv, AttemptInv, Ordered
<1>4. \A d, e : Recorded(d, e) => Entry(d, e) \in Written'
  BY DEF Recorded
<1>5. /\ attempt[a].commit # None /\ attempt[a].commit \in OnBranch' \cup delayed' \cup {side'} =>
            Logged(a)
      /\ o = "applied" => Entry(c, Environment[attempt[a].tab]) \in Written'
  BY <1>3, <1>4 DEF Logged
<1>. QED
  BY <1>1, <1>2, <1>5, AnswerKeeps

LEMMA LoseType ==
    ASSUME IInv, Lose \/ UNCHANGED losses
    PROVE  losses' \in 0..MaxLosses
BY GitHubAssumption DEF IInv, OthersType, Lose, GitHubAssumption

\* Before there is a commit, an attempt has none on the branch.
LEMMA NoneOffBranch ==
    ASSUME StoreInv
    PROVE  None \notin OnBranch /\ None \notin delayed /\ None \notin 1..Len(commits)
BY GitHubAssumption DEF StoreInv, GitHubAssumption

LEMMA BreaksKeeps ==
    ASSUME IInv, NEW a \in Attempts, Breaks(a)
    PROVE  IInv'
<1>1. PICK o \in {"failed", "refused"} : Answer(a, o, None)
  BY DEF Breaks
<1>2. attempt[a].stage \in {"sent", "ready"} /\ attempt[a].commit = None
  BY DEF Breaks, IInv, AttemptInv, Refers
<1>3. attempt[a].commit \notin OnBranch \ delayed
  BY <1>2, NoneOffBranch DEF IInv
<1>4. Running(a) /\ o \in Outcomes
  BY <1>2 DEF Running, Outcomes
<1>5. losses' \in 0..MaxLosses
  BY LoseType DEF Breaks
<1>. QED
  BY <1>1, <1>3, <1>4, <1>5, AnswerOnly DEF Breaks, records, Written

\* The commit of an attempt, and every commit with its tree, holds its change.
LEMMA CommitHolds ==
    ASSUME IInv, NEW a \in Attempts, attempt[a].commit # None
    PROVE  /\ Holds(attempt[a].commit, attempt[a].change)
           /\ \A d : Tree(d) = Tree(attempt[a].commit) => Holds(d, attempt[a].change)
<1>1. Tree(attempt[a].commit) = [f \in Files |->
         IF f \in attempt[a].change.files THEN attempt[a].change.after[f]
         ELSE Tree(attempt[a].base)[f]]
  BY DEF IInv, AttemptInv, Made
<1>2. attempt[a].change \in ChangeType /\ attempt[a].change.files \subseteq Files
  BY ChangeTypes DEF IInv, OthersType, AttemptType
<1>. QED
  BY <1>1, <1>2 DEF Holds

LEMMA ReconcileKeeps ==
    ASSUME IInv, NEW a \in Attempts, Reconcile(a)
    PROVE  IInv'
<1>. DEFINE c == attempt[a].commit
<1>1. /\ attempt[a].stage = "ambiguous" /\ c # None
      /\ Recorded(c, Environment[attempt[a].tab])
  BY DEF Reconcile, IInv, AttemptInv, Refers, Ordered
<1>2. Running(a) /\ losses' \in 0..MaxLosses /\ UNCHANGED <<remote, Written, browser, foreign>>
  BY <1>1, LoseType DEF Reconcile, Running, records, Written
<1>3. CASE c \in OnBranch /\ Answer(a, "applied", c)
  <2>1. Holds(c, attempt[a].change)
    BY <1>1, CommitHolds
  <2>. QED
    BY <1>1, <1>2, <1>3, <2>1, AnswerOnly DEF Outcomes
<1>4. CASE c \notin OnBranch /\ Answer(a, "notApplied", None)
  BY <1>2, <1>4, AnswerOnly DEF Outcomes
<1>5. CASE Answer(a, "unknown", c)
  BY <1>2, <1>5, AnswerOnly DEF Outcomes
<1>. QED
  BY <1>3, <1>4, <1>5 DEF Reconcile

LEMMA RecordKeeps ==
    ASSUME IInv, FileInv, NEW a \in Attempts, Record(a)
    PROVE  IInv'
<1>. DEFINE c == attempt[a].commit
            e == Environment[attempt[a].tab]
<1>1. /\ attempt[a].stage = "built" /\ c # None /\ c \notin OnBranch \cup delayed
      /\ c \in 1..Len(commits) /\ attempt[a].tab \in Tabs
  BY DEF Record, IInv, AttemptInv, Refers, Ordered
<1>2. /\ Running(a) /\ losses' \in 0..MaxLosses /\ UNCHANGED <<remote, browser, foreign>>
      /\ OnBranch' = OnBranch /\ delayed' = delayed /\ commits' = commits
  BY <1>1, LoseType DEF Record, Running, remote, OnBranch
<1>3. CASE Written' = Written \cup {Entry(c, e)} /\ Move(a, "recorded")
  <2>1. StoreInv'
    BY <1>1, <1>2, <1>3, StoreSame DEF IInv
  <2>2. Grows /\ \A b \in Attempts : Clear(b)
    BY <1>2, <1>3, RemoteSame
  <2>3. Logged(a)
    BY <1>3 DEF Logged
  <2>. QED
    BY <1>1, <1>2, <1>3, <2>1, <2>2, <2>3, MoveKeeps
<1>4. CASE Written' = Written /\ Answer(a, "notApplied", None)
  BY <1>1, <1>2, <1>4, AnswerOnly DEF Outcomes
<1>5. Appends(Entry(c, e)) => Written' = Written \cup {Entry(c, e)}
  BY <1>1, AppendsKeeps DEF Entry, Records, Refs, IInv, StoreInv
<1>6. UNCHANGED records => Written' = Written
  BY DEF records, Written
<1>. QED
  BY <1>3, <1>4, <1>5, <1>6 DEF Record

LEMMA UpdateRefKeeps ==
    ASSUME IInv, NEW a \in Attempts, UpdateRef(a)
    PROVE  IInv'
<1>. DEFINE c == attempt[a].commit
<1>1. /\ attempt[a].stage = "recorded" /\ c # None /\ c \notin OnBranch \cup delayed
      /\ c \in 1..Len(commits) /\ Recorded(c, Environment[attempt[a].tab])
  BY DEF UpdateRef, IInv, AttemptInv, Refers, Ordered
<1>2. /\ Running(a) /\ losses' \in 0..MaxLosses
      /\ UNCHANGED <<commits, side, Written, browser, foreign>>
  BY <1>1, LoseType DEF UpdateRef, Running, records, Written
<1>3. Logged(a) /\ Recorded(c, Environment[attempt[a].tab])
  BY <1>1, <1>2 DEF Logged, Recorded
<1>4. \A b \in Attempts \ {a} : attempt[b].commit # c
  BY <1>1 DEF IInv, Unique
<1>5. Holds(c, attempt[a].change)
  BY <1>1, CommitHolds
<1>6. CASE Accepts(c) /\ branch' = Append(branch, c) /\ delayed' = delayed
  <2>1. StoreInv' /\ Grows /\ OnBranch' = OnBranch \cup {c}
    BY <1>1, <1>2, <1>6, StoreAdvances DEF IInv, StoreInv
  <2>2. \A b \in Attempts \ {a} : Clear(b)
    BY <1>2, <1>4, <1>6, <2>1 DEF Clear
  <2>3. CASE Answer(a, "applied", c)
    BY <1>2, <1>3, <1>5, <2>1, <2>2, <2>3, AnswerKeeps DEF Outcomes, Logged
  <2>4. CASE Move(a, "ambiguous")
    BY <1>1, <1>2, <1>3, <2>1, <2>2, <2>4, MoveKeeps
  <2>. QED
    BY <1>6, <2>3, <2>4 DEF UpdateRef
<1>7. CASE branch' = branch /\ delayed' = delayed /\ Move(a, "refused")
  <2>1. StoreInv' /\ Grows /\ \A b \in Attempts : Clear(b)
    BY <1>2, <1>7, StoreSame, RemoteSame DEF IInv, remote
  <2>2. OnBranch' = OnBranch
    BY <1>7 DEF OnBranch
  <2>. QED
    BY <1>1, <1>2, <1>3, <1>7, <2>1, <2>2, MoveKeeps
<1>8. CASE branch' = branch /\ delayed' \in {delayed, delayed \cup {c}} /\ Move(a, "ambiguous")
  <2>1. OnBranch' = OnBranch
    BY <1>8 DEF OnBranch
  <2>2. StoreInv'
    BY <1>1, <1>2, <1>8, <2>1 DEF IInv, StoreInv
  <2>3. Grows
    BY <1>2, <1>8, <2>1 DEF Grows, IInv, StoreInv
  <2>4. \A b \in Attempts \ {a} : Clear(b)
    BY <1>2, <1>4, <1>8, <2>1 DEF Clear
  <2>. QED
    BY <1>1, <1>2, <1>3, <1>8, <2>2, <2>3, <2>4, MoveKeeps
<1>. QED
  BY <1>6, <1>7, <1>8 DEF UpdateRef

\* Reading the branch's tip for "nothing was left to save" commits to nothing.
LEMMA FindAppliedKeeps ==
    ASSUME IInv, FileInv, NEW a \in Attempts, FindApplied(a)
    PROVE  IInv'
<1>. DEFINE r == attempt[a]
            c == attempt[a].commit
            e == Environment[attempt[a].tab]
            applied == {d \in Walk(r) : Duplicates(c, d, e)}
<1>1. /\ r.stage = "refused" /\ c # None /\ c \notin OnBranch \cup delayed
      /\ c \in 1..Len(commits) /\ Recorded(c, e)
  BY DEF FindApplied, IInv, AttemptInv, Refers, Ordered
<1>2. Running(a) /\ losses' \in 0..MaxLosses /\ UNCHANGED <<remote, Written, browser, foreign>>
  BY <1>1, LoseType DEF FindApplied, Running, records, Written
<1>3. ASSUME NEW d \in applied, Answer(a, "applied", d)
      PROVE  IInv'
  <2>1. d \in OnBranch /\ Recorded(d, e) /\ Tree(d) = Tree(c)
    BY KeptWasWritten DEF Walk, Duplicates, OnBranch
  <2>2. Holds(d, r.change)
    BY <1>1, <2>1, CommitHolds
  <2>. QED
    BY <1>2, <1>3, <2>1, <2>2, AnswerOnly DEF Outcomes
<1>4. CASE Answer(a, "pending", c)
  BY <1>1, <1>2, <1>4, AnswerOnly DEF Outcomes
<1>5. CASE Answer(a, "indeterminate", c)
  BY <1>1, <1>2, <1>5, AnswerOnly DEF Outcomes
<1>6. CASE /\ Tree(Tip) = Tree(c)
           /\ attempt' = [attempt EXCEPT ![a] =
                            [@ EXCEPT !.stage = "equivalent", !.found = Tip]]
  <2>. DEFINE w == [attempt[a] EXCEPT !.stage = "equivalent", !.found = Tip]
  <2>1. attempt \in [Attempts -> AttemptType] /\ attempt[a] \in AttemptType
    BY DEF IInv, OthersType
  <2>2. Tip \in OnBranch /\ Tip \in 1..Len(commits) /\ Tip \in Refs /\ Tip # None
    BY TipOnBranch, NoneOffBranch DEF IInv, StoreInv, Refs
  <2>3. /\ w \in AttemptType
        /\ w.stage = "equivalent" /\ w.found = Tip /\ w.kind = r.kind /\ w.tab = r.tab
        /\ w.base = r.base /\ w.change = r.change /\ w.target = r.target
        /\ w.commit = c /\ w.outcome = r.outcome /\ w.names = r.names
    BY <2>1, <2>2 DEF AttemptType, Stages
  <2>4. attempt' = [attempt EXCEPT ![a] = w]
    BY <1>6
  <2>. HIDE DEF w
  <2>5. /\ attempt' \in [Attempts -> AttemptType] /\ attempt'[a] = w
        /\ \A b \in Attempts \ {a} : attempt'[b] = attempt[b]
    BY <2>1, <2>3, <2>4
  <2>6. StoreInv' /\ Grows /\ \A b \in Attempts : Clear(b)
    BY <1>2, StoreSame, RemoteSame DEF IInv
  <2>7. AttemptInv(a)
    BY DEF IInv
  <2>8. commits' = commits /\ OnBranch' = OnBranch /\ delayed' = delayed /\ Written' = Written
    BY <1>2 DEF remote, OnBranch
  <2>9. Refers(a)'
    BY <1>1, <2>2, <2>3, <2>5, <2>7, <2>8 DEF AttemptInv, Refers
  <2>10. Made(a)'
    <3>1. \A d \in 1..Len(commits) : UndoChange(d)' = UndoChange(d)
      BY <2>8 DEF UndoChange, Changed, Tree
    <3>2. Undoes(r) => Undoes(r)'
      BY <2>3, <2>5, <2>8, <3>1 DEF Undoes
    <3>. QED
      BY <1>1, <2>3, <2>5, <2>7, <2>8, <3>2 DEF AttemptInv, Made, Tree
  <2>11. Ordered(a)'
    BY <1>1, <1>6, <2>2, <2>3, <2>5, <2>7, <2>8 DEF AttemptInv, Ordered, Recorded, Tree
  <2>12. Answered(a)'
    BY <2>3, <2>5, <2>7, <2>8 DEF AttemptInv, Answered
  <2>13. Unique' /\ Counted'
    <3>1. \A b \in Attempts : attempt'[b].commit = attempt[b].commit
      BY <2>3, <2>5
    <3>. QED
      BY <1>2, <2>8, <3>1, CommitsKept DEF IInv
  <2>14. AttemptInv(a)' /\ foreign' \in 0..MaxForeign
    BY <1>2, <2>9, <2>10, <2>11, <2>12 DEF AttemptInv, IInv, OthersType
  <2>. QED
    BY <1>1, <1>2, <2>3, <2>5, <2>6, <2>13, <2>14, ServerAssemble
<1>. QED
  BY <1>3, <1>4, <1>5, <1>6 DEF FindApplied

LEMMA ConfirmEquivalentKeeps ==
    ASSUME IInv, FileInv, NEW a \in Attempts, ConfirmEquivalent(a)
    PROVE  IInv'
<1>. DEFINE r == attempt[a]
            c == attempt[a].commit
            e == Environment[attempt[a].tab]
<1>1. /\ r.stage = "equivalent" /\ c # None /\ c \notin OnBranch \cup delayed
      /\ r.found # None /\ Tree(r.found) = Tree(c)
  BY DEF ConfirmEquivalent, IInv, AttemptInv, Refers, Ordered
<1>2. Running(a) /\ losses' \in 0..MaxLosses /\ UNCHANGED <<remote, Written, browser, foreign>>
  BY <1>1, LoseType DEF ConfirmEquivalent, Running, records, Written
<1>3. Tip \in OnBranch
  BY TipOnBranch DEF IInv
<1>4. CASE Answer(a, "pending", c)
  BY <1>1, <1>2, <1>4, AnswerOnly DEF Outcomes
<1>5. CASE Duplicates(c, Tip, e) /\ Answer(a, "applied", Tip)
  <2>1. Holds(Tip, r.change) /\ Recorded(Tip, e)
    BY <1>1, <1>5, CommitHolds, KeptWasWritten DEF Duplicates
  <2>. QED
    BY <1>2, <1>3, <1>5, <2>1, AnswerOnly DEF Outcomes
<1>6. CASE (Tip = r.found \/ Tree(Tip) = Tree(c)) /\ Answer(a, "unchanged", Tip)
  <2>1. Tree(Tip) = Tree(c)
    BY <1>1, <1>6
  <2>2. Holds(Tip, r.change)
    BY <1>1, <2>1, CommitHolds
  <2>. QED
    BY <1>2, <1>3, <1>6, <2>2, AnswerOnly DEF Outcomes
<1>7. CASE Answer(a, "indeterminate", c)
  BY <1>1, <1>2, <1>7, AnswerOnly DEF Outcomes
<1>. QED
  BY <1>4, <1>5, <1>6, <1>7 DEF ConfirmEquivalent

LEMMA UndoChangeType ==
    ASSUME StoreInv, NEW c \in 1..Len(commits)
    PROVE  UndoChange(c) \in ChangeType
<1>1. ASSUME NEW d \in 1..Len(commits)
      PROVE  Tree(d) \in [Files -> Bytes]
  BY CommitType DEF Bytes, Trees
<1>2. commits[c].parent \in 1..Len(commits) /\ Changed(c) \subseteq Files
  BY DEF StoreInv, Changed
<1>3. [f \in Changed(c) |-> Tree(c)[f]] \in [Changed(c) -> Bytes]
  BY <1>1, <1>2
<1>4. [f \in Changed(c) |-> Tree(commits[c].parent)[f]] \in [Changed(c) -> Bytes]
  BY <1>1, <1>2
<1>. QED
  BY <1>2, <1>3, <1>4, ChangeTypes DEF UndoChange

LEMMA InspectUndoKeeps ==
    ASSUME IInv, NEW a \in Attempts, InspectUndo(a)
    PROVE  IInv'
<1>. DEFINE r == attempt[a]
            c == attempt[a].base
<1>1. /\ r.stage = "sent" /\ r.kind = "undo" /\ r.commit = None
      /\ c \in 1..Len(commits) /\ r.tab \in Tabs
  BY DEF InspectUndo, IInv, AttemptInv, Refers
<1>2. /\ Running(a) /\ UNCHANGED <<remote, Written, browser, counts>>
      /\ losses' \in 0..MaxLosses /\ foreign' = foreign
  BY <1>1, LoseType DEF InspectUndo, Running, counts, records, Written
<1>3. CASE Answer(a, "refused", None)
  <2>1. r.commit \notin OnBranch \ delayed
    BY <1>1, NoneOffBranch DEF IInv
  <2>. QED
    BY <1>2, <1>3, <2>1, AnswerOnly DEF Outcomes
<1>4. CASE attempt' = [attempt EXCEPT ![a] = [@ EXCEPT
                !.stage = "ready", !.base = Tip, !.target = c, !.change = UndoChange(c)]]
  <2>. DEFINE w == [attempt[a] EXCEPT !.stage = "ready", !.base = Tip, !.target = c,
                                      !.change = UndoChange(c)]
  <2>1. attempt \in [Attempts -> AttemptType] /\ attempt[a] \in AttemptType
    BY DEF IInv, OthersType
  <2>2. Tip \in 1..Len(commits) /\ Tip \in Refs /\ Tip # None /\ c \in Refs
    BY <2>1, TipOnBranch, NoneOffBranch DEF IInv, StoreInv, Refs, AttemptType
  <2>3. UndoChange(c) \in ChangeType
    BY <1>1, UndoChangeType DEF IInv
  <2>4. /\ w \in AttemptType
        /\ w.stage = "ready" /\ w.found = r.found /\ w.kind = r.kind /\ w.tab = r.tab
        /\ w.base = Tip /\ w.change = UndoChange(c) /\ w.target = c
        /\ w.commit = r.commit /\ w.outcome = r.outcome /\ w.names = r.names
    BY <2>1, <2>2, <2>3 DEF AttemptType, Stages
  <2>5. attempt' = [attempt EXCEPT ![a] = w]
    BY <1>4
  <2>. HIDE DEF w
  <2>6. /\ attempt' \in [Attempts -> AttemptType] /\ attempt'[a] = w
        /\ \A b \in Attempts \ {a} : attempt'[b] = attempt[b]
    BY <2>1, <2>4, <2>5
  <2>7. StoreInv' /\ Grows /\ \A b \in Attempts : Clear(b)
    BY <1>2, StoreSame, RemoteSame DEF IInv
  <2>8. AttemptInv(a)
    BY DEF IInv
  <2>9. commits' = commits /\ OnBranch' = OnBranch /\ delayed' = delayed /\ Written' = Written
    BY <1>2 DEF remote, OnBranch
  <2>10. Refers(a)'
    BY <1>1, <2>2, <2>4, <2>6, <2>8, <2>9 DEF AttemptInv, Refers
  <2>11. Made(a)'
    <3>1. \A d \in 1..Len(commits) : UndoChange(d)' = UndoChange(d)
      BY <2>9 DEF UndoChange, Changed, Tree
    <3>2. attempt'[a].target \in 1..Len(commits') /\ attempt'[a].change = UndoChange(c)
      BY <1>1, <2>4, <2>6, <2>9
    <3>3. Undoes(attempt[a])'
      BY <1>1, <2>4, <2>6, <3>1, <3>2 DEF Undoes
    <3>. QED
      BY <1>1, <2>4, <2>6, <3>3 DEF Made
  <2>12. Ordered(a)'
    BY <1>1, <2>4, <2>6 DEF Ordered
  <2>13. Answered(a)'
    BY <2>4, <2>6, <2>8, <2>9 DEF AttemptInv, Answered
  <2>14. Unique' /\ Counted'
    <3>1. \A b \in Attempts : attempt'[b].commit = attempt[b].commit
      BY <2>4, <2>6
    <3>. QED
      BY <1>2, <2>9, <3>1, CommitsKept DEF IInv
  <2>15. AttemptInv(a)' /\ foreign' \in 0..MaxForeign
    BY <1>2, <2>10, <2>11, <2>12, <2>13 DEF AttemptInv, IInv, OthersType
  <2>. QED
    BY <1>1, <1>2, <2>4, <2>6, <2>7, <2>14, <2>15, ServerAssemble
<1>. QED
  BY <1>3, <1>4 DEF InspectUndo

\* One more attempt has a commit, and there is room for it.
LEMMA RoomForCommit ==
    ASSUME IInv, NEW a \in Attempts, attempt[a].commit = None
    PROVE  /\ Len(commits) + 1 \in Commits
           /\ IsFiniteSet(Built) /\ Cardinality(Built \cup {a}) = Cardinality(Built) + 1
<1>1. MaxAttempts \in Nat /\ MaxForeign \in Nat /\ foreign \in 0..MaxForeign
  BY GitHubAssumption DEF GitHubAssumption, IInv, OthersType
<1>2. IsFiniteSet(Attempts) /\ Cardinality(Attempts) = MaxAttempts
  BY <1>1, FS_Interval DEF Attempts
<1>3. Built \subseteq Attempts /\ a \notin Built
  BY DEF Built
<1>4. IsFiniteSet(Built) /\ Cardinality(Built) \in Nat
  BY <1>2, <1>3, FS_Subset, FS_CardinalityType
<1>5. Cardinality(Built \cup {a}) = Cardinality(Built) + 1
  BY <1>3, <1>4, FS_AddElement
<1>6. Cardinality(Built \cup {a}) =< MaxAttempts
  BY <1>2, <1>3, FS_Subset
<1>7. Len(commits) = 1 + foreign + Cardinality(Built)
  BY DEF IInv, Counted
<1>8. Len(commits) + 1 \in Commits
  BY <1>1, <1>4, <1>5, <1>6, <1>7 DEF Commits
<1>. QED
  BY <1>4, <1>5, <1>8

LEMMA ProposeKeeps ==
    ASSUME IInv, NEW a \in Attempts, Propose(a)
    PROVE  IInv'
<1>. DEFINE r == attempt[a]
            tree == [f \in Files |->
                       IF f \in r.change.files THEN r.change.after[f] ELSE Tree(r.base)[f]]
            n == Len(commits) + 1
<1>1. /\ r.stage = "ready" /\ r.commit = None /\ r.tab \in Tabs
      /\ r.base \in 1..Len(commits)
  BY DEF Propose, IInv, AttemptInv, Refers
<1>2. /\ Running(a) /\ UNCHANGED <<branch, side, delayed, Written, browser, counts>>
      /\ losses' \in 0..MaxLosses /\ foreign' = foreign
  BY <1>1, LoseType DEF Propose, Running, counts, records, Written
<1>3. CASE Answer(a, "refused", None) /\ commits' = commits
  <2>1. r.commit \notin OnBranch \ delayed
    BY <1>1, NoneOffBranch DEF IInv
  <2>2. UNCHANGED remote
    BY <1>2, <1>3 DEF remote
  <2>. QED
    BY <1>2, <1>3, <2>1, <2>2, AnswerOnly DEF Outcomes
<1>4. CASE /\ Reviewed(r) /\ commits' = NewCommit(r.base, tree)
           /\ attempt' = [attempt EXCEPT ![a] = [@ EXCEPT !.stage = "built",
                                                          !.commit = Len(commits')]]
  <2>. DEFINE w == [attempt[a] EXCEPT !.stage = "built", !.commit = Len(commits')]
  <2>1. attempt \in [Attempts -> AttemptType] /\ attempt[a] \in AttemptType
    BY DEF IInv, OthersType
  <2>2. tree \in Trees
    <3>1. r.change.after \in [r.change.files -> Bytes]
      BY <2>1, ChangeTypes DEF AttemptType
    <3>2. Tree(r.base) \in [Files -> Bytes]
      BY <1>1, CommitType DEF IInv, Trees, Bytes
    <3>. QED
      BY <3>1, <3>2 DEF Trees, Bytes
  <2>3. n \in Commits
    BY <1>1, RoomForCommit
  <2>4. /\ StoreInv' /\ Grows /\ Len(commits') = n
        /\ commits'[n] = [parent |-> r.base, tree |-> tree] /\ OnBranch' = OnBranch
    <3>. HIDE DEF tree
    <3>1. StoreInv /\ UNCHANGED <<side, delayed, Written>> /\ branch' = branch
      BY <1>2 DEF IInv
    <3>2. PICK p \in 1..Len(commits), q \in Trees : p = r.base /\ q = tree
      BY <1>1, <2>2
    <3>3. commits' = NewCommit(p, q)
      BY <1>4, <3>2
    <3>4. /\ StoreInv' /\ Grows /\ Len(commits') = n
          /\ commits'[Len(commits')] = [parent |-> p, tree |-> q] /\ OnBranch' = OnBranch
      BY <2>3, <3>1, <3>3, StoreCommits
    <3>. QED
      BY <3>2, <3>4
  <2>5. n \in Nat /\ n \notin 1..Len(commits) /\ n \in Refs /\ n # None /\ n \in 1..n
    <3>1. Len(commits) \in Nat
      BY DEF IInv, StoreInv
    <3>. QED
      BY <3>1, GitHubAssumption DEF Refs, GitHubAssumption
  <2>6. /\ w \in AttemptType
        /\ w.stage = "built" /\ w.commit = n /\ w.kind = r.kind /\ w.tab = r.tab
        /\ w.base = r.base /\ w.change = r.change /\ w.target = r.target
        /\ w.found = r.found /\ w.outcome = r.outcome /\ w.names = r.names
    BY <2>1, <2>4, <2>5 DEF AttemptType, Stages
  <2>7. attempt' = [attempt EXCEPT ![a] = w]
    BY <1>4
  <2>. HIDE DEF w
  <2>8. /\ attempt' \in [Attempts -> AttemptType] /\ attempt'[a] = w
        /\ \A b \in Attempts \ {a} : attempt'[b] = attempt[b]
    BY <2>1, <2>6, <2>7
  <2>9. AttemptInv(a) /\ \A b \in Attempts : Clear(b)
    BY <1>2, <2>4 DEF IInv, Clear
  <2>10. Refers(a)'
    BY <1>1, <2>4, <2>5, <2>6, <2>8, <2>9 DEF AttemptInv, Refers, Grows
  <2>11. Made(a)'
    <3>1. \A d \in 1..Len(commits) : /\ d \in 1..Len(commits') /\ commits'[d] = commits[d]
                                     /\ Tree(d)' = Tree(d) /\ UndoChange(d)' = UndoChange(d)
      BY <2>4, TreesKept DEF IInv
    <3>2. r.kind = "undo" => Undoes(r)
      BY <1>1, <2>9 DEF AttemptInv, Made
    <3>3. r.kind = "undo" => Undoes(attempt[a])'
      BY <2>6, <2>8, <3>1, <3>2 DEF Undoes
    <3>4. commits'[n].parent = r.base /\ commits'[n].tree = tree
      BY <2>4
    <3>5. \A d : d = n => Tree(d)' = tree /\ commits'[d].parent = r.base
      <4>. HIDE DEF n, tree
      <4>. QED
        BY <3>4 DEF Tree
    <3>6. \A f \in r.change.files : Tree(r.base)[f] = r.change.before[f]
      BY <1>4 DEF Reviewed
    <3>. HIDE DEF n
    <3>. QED
      BY <1>1, <2>6, <2>8, <3>1, <3>3, <3>5, <3>6 DEF Made
  <2>12. Ordered(a)'
    <3>1. n \notin OnBranch' \cup delayed' \cup {side'}
      BY <1>2, <2>4, <2>5 DEF IInv, StoreInv
    <3>. QED
      BY <2>6, <2>8, <3>1 DEF Ordered
  <2>13. Answered(a)'
    BY <1>1, <2>4, <2>6, <2>8, <2>9 DEF AttemptInv, Answered
  <2>14. Unique'
    <3>1. \A b \in Attempts \ {a} : attempt'[b].commit = attempt[b].commit /\ attempt[b].commit # n
      BY <2>5, <2>8 DEF IInv, AttemptInv, Refers
    <3>. QED
      BY <2>6, <2>8, <3>1 DEF Unique, IInv
  <2>15. Counted'
    <3>1. Built' = Built \cup {a}
      BY <2>5, <2>6, <2>8 DEF Built
    <3>2. Cardinality(Built') = Cardinality(Built) + 1
      BY <1>1, <3>1, RoomForCommit
    <3>3. IsFiniteSet(Built) /\ Cardinality(Built) \in Nat /\ foreign \in Nat
      <4>1. foreign \in Nat
        BY GitHubAssumption DEF IInv, OthersType, GitHubAssumption
      <4>. QED
        BY <1>1, <4>1, RoomForCommit, FS_CardinalityType
    <3>4. Len(commits) = 1 + foreign + Cardinality(Built)
      BY DEF IInv, Counted
    <3>. QED
      BY <1>2, <2>4, <3>2, <3>3, <3>4 DEF Counted
  <2>16. AttemptInv(a)' /\ foreign' \in 0..MaxForeign
    BY <1>2, <2>10, <2>11, <2>12, <2>13 DEF AttemptInv, IInv, OthersType
  <2>. QED
    BY <1>1, <1>2, <2>4, <2>6, <2>8, <2>9, <2>14, <2>15, <2>16, ServerAssemble
<1>. QED
  BY <1>3, <1>4 DEF Propose

LEMMA ServerStopsKeeps ==
    ASSUME IInv, ServerStops
    PROVE  IInv'
<1>1. /\ UNCHANGED <<remote, Written, browser, foreign>> /\ losses' \in 0..MaxLosses
      /\ commits' = commits /\ foreign' = foreign
  BY LoseType DEF ServerStops, remote, records, Written
<1>2. StoreInv' /\ Grows /\ \A a \in Attempts : Clear(a)
  BY <1>1, StoreSame, RemoteSame DEF IInv
<1>3. attempt \in [Attempts -> AttemptType]
  BY DEF IInv, OthersType
<1>4. ASSUME NEW a \in Attempts
      PROVE  \/ attempt'[a] = attempt[a]
             \/ /\ Running(a)
                /\ attempt'[a] = [attempt[a] EXCEPT !.stage = "answered", !.outcome = "failed"]
  BY DEF ServerStops, Running
<1>5. ASSUME NEW a \in Attempts
      PROVE  /\ attempt'[a] \in AttemptType
             /\ \/ attempt'[a] = attempt[a]
                \/ /\ Running(a)
                   /\ attempt'[a].stage = "answered" /\ attempt'[a].outcome = "failed"
             /\ attempt'[a].kind = attempt[a].kind
             /\ attempt'[a].tab = attempt[a].tab
             /\ attempt'[a].base = attempt[a].base
             /\ attempt'[a].change = attempt[a].change
             /\ attempt'[a].target = attempt[a].target
             /\ attempt'[a].commit = attempt[a].commit
             /\ attempt'[a].found = attempt[a].found
             /\ attempt'[a].names = attempt[a].names
  <2>1. attempt[a] \in AttemptType
    BY <1>3
  <2>. QED
    BY <1>4, <2>1 DEF AttemptType, Stages, Outcomes
<1>6. attempt' \in [Attempts -> AttemptType]
  <2>1. attempt' = [a \in Attempts |-> attempt'[a]]
    BY DEF ServerStops
  <2>. QED
    BY <1>5, <2>1
<1>7. ASSUME NEW a \in Attempts
      PROVE  AttemptInv(a)'
  <2>1. CASE attempt'[a] = attempt[a]
    BY <1>2, <2>1, Undisturbed DEF IInv
  <2>2. CASE Running(a) /\ attempt'[a].stage = "answered" /\ attempt'[a].outcome = "failed"
    <3>1. AttemptInv(a)
      BY DEF IInv
    <3>2. /\ commits' = commits /\ OnBranch' = OnBranch /\ delayed' = delayed
          /\ side' = side /\ Written' = Written
      BY <1>1 DEF remote, OnBranch
    <3>3. Refers(a)'
      BY <1>5, <2>2, <3>1, <3>2 DEF AttemptInv, Refers, Running
    <3>4. Made(a)'
      <4>1. \A d \in 1..Len(commits) : UndoChange(d)' = UndoChange(d)
        BY <3>2 DEF UndoChange, Changed, Tree
      <4>2. Undoes(attempt[a]) => Undoes(attempt[a])'
        BY <1>5, <3>2, <4>1 DEF Undoes
      <4>. QED
        BY <1>5, <2>2, <3>1, <3>2, <4>2 DEF AttemptInv, Made, Tree
    <3>5. Ordered(a)'
      BY <1>5, <2>2, <3>1, <3>2 DEF AttemptInv, Ordered, Recorded
    <3>6. Answered(a)'
      BY <1>5, <2>2, <3>1, <3>2 DEF AttemptInv, Answered
    <3>. QED
      BY <3>3, <3>4, <3>5, <3>6 DEF AttemptInv
  <2>. QED
    BY <1>5, <2>1, <2>2
<1>8. Unique' /\ Counted'
  BY <1>1, <1>5, CommitsKept DEF IInv
<1>9. OthersType'
  BY <1>1, <1>6 DEF IInv, OthersType, browser
<1>10. ASSUME NEW t \in Tabs
       PROVE  TabInv(t)'
  <2>1. TabInv(t) /\ waiting[t] \in Attempts \cup {None} /\ told[t] \in ToldType
    BY DEF IInv, OthersType
  <2>2. snapshot' = snapshot /\ draft' = draft /\ waiting' = waiting /\ told' = told
    BY <1>1 DEF browser
  <2>3. Waits(t)'
    BY <1>5, <2>1, <2>2 DEF TabInv, Waits
  <2>4. Reads(t)'
    BY <1>5, <2>1, <2>2 DEF TabInv, Reads, Running
  <2>. QED
    BY <1>2, <2>1, <2>2, <2>3, <2>4 DEF TabInv, Grows
<1>. QED
  BY <1>2, <1>7, <1>8, <1>9, <1>10 DEF IInv

-----------------------------------------------------------------------------
(* The steps of the tabs and of the colleagues. *)

\* A step of tab t, about requests of its own.
LEMMA TabAssemble ==
    ASSUME IInv, NEW t \in Tabs, StoreInv', OthersType', Grows,
           UNCHANGED <<commits, foreign>>, \A a \in Attempts : AttemptInv(a)',
           \A a \in Attempts : attempt'[a].commit = attempt[a].commit,
           \A a \in Attempts : attempt[a].stage # "unused" /\ attempt[a].tab # t =>
              attempt'[a] = attempt[a],
           \A u \in Tabs \ {t} : /\ snapshot'[u] = snapshot[u] /\ draft'[u] = draft[u]
                                 /\ waiting'[u] = waiting[u] /\ told'[u] = told[u],
           TabInv(t)'
    PROVE  IInv'
<1>1. ASSUME NEW u \in Tabs \ {t}
      PROVE  TabInv(u)'
  <2>1. TabInv(u) /\ waiting[u] \in Attempts \cup {None} /\ told[u] \in ToldType
    BY DEF IInv, OthersType
  <2>2. Waits(u)'
    BY <2>1 DEF TabInv, Waits
  <2>3. Reads(u)'
    BY <2>1 DEF TabInv, Reads
  <2>. QED
    BY <2>1, <2>2, <2>3 DEF TabInv, Grows
<1>2. Unique' /\ Counted'
  BY CommitsKept DEF IInv
<1>. QED
  BY <1>1, <1>2 DEF IInv

\* A step of tab t that asks the server nothing.
LEMMA TabOnly ==
    ASSUME IInv, NEW t \in Tabs, UNCHANGED <<remote, Written, attempt, foreign>>, OthersType',
           \A u \in Tabs \ {t} : /\ snapshot'[u] = snapshot[u] /\ draft'[u] = draft[u]
                                 /\ waiting'[u] = waiting[u] /\ told'[u] = told[u],
           TabInv(t)'
    PROVE  IInv'
<1>1. StoreInv' /\ Grows /\ \A a \in Attempts : Clear(a)
  BY StoreSame, RemoteSame DEF IInv
<1>2. \A a \in Attempts : AttemptInv(a)'
  BY <1>1, Undisturbed DEF IInv
<1>3. commits' = commits
  BY DEF remote
<1>. QED
  BY <1>1, <1>2, <1>3, TabAssemble

LEMMA ReloadKeeps ==
    ASSUME IInv, NEW t \in Tabs, Reload(t)
    PROVE  IInv'
<1>1. /\ UNCHANGED <<remote, Written, attempt, waiting, told, counts>> /\ waiting[t] = None
      /\ snapshot' = [snapshot EXCEPT ![t] = Tip] /\ OnBranch' = OnBranch
  BY DEF Reload, remote, OnBranch, records, Written
<1>2. /\ Tip \in OnBranch /\ Tip \in Nat
  BY TipOnBranch DEF IInv, StoreInv
<1>3. draft' \in [Tabs -> DraftType \cup {None}] /\ \A u \in Tabs \ {t} : draft'[u] = draft[u]
  <2>. DEFINE d == IF draft[t] # None /\ Tree(Tip)[draft[t].file] # draft[t].from
                   THEN [draft[t] EXCEPT !.quarantined = TRUE] ELSE draft[t]
  <2>1. draft \in [Tabs -> DraftType \cup {None}]
    BY DEF IInv, OthersType
  <2>2. draft[t] \in DraftType => [draft[t] EXCEPT !.quarantined = TRUE] \in DraftType
    BY DEF DraftType
  <2>3. d \in DraftType \cup {None}
    BY <2>1, <2>2
  <2>4. draft' = [draft EXCEPT ![t] = d]
    BY DEF Reload
  <2>. HIDE DEF d
  <2>. QED
    BY <2>1, <2>3, <2>4
<1>4. OthersType'
  BY <1>1, <1>2, <1>3 DEF IInv, OthersType, counts
<1>5. TabInv(t)'
  <2>1. TabInv(t)
    BY DEF IInv
  <2>2. snapshot'[t] = Tip
    BY <1>1 DEF IInv, OthersType
  <2>. QED
    BY <1>1, <1>2, <2>1, <2>2 DEF TabInv, Waits, Reads
<1>6. \A u \in Tabs \ {t} : snapshot'[u] = snapshot[u] /\ draft'[u] = draft[u]
  BY <1>1, <1>3 DEF IInv, OthersType
<1>. QED
  BY <1>1, <1>4, <1>5, <1>6, TabOnly DEF counts

LEMMA EditKeeps ==
    ASSUME IInv, NEW t \in Tabs, NEW f \in Files, NEW c \in Contents, Edit(t, f, c)
    PROVE  IInv'
<1>. DEFINE d == [file |-> f, from |-> Tree(snapshot[t])[f], to |-> c, quarantined |-> FALSE]
<1>1. /\ UNCHANGED <<remote, Written, attempt, snapshot, waiting, told, counts>>
      /\ waiting[t] = None /\ OnBranch' = OnBranch
  BY DEF Edit, remote, OnBranch, records, Written
<1>2. d \in DraftType
  <2>1. snapshot[t] \in 1..Len(commits)
    BY DEF IInv, TabInv, StoreInv
  <2>2. Tree(snapshot[t]) \in [Files -> Bytes]
    BY <2>1, CommitType DEF IInv, Trees, Bytes
  <2>. QED
    BY <2>2 DEF DraftType, Bytes
<1>3. draft' = [draft EXCEPT ![t] = d]
  BY DEF Edit
<1>. HIDE DEF d
<1>4. draft' \in [Tabs -> DraftType \cup {None}] /\ \A u \in Tabs \ {t} : draft'[u] = draft[u]
  BY <1>2, <1>3 DEF IInv, OthersType
<1>5. OthersType'
  BY <1>1, <1>4 DEF IInv, OthersType, counts
<1>6. TabInv(t)'
  BY <1>1 DEF IInv, TabInv, Waits, Reads
<1>. QED
  BY <1>1, <1>4, <1>5, <1>6, TabOnly DEF counts

LEMMA DiscardKeeps ==
    ASSUME IInv, NEW t \in Tabs, Discard(t)
    PROVE  IInv'
<1>1. /\ UNCHANGED <<remote, Written, attempt, snapshot, waiting, told, counts>>
      /\ waiting[t] = None /\ OnBranch' = OnBranch
  BY DEF Discard, remote, OnBranch, records, Written
<1>2. draft' \in [Tabs -> DraftType \cup {None}] /\ \A u \in Tabs \ {t} : draft'[u] = draft[u]
  BY DEF Discard, IInv, OthersType
<1>3. OthersType'
  BY <1>1, <1>2 DEF IInv, OthersType, counts
<1>4. TabInv(t)'
  BY <1>1 DEF IInv, TabInv, Waits, Reads
<1>. QED
  BY <1>1, <1>2, <1>3, <1>4, TabOnly DEF counts

\* The connection breaks while the server still works on the request.
LEMMA GiveUpKeeps ==
    ASSUME IInv, NEW t \in Tabs, GiveUp(t)
    PROVE  IInv'
<1>. DEFINE a == waiting[t]
            o == IF attempt[a].kind = "subscription" THEN "error" ELSE "indeterminate"
<1>1. /\ UNCHANGED <<remote, Written, attempt, snapshot, draft, foreign>> /\ a # None
      /\ waiting' = [waiting EXCEPT ![t] = None]
      /\ told' = [told EXCEPT ![t] = [outcome |-> o, attempt |-> a]]
      /\ OnBranch' = OnBranch /\ losses' \in 0..MaxLosses
  BY LoseType DEF GiveUp, remote, OnBranch, records, Written
<1>2. /\ a \in Attempts /\ attempt[a].tab = t /\ attempt[a].stage # "unused"
      /\ snapshot[t] \in OnBranch
  BY <1>1 DEF IInv, OthersType, TabInv, Waits
<1>3. o \in {"error", "indeterminate"}
  OBVIOUS
<1>. HIDE DEF a, o
<1>4. [outcome |-> o, attempt |-> a] \in ToldType
  BY <1>2, <1>3 DEF ToldType, Claims, Outcomes
<1>5. /\ told' \in [Tabs -> ToldType] /\ waiting' \in [Tabs -> Attempts \cup {None}]
      /\ waiting'[t] = None /\ told'[t] = [outcome |-> o, attempt |-> a]
      /\ \A u \in Tabs \ {t} : waiting'[u] = waiting[u] /\ told'[u] = told[u]
  BY <1>1, <1>4 DEF IInv, OthersType
<1>6. OthersType'
  BY <1>1, <1>5 DEF IInv, OthersType
<1>7. TabInv(t)'
  BY <1>1, <1>2, <1>3, <1>5 DEF TabInv, Waits, Reads
<1>. QED
  BY <1>1, <1>5, <1>6, <1>7, TabOnly

\* A branch gets a name only for a commit that the audit knows of the workspace.
LEMMA NameBranchKeeps ==
    ASSUME IInv, FileInv, NEW t \in Tabs, NameBranch(t)
    PROVE  IInv'
<1>0. Elsewhere \in Records
  BY DEF Elsewhere, Entry, Records, Refs
<1>1. /\ UNCHANGED <<commits, branch, delayed, attempt, browser, counts>>
      /\ OnBranch' = OnBranch
      /\ Attributed(side', Environment[t]) /\ side' # None
  BY DEF NameBranch, OnBranch
<1>11. Recorded(side', Environment[t])
  BY <1>1, KeptWasWritten
<1>12. Written' = Written \/ Written' = Written \cup {Elsewhere}
  <2>1. UNCHANGED records => Written' = Written
    BY DEF records, Written
  <2>. QED
    BY <1>0, <2>1, AppendsKeeps DEF NameBranch, RecordElsewhere
<1>2. side' \in 1..Len(commits)
  BY <1>1, <1>11 DEF Recorded, IInv, StoreInv, Entry, Elsewhere
<1>3. StoreInv' /\ Grows
  BY <1>1, <1>12, <1>2 DEF IInv, StoreInv, Grows
<1>4. PICK a \in Attempts : a = told[t].attempt /\ attempt[a].tab = t /\ side' = attempt[a].names
  BY DEF NameBranch, IInv, TabInv, Reads
<1>5. ASSUME NEW b \in Attempts
      PROVE  Clear(b)
  <2>1. ASSUME attempt[b].commit # None, attempt[b].commit = side'
        PROVE  Recorded(attempt[b].commit, Environment[attempt[b].tab])
    <3>1. AttemptInv(b) /\ Answered(a) /\ Unique
      BY DEF IInv, AttemptInv
    <3>2. CASE side' \in OnBranch
      BY <2>1, <3>1, <3>2 DEF AttemptInv, Ordered
    <3>3. CASE side' \notin OnBranch
      <4>1. attempt[a].commit = side'
        BY <1>4, <2>1, <3>1, <3>3 DEF Answered
      <4>2. a = b
        BY <2>1, <3>1, <4>1 DEF Unique
      <4>. QED
        BY <1>11, <1>4, <2>1, <4>2
    <3>. QED
      BY <3>2, <3>3
  <2>2. Recorded(attempt[b].commit, Environment[attempt[b].tab]) => Logged(b)
    BY <1>12 DEF Recorded, Logged
  <2>. QED
    BY <1>1, <2>1, <2>2 DEF Clear
<1>6. \A b \in Attempts : AttemptInv(b)'
  BY <1>1, <1>3, <1>5, Undisturbed DEF IInv
<1>7. OthersType' /\ TabInv(t)'
  BY <1>1 DEF IInv, OthersType, browser, counts, TabInv, Waits, Reads
<1>8. UNCHANGED <<commits, foreign, attempt, snapshot, draft, waiting, told>>
  BY <1>1 DEF browser, counts
<1>. QED
  BY <1>3, <1>6, <1>7, <1>8, TabAssemble

-----------------------------------------------------------------------------
(* A tab sends a request. *)

LEMMA SendKeeps ==
    ASSUME IInv, NEW t \in Tabs, NEW a \in Attempts, NEW stage \in {"sent", "ready"},
           NEW kind \in {"edit", "subscription", "undo"}, NEW base \in 1..Len(commits),
           NEW change \in ChangeType, Send(t, a, stage, kind, base, change),
           stage = "sent" <=> kind = "undo",
           kind # "undo" => draft[t] \in DraftType /\ change = Edited(draft[t]),
           kind = "subscription" => draft[t].file \in Bridge,
           snapshot' \in [Tabs -> Nat], snapshot'[t] \in OnBranch,
           \A u \in Tabs \ {t} : snapshot'[u] = snapshot[u]
    PROVE  IInv'
<1>. DEFINE w == [Unused EXCEPT !.stage = stage, !.kind = kind, !.tab = t,
                                !.base = base, !.change = change]
<1>1. /\ UNCHANGED <<remote, Written, draft, told, counts>> /\ attempt[a] = Unused
      /\ waiting' = [waiting EXCEPT ![t] = a] /\ attempt' = [attempt EXCEPT ![a] = w]
      /\ waiting[t] = None /\ OnBranch' = OnBranch /\ commits' = commits /\ foreign' = foreign
  BY DEF Send, remote, OnBranch, counts, records, Written
<1>2. base \in Nat /\ base # None
  BY NoneOffBranch DEF IInv
<1>3. /\ w \in AttemptType
      /\ w.stage = stage /\ w.kind = kind /\ w.tab = t /\ w.base = base /\ w.change = change
      /\ w.target = None /\ w.commit = None /\ w.found = None /\ w.outcome = "none"
      /\ w.names = None
  BY <1>2 DEF Unused, AttemptType, Stages, Outcomes, Refs
<1>. HIDE DEF w
<1>4. /\ attempt' \in [Attempts -> AttemptType] /\ attempt'[a] = w
      /\ \A b \in Attempts \ {a} : attempt'[b] = attempt[b]
      /\ waiting' \in [Tabs -> Attempts \cup {None}] /\ waiting'[t] = a
      /\ \A u \in Tabs \ {t} : waiting'[u] = waiting[u]
  BY <1>1, <1>3 DEF IInv, OthersType
<1>5. attempt[a].stage = "unused" /\ attempt[a].commit = None
  BY <1>1 DEF Unused
<1>6. StoreInv' /\ Grows /\ \A b \in Attempts : Clear(b)
  BY <1>1, StoreSame, RemoteSame DEF IInv
<1>7. AttemptInv(a)'
  <2>1. Refers(a)'
    BY <1>1, <1>2, <1>3, <1>4 DEF Refers
  <2>2. Made(a)' /\ Ordered(a)' /\ Answered(a)'
    BY <1>3, <1>4 DEF Made, Ordered, Answered
  <2>. QED
    BY <2>1, <2>2 DEF AttemptInv
<1>8. \A b \in Attempts : AttemptInv(b)'
  BY <1>4, <1>6, <1>7, Undisturbed DEF IInv
<1>9. OthersType'
  BY <1>1, <1>4 DEF IInv, OthersType, counts
<1>10. TabInv(t)'
  <2>1. Waits(t)'
    <3>1. draft' = draft
      BY <1>1
    <3>2. draft[t] \in DraftType => Edited(draft[t])' = Edited(draft[t])
      BY <3>1 DEF Edited
    <3>. QED
      BY <1>3, <1>4, <3>1, <3>2 DEF Waits
  <2>2. Reads(t)'
    BY <1>1, <1>4, <1>5 DEF IInv, TabInv, Reads
  <2>. QED
    BY <1>1, <2>1, <2>2 DEF TabInv
<1>11. \A b \in Attempts : attempt'[b].commit = attempt[b].commit
  BY <1>3, <1>4, <1>5
<1>12. \A b \in Attempts : attempt[b].stage # "unused" => attempt'[b] = attempt[b]
  BY <1>4, <1>5
<1>. QED
  BY <1>1, <1>4, <1>6, <1>8, <1>9, <1>10, <1>11, <1>12, TabAssemble

LEMMA SaveKeeps ==
    ASSUME IInv, NEW t \in Tabs, NEW a \in Attempts, Save(t, a)
    PROVE  IInv'
<1>1. /\ draft[t] \in DraftType /\ snapshot[t] \in OnBranch /\ snapshot' = snapshot
      /\ Send(t, a, "ready", "edit", snapshot[t], Edited(draft[t]))
  BY DEF Save, IInv, OthersType, TabInv
<1>2. Edited(draft[t]) \in ChangeType
  BY <1>1, EditedType
<1>3. snapshot[t] \in 1..Len(commits) /\ snapshot \in [Tabs -> Nat]
  BY <1>1 DEF IInv, StoreInv, OthersType
<1>. QED
  BY <1>1, <1>2, <1>3, SendKeeps

LEMMA SaveSubscriptionKeeps ==
    ASSUME IInv, NEW t \in Tabs, NEW a \in Attempts, SaveSubscription(t, a)
    PROVE  IInv'
<1>1. /\ draft[t] \in DraftType /\ draft[t].file \in Bridge
      /\ Send(t, a, "ready", "subscription", Tip, Edited(draft[t]))
      /\ snapshot' = [snapshot EXCEPT ![t] = Tip] /\ snapshot \in [Tabs -> Nat]
  BY DEF SaveSubscription, IInv, OthersType
<1>2. Edited(draft[t]) \in ChangeType
  BY <1>1, EditedType
<1>3. Tip \in OnBranch /\ Tip \in 1..Len(commits) /\ Tip \in Nat
  BY TipOnBranch DEF IInv, StoreInv
<1>4. /\ snapshot' \in [Tabs -> Nat] /\ snapshot'[t] = Tip
      /\ \A u \in Tabs \ {t} : snapshot'[u] = snapshot[u]
  BY <1>1, <1>3
<1>. QED
  BY <1>1, <1>2, <1>3, <1>4, SendKeeps

LEMMA UndoKeeps ==
    ASSUME IInv, NEW t \in Tabs, NEW a \in Attempts, NEW c \in OnBranch, Undo(t, a, c)
    PROVE  IInv'
<1>1. /\ Send(t, a, "sent", "undo", c, NoChange) /\ snapshot' = snapshot
      /\ snapshot \in [Tabs -> Nat] /\ snapshot[t] \in OnBranch /\ c \in 1..Len(commits)
  BY DEF Undo, IInv, OthersType, TabInv, StoreInv
<1>. QED
  BY <1>1, NoChangeType, SendKeeps

-----------------------------------------------------------------------------
(* A tab reads the answer. *)

\* What the user is told of an answered attempt is its outcome.
LEMMA ClaimIsOutcome ==
    ASSUME NEW o \in Outcomes
    PROVE  /\ Claim(o) \in Claims /\ ClaimSubscription(o) \in {"error", "updated"}
           /\ Claim(o) \in {"applied", "unchanged", "pending"} => Claim(o) = o
           /\ Claim(o) = "notSaved" => o \in {"refused", "notApplied"}
           /\ Complete(Claim(o)) => o \in {"applied", "unchanged"}
           /\ Claim(o) # "updated"
BY DEF Claim, ClaimSubscription, Claims, Outcomes, Complete

LEMMA DeliverKeeps ==
    ASSUME IInv, NEW t \in Tabs, Deliver(t)
    PROVE  IInv'
<1>0. PICK a \in Attempts : a = waiting[t]
  BY DEF Deliver, IInv, OthersType
<1>. DEFINE o == attempt[a].outcome
            claim == IF attempt[a].kind = "subscription" THEN ClaimSubscription(o)
                     ELSE Claim(o)
<1>1. /\ UNCHANGED <<remote, Written, counts>> /\ attempt[a].stage = "answered"
      /\ told' = [told EXCEPT ![t] = [outcome |-> claim, attempt |-> a]]
      /\ waiting' = [waiting EXCEPT ![t] = None] /\ Move(a, "closed")
      /\ snapshot' \in {snapshot, [snapshot EXCEPT ![t] = Tip]}
      /\ draft' \in {draft, [draft EXCEPT ![t] = None]}
  BY <1>0 DEF Deliver, records, Written
<1>2. /\ attempt[a].tab = t /\ snapshot[t] \in OnBranch /\ AttemptInv(a)
      /\ attempt \in [Attempts -> AttemptType] /\ o \in Outcomes
      /\ commits' = commits /\ OnBranch' = OnBranch /\ delayed' = delayed /\ Written' = Written
      /\ side' = side
  <2>1. /\ attempt[a].tab = t /\ snapshot[t] \in OnBranch /\ AttemptInv(a)
        /\ attempt \in [Attempts -> AttemptType]
    BY <1>0, GitHubAssumption DEF IInv, OthersType, TabInv, Waits, Attempts, GitHubAssumption
  <2>2. o \in Outcomes
    BY <2>1 DEF AttemptType
  <2>. QED
    BY <1>1, <2>1, <2>2 DEF remote, OnBranch
<1>3. /\ claim \in Claims
      /\ claim \in {"applied", "unchanged", "pending"} => claim = o
      /\ claim = "notSaved" => o \in {"refused", "notApplied"}
  BY <1>2, ClaimIsOutcome DEF Claims
<1>4. /\ attempt' \in [Attempts -> AttemptType]
      /\ \A b \in Attempts \ {a} : attempt'[b] = attempt[b]
      /\ attempt'[a].stage = "closed"
      /\ attempt'[a].kind = attempt[a].kind
      /\ attempt'[a].tab = attempt[a].tab
      /\ attempt'[a].base = attempt[a].base
      /\ attempt'[a].change = attempt[a].change
      /\ attempt'[a].target = attempt[a].target
      /\ attempt'[a].commit = attempt[a].commit
      /\ attempt'[a].found = attempt[a].found
      /\ attempt'[a].outcome = o
      /\ attempt'[a].names = attempt[a].names
  <2>1. "closed" \in Stages
    BY DEF Stages
  <2>. QED
    BY <1>1, <1>2, <2>1, MoveStep
<1>5. StoreInv' /\ Grows /\ \A b \in Attempts : Clear(b)
  BY <1>1, StoreSame, RemoteSame DEF IInv
<1>6. AttemptInv(a)'
  <2>1. Refers(a)'
    BY <1>1, <1>2, <1>4 DEF AttemptInv, Refers
  <2>2. Made(a)'
    <3>1. \A d \in 1..Len(commits) : UndoChange(d)' = UndoChange(d)
      BY <1>2 DEF UndoChange, Changed, Tree
    <3>2. Undoes(attempt[a]) => Undoes(attempt[a])'
      BY <1>2, <1>4, <3>1 DEF Undoes
    <3>. QED
      BY <1>1, <1>2, <1>4, <3>2 DEF AttemptInv, Made, Tree
  <2>3. Ordered(a)'
    BY <1>1, <1>2, <1>4 DEF AttemptInv, Ordered, Recorded
  <2>4. Answered(a)'
    BY <1>1, <1>2, <1>4 DEF AttemptInv, Answered, Recorded, Holds, Tree
  <2>. QED
    BY <2>1, <2>2, <2>3, <2>4 DEF AttemptInv
<1>7. \A b \in Attempts : AttemptInv(b)'
  BY <1>2, <1>4, <1>5, <1>6, Undisturbed DEF IInv
<1>8. Tip \in OnBranch /\ Tip \in Nat
  BY TipOnBranch DEF IInv, StoreInv
<1>. HIDE DEF claim
<1>9. [outcome |-> claim, attempt |-> a] \in ToldType
  BY <1>2, <1>3 DEF ToldType
<1>10. /\ told' \in [Tabs -> ToldType] /\ waiting' \in [Tabs -> Attempts \cup {None}]
       /\ waiting'[t] = None /\ told'[t] = [outcome |-> claim, attempt |-> a]
       /\ snapshot' \in [Tabs -> Nat] /\ snapshot'[t] \in OnBranch
       /\ draft' \in [Tabs -> DraftType \cup {None}]
       /\ \A u \in Tabs \ {t} : /\ waiting'[u] = waiting[u] /\ told'[u] = told[u]
                                /\ snapshot'[u] = snapshot[u] /\ draft'[u] = draft[u]
  BY <1>1, <1>2, <1>8, <1>9 DEF IInv, OthersType
<1>11. OthersType'
  BY <1>1, <1>4, <1>10 DEF IInv, OthersType, counts
<1>12. TabInv(t)'
  BY <1>2, <1>3, <1>4, <1>10 DEF TabInv, Waits, Reads
<1>13. /\ \A b \in Attempts : attempt'[b].commit = attempt[b].commit
       /\ \A b \in Attempts : attempt[b].tab # t => attempt'[b] = attempt[b]
  BY <1>2, <1>4
<1>14. UNCHANGED <<commits, foreign>>
  BY <1>1 DEF remote, counts
<1>. QED
  BY <1>5, <1>7, <1>10, <1>11, <1>12, <1>13, <1>14, TabAssemble

-----------------------------------------------------------------------------
(* Colleagues and late updates. *)

\* The store moves; the server and the tabs do not.
LEMMA StoreOnly ==
    ASSUME IInv, StoreInv', Grows, \A a \in Attempts : Clear(a),
           UNCHANGED <<attempt, browser, losses>>, foreign' \in 0..MaxForeign, Counted'
    PROVE  IInv'
<1>1. UNCHANGED <<attempt, snapshot, draft, waiting, told, losses>>
  BY DEF browser
<1>2. OthersType'
  BY <1>1 DEF IInv, OthersType
<1>3. \A a \in Attempts : AttemptInv(a)'
  BY <1>1, Undisturbed DEF IInv
<1>4. \A t \in Tabs : TabInv(t)'
  BY <1>1 DEF IInv, TabInv, Waits, Reads, Grows
<1>5. Unique'
  BY <1>1 DEF IInv, Unique
<1>. QED
  BY <1>2, <1>3, <1>4, <1>5 DEF IInv

LEMMA ColleaguePushesKeeps ==
    ASSUME IInv, NEW f \in Files, NEW c \in Bytes, ColleaguePushes(f, c)
    PROVE  IInv'
<1>. DEFINE tree == [Tree(Tip) EXCEPT ![f] = c]
            n    == Len(commits) + 1
<1>1. /\ UNCHANGED <<side, delayed, Written, attempt, browser, losses>>
      /\ foreign' = foreign + 1 /\ foreign < MaxForeign
      /\ commits' = NewCommit(Tip, tree) /\ branch' = Append(branch, Len(commits'))
  BY DEF ColleaguePushes, records, Written
<1>2. Tip \in 1..Len(commits) /\ StoreInv
  BY TipOnBranch DEF IInv
<1>3. tree \in Trees
  BY <1>2, CommitType DEF Trees, Bytes
<1>4. /\ Len(commits) \in Nat /\ foreign \in 0..MaxForeign /\ MaxForeign \in Nat
      /\ MaxAttempts \in Nat
  BY <1>2, GitHubAssumption DEF StoreInv, IInv, OthersType, GitHubAssumption
<1>5. Len(commits) = 1 + foreign + Cardinality(Built)
  BY DEF IInv, Counted
<1>6. Cardinality(Built) \in Nat /\ Cardinality(Built) =< MaxAttempts
  <2>1. IsFiniteSet(Attempts) /\ Cardinality(Attempts) = MaxAttempts
    BY <1>4, FS_Interval DEF Attempts
  <2>2. Built \subseteq Attempts
    BY DEF Built
  <2>. QED
    BY <2>1, <2>2, FS_Subset, FS_CardinalityType
<1>7. n \in Commits
  BY <1>1, <1>4, <1>5, <1>6 DEF Commits
<1>8. PICK p \in 1..Len(commits), q \in Trees : p = Tip /\ q = tree
  BY <1>2, <1>3
<1>. HIDE DEF tree
<1>9. /\ StoreInv' /\ Grows /\ Len(commits') = n
      /\ OnBranch' = OnBranch \/ OnBranch' = OnBranch \cup {n}
  <2>1. commits' = NewCommit(p, q) /\ (p = Tip /\ branch' = Append(branch, Len(commits')))
    BY <1>1, <1>8
  <2>2. StoreInv' /\ Grows /\ Len(commits') = Len(commits) + 1
        /\ (OnBranch' = OnBranch \/ OnBranch' = OnBranch \cup {Len(commits')})
    BY <1>1, <1>2, <1>7, <2>1, StoreCommits
  <2>. QED
    BY <2>2
<1>10. ASSUME NEW a \in Attempts
       PROVE  Clear(a)
  <2>1. attempt[a].commit # None => attempt[a].commit # n
    BY <1>4 DEF IInv, AttemptInv, Refers
  <2>. QED
    BY <1>1, <1>9, <2>1 DEF Clear
<1>11. Counted'
  <2>1. Built' = Built
    BY <1>1 DEF Built
  <2>. QED
    BY <1>1, <1>4, <1>5, <1>6, <1>9, <2>1 DEF Counted
<1>12. foreign' \in 0..MaxForeign
  BY <1>1, <1>4
<1>. QED
  BY <1>1, <1>9, <1>10, <1>11, <1>12, StoreOnly

LEMMA DelayedUpdateArrivesKeeps ==
    ASSUME IInv, NEW c \in Commits, DelayedUpdateArrives(c)
    PROVE  IInv'
<1>1. /\ c \in delayed /\ Accepts(c) /\ branch' = Append(branch, c)
      /\ UNCHANGED <<commits, side, delayed, Written, attempt, browser, counts>>
      /\ c \in 1..Len(commits) /\ StoreInv /\ delayed \subseteq 1..Len(commits)
  BY DEF DelayedUpdateArrives, IInv, StoreInv, records, Written
<1>2. StoreInv' /\ Grows /\ OnBranch' = OnBranch \cup {c}
  BY <1>1, StoreAdvances
<1>3. \A a \in Attempts : Clear(a)
  BY <1>1, <1>2 DEF Clear
<1>4. Counted' /\ foreign' \in 0..MaxForeign
  BY <1>1 DEF IInv, Counted, Built, OthersType, counts
<1>. QED
  BY <1>1, <1>2, <1>3, <1>4, StoreOnly DEF counts

-----------------------------------------------------------------------------
(* The invariant. *)

LEMMA StutterKeeps ==
    ASSUME IInv, UNCHANGED vars
    PROVE  IInv'
<1>1. UNCHANGED <<remote, Written, attempt, browser, counts>>
  BY DEF vars, records, Written
<1>2. StoreInv' /\ Grows /\ \A a \in Attempts : Clear(a)
  BY <1>1, StoreSame, RemoteSame DEF IInv
<1>3. Counted' /\ foreign' \in 0..MaxForeign
  BY <1>1 DEF IInv, Counted, Built, OthersType, counts, remote
<1>. QED
  BY <1>1, <1>2, <1>3, StoreOnly DEF counts

LEMMA OthersRecordKeeps ==
    ASSUME IInv, FileInv, OthersRecord
    PROVE  IInv'
<1>1. Elsewhere \in Records
  BY DEF Elsewhere, Entry, Records, Refs
<1>2. Written' = Written \cup {Elsewhere} /\ UNCHANGED <<remote, attempt, browser, counts>>
  BY <1>1, AppendsKeeps DEF OthersRecord, RecordElsewhere
<1>3. StoreInv' /\ Grows /\ \A a \in Attempts : Clear(a)
  BY <1>2, StoreSame, RemoteSame DEF IInv
<1>4. Counted' /\ foreign' \in 0..MaxForeign
  BY <1>2 DEF IInv, Counted, Built, OthersType, counts, remote
<1>. QED
  BY <1>2, <1>3, <1>4, StoreOnly DEF counts

\* Nobody touches the file but by adding a record to it.
LEMMA FileInvKept ==
    ASSUME IInv, FileInv, [Next]_vars
    PROVE  FileInv'
<1>1. ASSUME UNCHANGED records
      PROVE  FileInv'
  BY <1>1 DEF FileInv, records
<1>2. Elsewhere \in Records
  BY DEF Elsewhere, Entry, Records, Refs
<1>3. ASSUME NEW a \in Attempts, Record(a)
      PROVE  FileInv'
  <2>1. Entry(attempt[a].commit, Environment[attempt[a].tab]) \in Records
    <3>1. attempt[a].tab \in Tabs /\ attempt[a].commit \in Refs
      BY <1>3 DEF Record, IInv, AttemptInv, Refers, OthersType, AttemptType
    <3>. QED
      BY <3>1 DEF Entry, Records
  <2>. QED
    BY <1>1, <1>3, <2>1, AppendsKeeps DEF Record
<1>4. ASSUME NEW a \in Attempts, ServerStep(a), ~Record(a)
      PROVE  UNCHANGED records
  BY <1>4 DEF ServerStep, Breaks, InspectUndo, Propose, UpdateRef, Reconcile, FindApplied,
     ConfirmEquivalent
<1>5. ASSUME NEW t \in Tabs, TabStep(t), ~NameBranch(t)
      PROVE  UNCHANGED records
  BY <1>5 DEF TabStep, Reload, Discard, Deliver, GiveUp, Edit, Save, SaveSubscription, Undo, Send
<1>6. ASSUME NEW t \in Tabs, NameBranch(t)
      PROVE  FileInv'
  BY <1>1, <1>2, <1>6, AppendsKeeps DEF NameBranch, RecordElsewhere
<1>7. CASE OthersRecord
  BY <1>2, <1>7, AppendsKeeps DEF OthersRecord, RecordElsewhere
<1>8. CASE \/ ServerStops \/ UNCHANGED vars
           \/ \E f \in Files, c \in Contents \cup {Absent} : ColleaguePushes(f, c)
           \/ \E c \in Commits : DelayedUpdateArrives(c)
  BY <1>1, <1>8 DEF ServerStops, ColleaguePushes, DelayedUpdateArrives, vars
<1>. QED
  BY <1>1, <1>3, <1>4, <1>5, <1>6, <1>7, <1>8 DEF Next

LEMMA NextInv ==
    ASSUME IInv, FileInv, [Next]_vars
    PROVE  IInv'
<1>1. ASSUME NEW a \in Attempts, ServerStep(a)
      PROVE  IInv'
  BY <1>1, BreaksKeeps, InspectUndoKeeps, ProposeKeeps, RecordKeeps, UpdateRefKeeps,
     ReconcileKeeps, FindAppliedKeeps, ConfirmEquivalentKeeps DEF ServerStep
<1>2. ASSUME NEW t \in Tabs, TabStep(t)
      PROVE  IInv'
  BY <1>2, ReloadKeeps, DiscardKeeps, NameBranchKeeps, DeliverKeeps, GiveUpKeeps, EditKeeps,
     SaveKeeps, SaveSubscriptionKeeps, UndoKeeps DEF TabStep
<1>3. ASSUME NEW f \in Files, NEW c \in Contents \cup {Absent}, ColleaguePushes(f, c)
      PROVE  IInv'
  BY <1>3, ColleaguePushesKeeps DEF Bytes
<1>. QED
  BY <1>1, <1>2, <1>3, ServerStopsKeeps, OthersRecordKeeps, DelayedUpdateArrivesKeeps,
     StutterKeeps DEF Next

LEMMA InitInv ==
    ASSUME Init
    PROVE  IInv /\ FileInv
<1>1. GitHubAssumption
  BY GitHubAssumption
<1>2. /\ commits \in Seq([parent : Commits, tree : Trees]) /\ Len(commits) = 1
      /\ commits[1] = [parent |-> 1, tree |-> Start]
  <2>1. [parent |-> 1, tree |-> Start] \in [parent : Commits, tree : Trees]
    BY <1>1 DEF GitHubAssumption, Commits, Trees
  <2>. QED
    BY <2>1 DEF Init
<1>3. branch \in Seq(Nat) /\ Len(branch) = 1 /\ branch[1] = 1 /\ OnBranch = {1}
  BY DEF Init, OnBranch
<1>4. StoreInv
  <2>1. Written = {}
    BY DEF Written, Init
  <2>. QED
    BY <1>2, <1>3, <2>1 DEF StoreInv, Init
<1>5. OthersType
  <2>1. Nothing \in ToldType
    BY DEF Nothing, ToldType, Claims
  <2>. QED
    BY <1>1, <2>1, UnusedType DEF Init, OthersType, GitHubAssumption
<1>6. \A a \in Attempts : attempt[a] = Unused
  BY DEF Init
<1>7. \A a \in Attempts : AttemptInv(a)
  BY <1>6 DEF AttemptInv, Refers, Made, Ordered, Answered, Unused
<1>8. \A t \in Tabs : TabInv(t)
  BY <1>3 DEF TabInv, Waits, Reads, Init, Nothing
<1>9. Unique
  BY <1>6 DEF Unique, Unused
<1>10. Counted
  <2>1. Built = {}
    BY <1>6 DEF Built, Unused
  <2>. QED
    BY <1>2, <2>1, FS_EmptySet DEF Counted, Init
<1>11. FileInv
  <2>1. audit = <<>> /\ log = <<>> /\ MaxRecords \in Nat
    BY <1>1 DEF Init, GitHubAssumption
  <2>. QED
    BY <2>1 DEF FileInv, Window
<1>. QED
  BY <1>4, <1>5, <1>7, <1>8, <1>9, <1>10, <1>11 DEF IInv

LEMMA Invariance == Spec => [](IInv /\ FileInv)
<1>1. Init => IInv /\ FileInv
  BY InitInv
<1>2. IInv /\ FileInv /\ [Next]_vars => IInv' /\ FileInv'
  BY NextInv, FileInvKept
<1>. QED
  BY <1>1, <1>2, PTL DEF Spec

-----------------------------------------------------------------------------
(* The theorems. *)

LEMMA RoomLeft ==
    ASSUME IInv
    PROVE  Len(commits) \in Commits
<1>1. MaxAttempts \in Nat /\ MaxForeign \in Nat /\ foreign \in 0..MaxForeign
  BY GitHubAssumption DEF GitHubAssumption, IInv, OthersType
<1>2. IsFiniteSet(Attempts) /\ Cardinality(Attempts) = MaxAttempts
  BY <1>1, FS_Interval DEF Attempts
<1>3. Built \subseteq Attempts
  BY DEF Built
<1>4. Cardinality(Built) \in Nat /\ Cardinality(Built) =< MaxAttempts
  BY <1>2, <1>3, FS_Subset, FS_CardinalityType
<1>5. Len(commits) = 1 + foreign + Cardinality(Built)
  BY DEF IInv, Counted
<1>. QED
  BY <1>1, <1>4, <1>5 DEF Commits

\* Every variable keeps its type, the branch stays a chain of commits each on
\* top of the one before, and a tab's snapshot is one of them: nothing that
\* workspace.mjs asks of GitHub rewrites the branch.
THEOREM GitHubTypeCorrect == Spec => []TypeOK
<1>1. ASSUME IInv, FileInv
      PROVE  TypeOK
  <2>1. Len(commits) \in Commits /\ DOMAIN commits = 1..Len(commits) /\ StoreInv /\ OthersType
    BY <1>1, RoomLeft DEF IInv, StoreInv
  <2>2. ASSUME NEW a \in Attempts
        PROVE  /\ attempt[a].stage \in Stages /\ attempt[a].outcome \in Outcomes
               /\ attempt[a].kind \in {"edit", "subscription", "undo"}
               /\ attempt[a].change \in Change
               /\ {attempt[a].commit, attempt[a].names, attempt[a].found, attempt[a].target}
                     \subseteq DOMAIN commits \cup {None}
    <3>1. attempt[a] \in AttemptType /\ Refers(a)
      BY <1>1 DEF IInv, OthersType, AttemptInv
    <3>2. attempt[a].change \in Change
      BY <3>1, ChangeTypes DEF AttemptType
    <3>3. {attempt[a].commit, attempt[a].names, attempt[a].found, attempt[a].target}
             \subseteq DOMAIN commits \cup {None}
      BY <2>1, <3>1 DEF Refers
    <3>. QED
      BY <3>1, <3>2, <3>3 DEF AttemptType
  <2>3. \A t \in Tabs : snapshot[t] \in OnBranch /\ waiting[t] \in Attempts \cup {None}
    BY <1>1 DEF IInv, OthersType, TabInv
  <2>4. /\ Kept \cup Written \subseteq
               {Elsewhere} \cup [commit : DOMAIN commits, environment : {Environment[t] : t \in Tabs}]
        /\ Len(audit) =< MaxRecords
    <3>1. Kept \subseteq Written
      <4>1. ASSUME NEW x \in Kept
            PROVE  x \in Written
        <5>1. PICK k \in 1..Len(audit) : audit[k] = x
          BY <1>1 DEF Kept, FileInv
        <5>2. x \in Records
          BY <1>1, <5>1 DEF FileInv
        <5>21. x = Entry(x.commit, x.environment)
          BY <5>2 DEF Records, Entry
        <5>3. Attributed(x.commit, x.environment)
          BY <5>21 DEF Attributed
        <5>. QED
          BY <1>1, <5>21, <5>3, KeptWasWritten DEF Recorded
      <4>. QED
        BY <4>1
    <3>. QED
      BY <1>1, <2>1, <3>1 DEF StoreInv, FileInv, Window
  <2>. QED
    BY <2>1, <2>2, <2>3, <2>4 DEF TypeOK, StoreInv, OthersType
<1>. QED
  BY <1>1, Invariance, PTL

\* What saveStatusLine calls saved is on the branch with the contents asked for,
\* and was recorded there for History, whichever of the answers was lost, however
\* many requests and pushes overtook each other.
THEOREM ToldTruly == Spec => []ToldTheTruth
<1>1. ASSUME IInv
      PROVE  ToldTheTruth
  <2>1. ASSUME NEW t \in Tabs, told[t].outcome \in {"applied", "unchanged"}
        PROVE  LET r == attempt[told[t].attempt]
               IN  /\ r.names \in OnBranch /\ Holds(r.names, r.change)
                   /\ told[t].outcome = "applied" => Recorded(r.names, Environment[t])
    <3>1. /\ told[t].attempt \in Attempts /\ attempt[told[t].attempt].tab = t
          /\ attempt[told[t].attempt].stage = "closed"
          /\ attempt[told[t].attempt].outcome = told[t].outcome
      BY <1>1, <2>1 DEF IInv, TabInv, Reads
    <3>2. Answered(told[t].attempt)
      BY <1>1, <3>1 DEF IInv, AttemptInv
    <3>. QED
      BY <2>1, <3>1, <3>2 DEF Answered
  <2>. QED
    BY <2>1 DEF ToldTheTruth
<1>. QED
  BY <1>1, Invariance, PTL

\* What the user is told is not saved, or waits for review, never turns up on
\* the branch by itself, so that saving it again repeats nothing; only an update
\* GitHub still had under way may (github-coordinator.mjs tells it as pending).
THEOREM RefusedCommitsStayOff == Spec => []RefusedStaysOff
<1>1. ASSUME IInv
      PROVE  RefusedStaysOff
  <2>1. ASSUME NEW t \in Tabs, told[t].outcome \in {"pending", "notSaved"}
        PROVE  attempt[told[t].attempt].commit \notin OnBranch \ delayed
    <3>1. /\ told[t].attempt \in Attempts /\ attempt[told[t].attempt].stage = "closed"
          /\ attempt[told[t].attempt].outcome \in {"pending", "refused", "notApplied"}
      BY <1>1, <2>1 DEF IInv, TabInv, Reads
    <3>2. Answered(told[t].attempt)
      BY <1>1, <3>1 DEF IInv, AttemptInv
    <3>. QED
      BY <3>1, <3>2 DEF Answered
  <2>. QED
    BY <2>1 DEF RefusedStaysOff
<1>. QED
  BY <1>1, Invariance, PTL

\* audit.record comes before the ref update: no commit of Citadel can be on the
\* branch, or be given a branch of its own, without its record, and the file loses
\* a record only to MaxRecords newer ones, whatever MaxRecords and the others' saves.
THEOREM BranchHoldsAuditedCommits == Spec => []CommitsAreAudited
<1>1. ASSUME IInv, FileInv
      PROVE  CommitsAreAudited
  <2>1. ASSUME NEW a \in Attempts, attempt[a].commit # None,
               attempt[a].commit \in OnBranch \cup {side}
        PROVE  \E i \in DOMAIN log :
                  /\ log[i] = Entry(attempt[a].commit, Environment[attempt[a].tab])
                  /\ \/ Attributed(attempt[a].commit, Environment[attempt[a].tab])
                     \/ Len(log) - i >= MaxRecords
    <3>1. Recorded(attempt[a].commit, Environment[attempt[a].tab])
      BY <1>1, <2>1 DEF IInv, AttemptInv, Ordered
    <3>. QED
      BY <1>1, <3>1, WrittenIsKept
  <2>. QED
    BY <2>1 DEF CommitsAreAudited
<1>. QED
  BY <1>1, Invariance, PTL

\* Whoever moved the branch and when, a commit of Citadel replaces only bytes
\* that were reviewed, because its parent is the reviewed commit and GitHub
\* refuses an update that is not a fast-forward.
THEOREM ReviewedBytesOnly == Spec => []OverwritesOnlyReviewed
<1>1. ASSUME IInv
      PROVE  OverwritesOnlyReviewed
  <2>1. ASSUME NEW i \in 2..Len(branch), NEW a \in Attempts, attempt[a].commit = branch[i],
               NEW f \in Files, Tree(branch[i - 1])[f] # Tree(branch[i])[f]
        PROVE  LET r   == attempt[a]
                   old == Tree(branch[i - 1])
                   new == Tree(branch[i])
               IN  IF r.kind = "undo"
                   THEN old[f] = Tree(r.target)[f] /\ new[f] = Tree(commits[r.target].parent)[f]
                   ELSE f \in r.change.files /\ old[f] = r.change.before[f]
    <3>. DEFINE r == attempt[a]
    <3>1. StoreInv /\ i \in 1..Len(branch)
      BY <1>1 DEF IInv, StoreInv
    <3>2. branch[i] \in 1..Len(commits) /\ commits[branch[i]].parent = branch[i - 1]
      BY <3>1, OnBranchIndex DEF StoreInv
    <3>3. r.commit # None /\ Made(a)
      BY <1>1, <2>1, <3>2, NoneOffBranch DEF IInv, AttemptInv
    <3>4. /\ r.base = branch[i - 1]
          /\ Tree(branch[i]) = [g \in Files |-> IF g \in r.change.files THEN r.change.after[g]
                                                ELSE Tree(r.base)[g]]
          /\ \A g \in r.change.files : Tree(r.base)[g] = r.change.before[g]
      BY <2>1, <3>2, <3>3 DEF Made
    <3>5. f \in r.change.files /\ Tree(branch[i - 1])[f] = r.change.before[f]
          /\ Tree(branch[i])[f] = r.change.after[f]
      BY <2>1, <3>4
    <3>6. CASE r.kind = "undo"
      <4>1. r.change = UndoChange(r.target)
        BY <3>3, <3>6 DEF Made, Undoes
      <4>. QED
        BY <3>5, <3>6, <4>1 DEF UndoChange
    <3>. QED
      BY <3>5, <3>6
  <2>. QED
    BY <2>1 DEF OverwritesOnlyReviewed
<1>. QED
  BY <1>1, Invariance, PTL

LEMMA OnlyDeliverDrops ==
    ASSUME IInv, Next, NEW t \in Tabs, waiting[t] # None, draft'[t] # draft[t]
    PROVE  Deliver(t)
<1>1. draft \in [Tabs -> DraftType \cup {None}]
  BY DEF IInv, OthersType
<1>2. ASSUME NEW a \in Attempts, ServerStep(a)
      PROVE  draft' = draft
  BY <1>2 DEF ServerStep, Breaks, InspectUndo, Propose, Record, UpdateRef, Reconcile,
     FindApplied, ConfirmEquivalent, browser
<1>3. ASSUME NEW u \in Tabs, TabStep(u), ~Deliver(u)
      PROVE  draft'[t] = draft[t]
  <2>1. ASSUME Reload(u) \/ Discard(u) \/ \E f \in Files, c \in Contents : Edit(u, f, c)
        PROVE  draft'[t] = draft[t]
    <3>1. u # t
      BY <2>1 DEF Reload, Discard, Edit
    <3>2. \A v : draft' = [draft EXCEPT ![u] = v] => draft'[t] = draft[t]
      BY <1>1, <3>1
    <3>. QED
      BY <2>1, <3>2 DEF Reload, Discard, Edit
  <2>2. ASSUME NameBranch(u) \/ GiveUp(u)
        PROVE  draft'[t] = draft[t]
    BY <2>2 DEF NameBranch, GiveUp, browser
  <2>3. ASSUME NEW a \in Attempts,
               Save(u, a) \/ SaveSubscription(u, a) \/ \E c \in OnBranch : Undo(u, a, c)
        PROVE  draft'[t] = draft[t]
    BY <2>3 DEF Save, SaveSubscription, Undo, Send
  <2>. QED
    BY <1>3, <2>1, <2>2, <2>3 DEF TabStep
<1>4. ASSUME NEW u \in Tabs, u # t, Deliver(u)
      PROVE  draft'[t] = draft[t]
  <2>1. draft' \in {draft, [draft EXCEPT ![u] = None]}
    BY <1>4 DEF Deliver
  <2>. QED
    BY <1>1, <1>4, <2>1
<1>5. ASSUME \/ ServerStops \/ OthersRecord
             \/ \E f \in Files, c \in Contents \cup {Absent} : ColleaguePushes(f, c)
             \/ \E c \in Commits : DelayedUpdateArrives(c)
      PROVE  draft' = draft
  BY <1>5 DEF ServerStops, OthersRecord, ColleaguePushes, DelayedUpdateArrives, browser
<1>. QED
  BY <1>2, <1>3, <1>4, <1>5 DEF Next

\* A draft leaves the editor under a running save only once the branch holds
\* its text: Deliver drops it for no other outcome, and no other step may.
THEOREM DraftsOutliveRefusals == Spec => DraftGoesOnlyWhenSaved
<1>. DEFINE Good == \A t \in Tabs :
       draft[t] # None /\ draft'[t] = None /\ waiting[t] # None /\ draft[t].file \notin Bridge =>
          \E c \in OnBranch : Tree(c)[draft[t].file] = draft[t].to
<1>1. ASSUME IInv, [Next]_vars
      PROVE  [Good]_vars
  <2>1. ASSUME NEW t \in Tabs, draft[t] # None, draft'[t] = None, waiting[t] # None,
               draft[t].file \notin Bridge, Next
        PROVE  \E c \in OnBranch : Tree(c)[draft[t].file] = draft[t].to
    <3>1. Deliver(t)
      BY <1>1, <2>1, OnlyDeliverDrops
    <3>. DEFINE a == waiting[t]
    <3>2. /\ a \in Attempts /\ attempt[a].stage = "answered" /\ attempt[a].kind # "undo"
          /\ TabInv(t) /\ Answered(a) /\ attempt[a] \in AttemptType
      BY <1>1, <2>1, <3>1 DEF Deliver, IInv, OthersType, AttemptInv
    <3>3. attempt[a].kind = "edit" /\ attempt[a].change = Edited(draft[t])
      BY <2>1, <3>2 DEF TabInv, Waits, AttemptType
    <3>4. attempt[a].outcome \in {"applied", "unchanged"}
      <4>1. attempt[a].outcome \in Outcomes
        BY <3>2 DEF AttemptType
      <4>2. LET claim == Claim(attempt[a].outcome) IN Complete(claim) \/ claim = "updated"
        BY <2>1, <3>1, <3>3 DEF Deliver
      <4>. QED
        BY <4>1, <4>2, ClaimIsOutcome
    <3>5. attempt[a].names \in OnBranch /\ Holds(attempt[a].names, attempt[a].change)
      BY <3>2, <3>4 DEF Answered
    <3>. QED
      BY <3>3, <3>5 DEF Holds, Edited
  <2>. QED
    BY <1>1, <2>1 DEF vars, browser
<1>. QED
  BY <1>1, Invariance, PTL DEF Spec, DraftGoesOnlyWhenSaved, Good
=============================================================================
