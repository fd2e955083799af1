---------------------- MODULE RepositoryCreationProofs ----------------------
(***************************************************************************)
(* Proofs about RepositoryCreation, for any number of operations, versions *)
(* of the source, interferences of others, failures and pauses.            *)
(***************************************************************************)
EXTENDS RepositoryCreation, TLAPS

(* The inductive invariant.  Its parts: a record by itself, the two copies  *)
(* of it, the step the runner is at, and what is on GitHub.                 *)

OnMain(commit) == repo.default = "main" /\ \E i \in DOMAIN repo.main : repo.main[i] = commit

RecordOK(o, r) ==
    /\ r.state = "absent" => r.source = None /\ r.bootstrap = None /\ r.commit = None
    /\ r.attempted => r.authorized
    /\ r.authorized => ~r.superseded /\ r.state # "absent" /\ reviewed[o] # None
    /\ r.id # None => r.id \in DOMAIN made /\ made[r.id] = o
    /\ r.commit # None => r.commit = reviewed[o]
    /\ r.state = "complete" => r.commit # None
    /\ r.state = "complete" /\ repo # None /\ repo.id = r.id => OnMain(reviewed[o])

\* At most one operation has the name reserved.
Single(records) ==
    \A o, p \in Operations :
        /\ records[o].state # "absent" /\ ~records[o].superseded
        /\ records[p].state # "absent" /\ ~records[p].superseded
        => o = p

\* m has what d has, and perhaps more.
Extended(d, m) ==
    /\ d.authorized => m.authorized
    /\ d.attempted => m.attempted
    /\ d.source \in {None, m.source}
    /\ d.bootstrap \in {None, m.bootstrap}
    /\ d.commit \in {None, m.commit}

CopiesOK ==
    /\ Single(mem) /\ Single(disk)
    /\ \A o \in Operations :
          /\ RecordOK(o, mem[o]) /\ RecordOK(o, disk[o])
          /\ Extended(disk[o], mem[o])
          /\ reviewed[o] # None => disk[o].source = reviewed[o]
          /\ mem[o].state = "ready" => disk[o].source # None

\* What a write that is still to come relies on is on disk.
LateOK ==
    \A w \in late :
        /\ w.kind = "create" => disk[w.op].authorized /\ disk[w.op].attempted
        /\ w.kind = "patch" => disk[w.op].bootstrap # None /\ disk[w.op].commit # None

\* A branch starts with Boot or Alien, and a snapshot is the second commit of
\* one that starts with Boot.
RepositoryOK ==
    repo # None => \A b \in Branches : \A i \in DOMAIN repo[b] :
        /\ Creator = Somebody => repo[b][i] = Alien
        /\ repo[b][i] = Boot => i = 1
        /\ repo[b][i] \in Versions => /\ i = 2 /\ repo[b][1] = Boot
                                      /\ repo[b][i] = reviewed[Creator]

DataOK == CopiesOK /\ LateOK /\ CreatedIsOnDisk /\ RepositoryOK

\* The steps from publish on, from objects on, from lookup on, and those in
\* which the operation is neither paused, failed nor finished.
Publishing == {"publish", "guardPatch", "patch", "confirmPatch", "main", "guardRename", "rename",
               "confirmRename", "verify"}
Copying    == Publishing \cup {"objects"}
Importing  == Copying \cup {"lookup", "create", "created", "inspect"}
Working    == Importing \cup {"validate"}

\* What the runner knows at a step of operation o, m and d being its records.
StepOK(o, at, m, d, answer) ==
    /\ at # "idle"
    /\ at \in Working \cup {"ready"} => d = m /\ m.source # None
    /\ at \in Working => m.state = "active"
    /\ at \in Importing => m.authorized
    /\ at = "create" => m.attempted
    /\ at = "created" => answer \in DOMAIN made /\ made[answer] = o
    /\ at \in Copying => m.bootstrap # None
    /\ at \in Publishing => m.commit # None

JobOK == job.op # None => StepOK(job.op, job.at, mem[job.op], disk[job.op], job.answer)

ScheduledOK == \A o \in Operations : Scheduled(o) => mem[o].state # "absent"

(* TypeOK by what the actions change together. *)

RepositoryType == [id : DOMAIN made, default : Branches, main : Seq(Commits), other : Seq(Commits)]

GitHubTypes ==
    /\ made \in Seq(Operations \cup {Somebody})
    /\ repo = None \/ repo \in RepositoryType

LateType == late \subseteq [op : Operations, kind : {"create", "patch", "rename"}, id : Nat \cup {None}]

CopyTypes == disk \in [Operations -> Records] /\ mem \in [Operations -> Records]

JobType == job \in [op : Operations \cup {None}, at : Steps, answer : Nat \cup {None}]

FlagTypes == upstream \in Versions /\ pauses \subseteq Operations /\ fatal \in BOOLEAN

ReviewedType == reviewed \in [Operations -> Versions \cup {None}]

QueueType ==
    /\ queue \in Seq(Operations)
    /\ \A i \in DOMAIN queue : queue[i] # job.op /\ \A j \in DOMAIN queue : queue[i] = queue[j] => i = j

Types ==
    GitHubTypes /\ LateType /\ CopyTypes /\ JobType /\ FlagTypes /\ ReviewedType /\ QueueType

IInv == Types /\ ScheduledOK /\ JobOK /\ DataOK

-----------------------------------------------------------------------------
LEMMA Distinct ==
    /\ None \notin Operations /\ Somebody \notin Operations /\ None \notin Versions
    /\ None \notin Branches /\ None \notin Commits /\ None \notin Nat
    /\ Boot # Alien /\ Boot \notin Versions /\ Alien \notin Versions
<1>1. None \notin Nat /\ None \notin {"main", "other"} /\ Somebody \notin Nat
  BY CreationAssumption DEF CreationAssumption
<1>2. Boot \notin Nat \cup {None} /\ Alien \notin Nat \cup {None} /\ Boot # Alien
  BY CreationAssumption DEF CreationAssumption
<1>3. Operations \subseteq Nat /\ Versions \subseteq Nat
  BY CreationAssumption DEF CreationAssumption, Versions
<1>. QED
  BY <1>1, <1>2, <1>3 DEF Branches, Commits

LEMMA TypesAreTypeOK == TypeOK <=> Types
BY DEF TypeOK, Types, GitHubTypes, LateType, CopyTypes, JobType, FlagTypes, ReviewedType, QueueType,
       RepositoryType

LEMMA InitHolds == Init => IInv
<1>. SUFFICES ASSUME Init PROVE IInv
  OBVIOUS
<1>1. Absent \in Records
  BY DEF Absent, Records
<1>2. upstream \in Versions
  BY CreationAssumption DEF Init, CreationAssumption, Versions
<1>3. Types
  <2>1. GitHubTypes
    BY DEF Init, GitHubTypes
  <2>4. LateType /\ ReviewedType /\ FlagTypes
    BY <1>2 DEF Init, LateType, ReviewedType, FlagTypes
  <2>2. CopyTypes
    BY <1>1 DEF Init, CopyTypes
  <2>3. JobType /\ QueueType
    BY DEF Init, JobType, QueueType, Idle, Steps
  <2>. QED
    BY <2>1, <2>2, <2>3, <2>4 DEF Types
<1>4. DataOK
  BY DEF Init, DataOK, CopiesOK, LateOK, CreatedIsOnDisk, RepositoryOK, RecordOK, Single,
         Extended, Absent
<1>5. ScheduledOK /\ JobOK
  BY Distinct DEF Init, ScheduledOK, JobOK, Scheduled, Idle
<1>. QED
  BY <1>3, <1>4, <1>5 DEF IInv

-----------------------------------------------------------------------------
(* Records. *)

LEMMA RecordTypes ==
    ASSUME NEW r \in Records
    PROVE  /\ r.state \in {"absent", "active", "ready", "stopped", "complete"}
           /\ r.superseded \in BOOLEAN /\ r.authorized \in BOOLEAN /\ r.attempted \in BOOLEAN
           /\ r.id \in Nat \cup {None} /\ r.source \in Versions \cup {None}
           /\ r.bootstrap \in Branches \cup {None} /\ r.commit \in Versions \cup {None}
BY DEF Records

\* A new set of records that only adds to the old one keeps the data, whichever
\* of them the journal holds.
LEMMA CopiesStep ==
    ASSUME CopyTypes, LateType, DataOK,
           NEW new \in [Operations -> Records],
           mem' = new, disk' \in {disk, mem, new}, UNCHANGED <<made, repo, late, reviewed>>,
           Single(new),
           \A o \in Operations :
              /\ Extended(mem[o], new[o]) /\ RecordOK(o, new[o])
              /\ new[o].state = "ready" => disk[o].source # None
    PROVE  CopyTypes' /\ DataOK'
<1>1. \A o \in Operations : /\ disk'[o] \in {disk[o], mem[o], new[o]}
                            /\ Extended(disk[o], disk'[o]) /\ Extended(disk'[o], mem'[o])
  BY DEF DataOK, CopiesOK, Extended
<1>2. CopyTypes'
  BY DEF CopyTypes
<1>3. CopiesOK'
  <2>1. Single(mem)' /\ Single(disk)'
    BY DEF DataOK, CopiesOK, Single
  <2>2. \A o \in Operations : RecordOK(o, mem[o])' /\ RecordOK(o, disk[o])'
    BY <1>1 DEF DataOK, CopiesOK, RecordOK, OnMain
  <2>3. \A o \in Operations :
            /\ reviewed'[o] # None => disk'[o].source = reviewed'[o]
            /\ mem'[o].state = "ready" => disk'[o].source # None
    BY <1>1 DEF DataOK, CopiesOK, Extended
  <2>. QED
    BY <1>1, <2>1, <2>2, <2>3 DEF CopiesOK, Extended
<1>4. LateOK'
  BY <1>1 DEF DataOK, LateOK, LateType, Extended
<1>5. CreatedIsOnDisk'
  BY <1>1 DEF DataOK, CreatedIsOnDisk, Extended
<1>6. RepositoryOK'
  BY DEF DataOK, RepositoryOK, Creator
<1>. QED
  BY <1>2, <1>3, <1>4, <1>5, <1>6 DEF DataOK

\* So does one record of an operation that keeps its reservation.
LEMMA RecordStep ==
    ASSUME CopyTypes, LateType, DataOK,
           NEW o \in Operations, NEW r \in Records,
           mem' = [mem EXCEPT ![o] = r], disk' \in {disk, mem, mem'},
           UNCHANGED <<made, repo, late, reviewed>>,
           Extended(mem[o], r), RecordOK(o, r),
           r.superseded = mem[o].superseded, mem[o].state # "absent", r.state # "absent",
           r.state = "ready" => disk[o].source # None
    PROVE  CopyTypes' /\ DataOK'
<1>. DEFINE new == [mem EXCEPT ![o] = r]
<1>1. new \in [Operations -> Records]
  BY DEF CopyTypes
<1>2. \A p \in Operations : new[p] = IF p = o THEN r ELSE mem[p]
  BY DEF CopyTypes
<1>3. Single(new)
  BY <1>2 DEF DataOK, CopiesOK, Single
<1>4. \A p \in Operations :
          /\ Extended(mem[p], new[p]) /\ RecordOK(p, new[p])
          /\ new[p].state = "ready" => disk[p].source # None
  BY <1>2 DEF DataOK, CopiesOK, Extended
<1>. HIDE DEF new
<1>5. mem' = new /\ disk' \in {disk, mem, new}
  BY DEF new
<1>. QED
  BY <1>1, <1>3, <1>4, <1>5, CopiesStep

-----------------------------------------------------------------------------
(* The runner's steps. *)

LEMMA RunningIsScheduled ==
    ASSUME IInv, NEW o \in Operations, job.op = o
    PROVE  /\ mem[o].state # "absent" /\ mem[o] \in Records /\ disk[o] \in Records
           /\ StepOK(o, job.at, mem[o], disk[o], job.answer)
           /\ RecordOK(o, mem[o]) /\ Extended(disk[o], mem[o])
BY Distinct DEF IInv, Types, ScheduledOK, Scheduled, JobOK, DataOK, CopiesOK, CopyTypes

\* A step that only goes on to the next.
LEMMA GotoHolds ==
    ASSUME IInv, NEW o \in Operations, job.op = o, NEW next \in Steps, Goto(next),
           UNCHANGED <<github, disk, mem, queue, pauses, fatal, reviewed>>,
           StepOK(o, next, mem[o], disk[o], job.answer)
    PROVE  IInv'
<1>1. job' = [job EXCEPT !.at = next] /\ job \in [op : Operations \cup {None}, at : Steps, answer : Nat \cup {None}]
  BY DEF Goto, IInv, Types, JobType
<1>2. job'.op = job.op /\ job'.at = next /\ job'.answer = job.answer
  BY <1>1
<1>3. Types'
  <2>1. GitHubTypes' /\ LateType' /\ CopyTypes' /\ FlagTypes' /\ ReviewedType'
    BY DEF IInv, Types, GitHubTypes, RepositoryType, LateType, CopyTypes, FlagTypes,
       ReviewedType, github
  <2>2. JobType' /\ QueueType'
    BY <1>1, <1>2 DEF IInv, Types, JobType, QueueType
  <2>. QED
    BY <2>1, <2>2 DEF Types
<1>4. ScheduledOK'
  BY <1>2 DEF IInv, ScheduledOK, Scheduled
<1>5. JobOK'
  BY <1>2 DEF JobOK, StepOK, github
<1>6. DataOK'
  BY DEF IInv, DataOK, CopiesOK, LateOK, CreatedIsOnDisk, RepositoryOK, RecordOK, OnMain, Single,
     Creator, github
<1>. QED
  BY <1>3, <1>4, <1>5, <1>6 DEF IInv

LEMMA CheckpointHolds ==
    ASSUME IInv, NEW o \in Operations, job.op = o, NEW r \in Records, NEW next \in Steps,
           Checkpoint(o, r, next), UNCHANGED <<github, queue, pauses, fatal, reviewed>>,
           Extended(mem[o], r), RecordOK(o, r), r.superseded = mem[o].superseded,
           r.state # "absent", r.state = "ready" => disk[o].source # None,
           StepOK(o, next, r, r, job.answer)
    PROVE  IInv'
<1>1. mem' = [mem EXCEPT ![o] = r] /\ disk' \in {disk, mem'}
  BY DEF Checkpoint, Saved, Unsaved
<1>2. CopyTypes' /\ DataOK'
  BY <1>1, RunningIsScheduled, RecordStep DEF IInv, Types, github
<1>3. PICK at \in Steps :
         job' = [job EXCEPT !.at = at] /\ (at = "failing" \/ (at = next /\ disk' = mem'))
  BY DEF Checkpoint, Saved, Unsaved, Steps
<1>4. job \in [op : Operations \cup {None}, at : Steps, answer : Nat \cup {None}]
  BY DEF IInv, Types, JobType
<1>5. job'.op = job.op /\ job'.at = at /\ job'.answer = job.answer
  BY <1>3, <1>4
<1>6. Types'
  <2>1. GitHubTypes' /\ LateType' /\ FlagTypes' /\ ReviewedType'
    BY DEF IInv, Types, GitHubTypes, RepositoryType, LateType, FlagTypes, ReviewedType, github
  <2>2. JobType' /\ QueueType'
    BY <1>3, <1>4, <1>5 DEF IInv, Types, JobType, QueueType
  <2>. QED
    BY <1>2, <2>1, <2>2 DEF Types
<1>7. \A p \in Operations : mem'[p] = IF p = o THEN r ELSE mem[p]
  BY <1>1 DEF IInv, Types, CopyTypes
<1>8. ScheduledOK'
  BY <1>5, <1>7 DEF IInv, ScheduledOK, Scheduled
<1>9. JobOK'
  <2>1. CASE at = "failing"
    BY <2>1, <1>5 DEF JobOK, StepOK, Working, Importing, Copying, Publishing
  <2>2. CASE at = next /\ disk' = mem'
    BY <2>2, <1>5, <1>7 DEF JobOK, StepOK, github
  <2>. QED
    BY <1>3, <2>1, <2>2
<1>. QED
  BY <1>2, <1>6, <1>8, <1>9 DEF IInv

\* Whatever fails leaves the operation at run's catch.
LEMMA FailingHolds ==
    ASSUME IInv, NEW o \in Operations, job.op = o, Goto("failing"),
           UNCHANGED <<github, disk, mem, queue, pauses, fatal, reviewed>>
    PROVE  IInv'
<1>1. StepOK(o, "failing", mem[o], disk[o], job.answer) /\ "failing" \in Steps
  BY DEF StepOK, Working, Importing, Copying, Publishing, Steps
<1>. QED
  BY <1>1, GotoHolds

LEMMA RunningNeed ==
    ASSUME IInv, NEW o \in Operations, NEW step, Runs(o, step)
    PROVE  /\ job.op = o /\ job.at = step /\ step \in Steps
           /\ mem[o].state # "absent" /\ mem[o] \in Records /\ disk[o] \in Records
           /\ StepOK(o, step, mem[o], disk[o], job.answer)
           /\ RecordOK(o, mem[o]) /\ Extended(disk[o], mem[o])
           /\ upstream \in Versions
BY RunningIsScheduled DEF Runs, IInv, Types, JobType, FlagTypes

LEMMA PinSourceHolds ==
    ASSUME IInv, NEW o \in Operations, PinSource(o)
    PROVE  IInv'
<1>1. Runs(o, "pin") /\ UNCHANGED <<github, queue, pauses, fatal, reviewed>>
  BY DEF PinSource, Asks
<1>2. /\ job.op = o /\ mem[o] \in Records /\ StepOK(o, "pin", mem[o], disk[o], job.answer)
      /\ RecordOK(o, mem[o]) /\ Pin(o) \in Versions
      /\ mem[o].source \in {None, Pin(o)}
  BY <1>1, RunningNeed, RecordTypes DEF Pin
<1>3. PICK r : r = [mem[o] EXCEPT !.source = Pin(o), !.state = "active"]
  OBVIOUS
<1>4. /\ r \in Records /\ r.state = "active" /\ r.superseded = mem[o].superseded
      /\ r.authorized = mem[o].authorized /\ r.attempted = mem[o].attempted
      /\ r.id = mem[o].id /\ r.source = Pin(o) /\ r.bootstrap = mem[o].bootstrap
      /\ r.commit = mem[o].commit
  BY <1>1, <1>2, <1>3 DEF Records
<1>5. Checkpoint(o, r, "validate")
  BY <1>1, <1>2, <1>3 DEF PinSource
<1>6. Extended(mem[o], r) /\ RecordOK(o, r)
  BY <1>1, <1>2, <1>4, Distinct DEF Extended, RecordOK, StepOK, Working, Importing, Copying,
     Publishing
<1>7. StepOK(o, "validate", r, r, job.answer)
  BY <1>1, <1>2, <1>4, Distinct DEF StepOK, Working, Importing, Copying, Publishing
<1>. QED
  BY <1>1, <1>2, <1>4, <1>5, <1>6, <1>7, Distinct, CheckpointHolds DEF Steps, StepOK, Working,
     Importing, Copying, Publishing

LEMMA ValidateHolds ==
    ASSUME IInv, NEW o \in Operations, Validate(o)
    PROVE  IInv'
<1>1. Runs(o, "validate") /\ UNCHANGED <<github, queue, pauses, fatal, reviewed>>
  BY DEF Validate, Asks
<1>2. /\ job.op = o /\ mem[o] \in Records /\ StepOK(o, "validate", mem[o], disk[o], job.answer)
      /\ RecordOK(o, mem[o])
  BY <1>1, RunningNeed
<1>3. CASE mem[o].authorized
  <2>1. StepOK(o, "lookup", mem[o], disk[o], job.answer)
    BY <1>2, <1>3 DEF StepOK, Working, Importing, Copying, Publishing
  <2>. QED
    BY <1>1, <1>2, <1>3, <2>1, GotoHolds DEF Validate, Reads, Steps
<1>4. CASE ~mem[o].authorized
  <2>1. PICK r : r = [mem[o] EXCEPT !.state = "ready"]
    OBVIOUS
  <2>2. /\ r \in Records /\ r.state = "ready" /\ r.superseded = mem[o].superseded
        /\ r.authorized = mem[o].authorized /\ r.attempted = mem[o].attempted
        /\ r.id = mem[o].id /\ r.source = mem[o].source
        /\ r.bootstrap = mem[o].bootstrap /\ r.commit = mem[o].commit
    BY <1>1, <1>2, <1>4, <2>1 DEF Records
  <2>3. Checkpoint(o, r, "ready")
    BY <1>1, <1>2, <1>4, <2>1 DEF Validate
  <2>4. Extended(mem[o], r) /\ RecordOK(o, r)
    BY <1>1, <1>2, <1>4, <2>2, Distinct DEF Extended, RecordOK, StepOK, Working, Importing,
       Copying, Publishing
  <2>5. StepOK(o, "ready", r, r, job.answer)
    BY <1>1, <1>2, <1>4, <2>2, Distinct DEF StepOK, Working, Importing, Copying, Publishing
  <2>. QED
    BY <1>1, <1>2, <1>4, <2>2, <2>3, <2>4, <2>5, Distinct, CheckpointHolds
       DEF Steps, StepOK, Working, Importing, Copying, Publishing
<1>. QED
  BY <1>3, <1>4

LEMMA LookupHolds ==
    ASSUME IInv, NEW o \in Operations, Lookup(o)
    PROVE  IInv'
<1>1. Runs(o, "lookup") /\ UNCHANGED <<github, queue, pauses, fatal, reviewed>>
  BY DEF Lookup, Asks
<1>2. /\ job.op = o /\ mem[o] \in Records /\ StepOK(o, "lookup", mem[o], disk[o], job.answer)
      /\ RecordOK(o, mem[o])
      /\ repo # None => repo.id \in Nat /\ repo.id \in DOMAIN made
  BY <1>1, RunningNeed DEF IInv, Types, GitHubTypes, RepositoryType
<1>3. CASE repo # None /\ mem[o].attempted /\ Own(o)
  <2>1. PICK r : r = [mem[o] EXCEPT !.id = repo.id]
    OBVIOUS
  <2>2. /\ r \in Records /\ r.state = mem[o].state /\ r.superseded = mem[o].superseded
        /\ r.authorized = mem[o].authorized /\ r.attempted = mem[o].attempted
        /\ r.id = repo.id /\ r.source = mem[o].source /\ r.bootstrap = mem[o].bootstrap
        /\ r.commit = mem[o].commit
    BY <1>1, <1>2, <1>3, <2>1 DEF Records
  <2>3. Checkpoint(o, r, "inspect")
    BY <1>1, <1>2, <1>3, <2>1 DEF Lookup
  <2>4. Extended(mem[o], r) /\ RecordOK(o, r)
    BY <1>1, <1>2, <1>3, <2>2, Distinct DEF Extended, RecordOK, StepOK, Working, Importing,
       Copying, Publishing, Own, Creator
  <2>5. StepOK(o, "inspect", r, r, job.answer)
    BY <1>1, <1>2, <1>3, <2>2, Distinct DEF StepOK, Working, Importing, Copying, Publishing,
       Own, Creator
  <2>. QED
    BY <1>1, <1>2, <1>3, <2>2, <2>3, <2>4, <2>5, Distinct, CheckpointHolds
       DEF Steps, StepOK, Working, Importing, Copying, Publishing
<1>4. CASE repo = None /\ mem[o].id = None
  <2>1. PICK r : r = [mem[o] EXCEPT !.attempted = TRUE]
    OBVIOUS
  <2>2. /\ r \in Records /\ r.state = mem[o].state /\ r.superseded = mem[o].superseded
        /\ r.authorized = mem[o].authorized /\ r.attempted = TRUE /\ r.id = mem[o].id
        /\ r.source = mem[o].source /\ r.bootstrap = mem[o].bootstrap
        /\ r.commit = mem[o].commit
    BY <1>1, <1>2, <1>4, <2>1 DEF Records
  <2>3. Checkpoint(o, r, "create")
    BY <1>1, <1>2, <1>4, <2>1 DEF Lookup
  <2>4. Extended(mem[o], r) /\ RecordOK(o, r)
    BY <1>1, <1>2, <1>4, <2>2, Distinct DEF Extended, RecordOK, StepOK, Working, Importing,
       Copying, Publishing
  <2>5. StepOK(o, "create", r, r, job.answer)
    BY <1>1, <1>2, <1>4, <2>2, Distinct DEF StepOK, Working, Importing, Copying, Publishing
  <2>. QED
    BY <1>1, <1>2, <1>4, <2>2, <2>3, <2>4, <2>5, Distinct, CheckpointHolds
       DEF Steps, StepOK, Working, Importing, Copying, Publishing
<1>5. CASE /\ ~(repo # None /\ mem[o].attempted /\ Own(o))
           /\ ~(repo = None /\ mem[o].id = None)
  BY <1>1, <1>2, <1>5, FailingHolds DEF Lookup, Reads
<1>. QED
  BY <1>3, <1>4, <1>5

LEMMA RecordIdHolds ==
    ASSUME IInv, NEW o \in Operations, RecordId(o)
    PROVE  IInv'
<1>1. Runs(o, "created") /\ UNCHANGED <<github, queue, pauses, fatal, reviewed>>
  BY DEF RecordId, Asks
<1>2. /\ job.op = o /\ mem[o] \in Records /\ StepOK(o, "created", mem[o], disk[o], job.answer)
      /\ RecordOK(o, mem[o])
      /\ job.answer \in Nat
  BY <1>1, RunningNeed DEF IInv, Types, GitHubTypes, StepOK, Working, Importing, Copying, Publishing
<1>3. PICK r : r = [mem[o] EXCEPT !.id = job.answer]
  OBVIOUS
<1>4. /\ r \in Records /\ r.state = mem[o].state /\ r.superseded = mem[o].superseded
      /\ r.authorized = mem[o].authorized /\ r.attempted = mem[o].attempted
      /\ r.id = job.answer /\ r.source = mem[o].source
      /\ r.bootstrap = mem[o].bootstrap /\ r.commit = mem[o].commit
  BY <1>1, <1>2, <1>3 DEF Records
<1>5. Checkpoint(o, r, "inspect")
  BY <1>1, <1>2, <1>3 DEF RecordId
<1>6. Extended(mem[o], r) /\ RecordOK(o, r)
  BY <1>1, <1>2, <1>4, Distinct DEF Extended, RecordOK, StepOK, Working, Importing, Copying,
     Publishing
<1>7. StepOK(o, "inspect", r, r, job.answer)
  BY <1>1, <1>2, <1>4, Distinct DEF StepOK, Working, Importing, Copying, Publishing
<1>. QED
  BY <1>1, <1>2, <1>4, <1>5, <1>6, <1>7, Distinct, CheckpointHolds DEF Steps, StepOK, Working,
     Importing, Copying, Publishing

LEMMA InspectHolds ==
    ASSUME IInv, NEW o \in Operations, Inspect(o)
    PROVE  IInv'
<1>1. Runs(o, "inspect") /\ UNCHANGED <<github, queue, pauses, fatal, reviewed>>
  BY DEF Inspect, Asks
<1>2. /\ job.op = o /\ mem[o] \in Records /\ StepOK(o, "inspect", mem[o], disk[o], job.answer)
      /\ RecordOK(o, mem[o])
      /\ repo # None => repo.default \in Branches
  BY <1>1, RunningNeed DEF IInv, Types, GitHubTypes, RepositoryType
<1>3. CASE ~Own(o)
  BY <1>1, <1>2, <1>3, FailingHolds DEF Inspect, Reads
<1>4. CASE Own(o) /\ mem[o].bootstrap # None
  <2>1. StepOK(o, "objects", mem[o], disk[o], job.answer)
    BY <1>2, <1>4 DEF StepOK, Working, Importing, Copying, Publishing
  <2>. QED
    BY <1>1, <1>2, <1>4, <2>1, GotoHolds DEF Inspect, Reads, Steps
<1>5. CASE Own(o) /\ mem[o].bootstrap = None /\ repo[repo.default] # <<Boot>>
  BY <1>1, <1>2, <1>5, FailingHolds DEF Inspect, Reads
<1>6. CASE Own(o) /\ mem[o].bootstrap = None /\ repo[repo.default] = <<Boot>>
  <2>1. PICK r : r = [mem[o] EXCEPT !.bootstrap = repo.default]
    OBVIOUS
  <2>2. /\ r \in Records /\ r.state = mem[o].state /\ r.superseded = mem[o].superseded
        /\ r.authorized = mem[o].authorized /\ r.attempted = mem[o].attempted
        /\ r.id = mem[o].id /\ r.source = mem[o].source /\ r.bootstrap = repo.default
        /\ r.commit = mem[o].commit
    BY <1>1, <1>2, <1>6, <2>1 DEF Records, Own
  <2>3. Checkpoint(o, r, "objects")
    BY <1>1, <1>2, <1>6, <2>1 DEF Inspect
  <2>4. Extended(mem[o], r) /\ RecordOK(o, r)
    BY <1>1, <1>2, <1>6, <2>2, Distinct DEF Extended, RecordOK, StepOK, Working, Importing,
       Copying, Publishing, Own
  <2>5. StepOK(o, "objects", r, r, job.answer)
    BY <1>1, <1>2, <1>6, <2>2, Distinct DEF StepOK, Working, Importing, Copying, Publishing, Own
  <2>. QED
    BY <1>1, <1>2, <1>6, <2>2, <2>3, <2>4, <2>5, Distinct, CheckpointHolds
       DEF Steps, StepOK, Working, Importing, Copying, Publishing
<1>. QED
  BY <1>3, <1>4, <1>5, <1>6

LEMMA CopyHolds ==
    ASSUME IInv, NEW o \in Operations, Copy(o)
    PROVE  IInv'
<1>1. Runs(o, "objects") /\ UNCHANGED <<github, queue, pauses, fatal, reviewed>>
  BY DEF Copy, Asks
<1>2. /\ job.op = o /\ mem[o] \in Records /\ StepOK(o, "objects", mem[o], disk[o], job.answer)
      /\ RecordOK(o, mem[o])
      /\ mem[o].source \in Versions /\ mem[o].source = reviewed[o]
  BY <1>1, RunningNeed, RecordTypes DEF IInv, DataOK, CopiesOK, RecordOK, StepOK, Working,
     Importing, Copying, Publishing
<1>3. CASE Guard(o)
  <2>1. PICK r : r = [mem[o] EXCEPT !.commit = mem[o].source]
    OBVIOUS
  <2>2. /\ r \in Records /\ r.state = mem[o].state /\ r.superseded = mem[o].superseded
        /\ r.authorized = mem[o].authorized /\ r.attempted = mem[o].attempted
        /\ r.id = mem[o].id /\ r.source = mem[o].source
        /\ r.bootstrap = mem[o].bootstrap /\ r.commit = mem[o].source
    BY <1>1, <1>2, <1>3, <2>1 DEF Records
  <2>3. Checkpoint(o, r, "publish")
    BY <1>1, <1>2, <1>3, <2>1 DEF Copy
  <2>4. Extended(mem[o], r) /\ RecordOK(o, r)
    BY <1>1, <1>2, <1>3, <2>2, Distinct DEF Extended, RecordOK, StepOK, Working, Importing,
       Copying, Publishing
  <2>5. StepOK(o, "publish", r, r, job.answer)
    BY <1>1, <1>2, <1>3, <2>2, Distinct DEF StepOK, Working, Importing, Copying, Publishing
  <2>. QED
    BY <1>1, <1>2, <1>3, <2>2, <2>3, <2>4, <2>5, Distinct, CheckpointHolds
       DEF Steps, StepOK, Working, Importing, Copying, Publishing
<1>4. CASE ~Guard(o)
  BY <1>1, <1>2, <1>4, FailingHolds DEF Copy, Reads
<1>. QED
  BY <1>3, <1>4

LEMMA PublishHolds ==
    ASSUME IInv, NEW o \in Operations, Publish(o)
    PROVE  IInv'
<1>1. Runs(o, "publish") /\ UNCHANGED <<github, queue, pauses, fatal, reviewed>>
  BY DEF Publish, Asks
<1>2. /\ job.op = o /\ mem[o] \in Records /\ StepOK(o, "publish", mem[o], disk[o], job.answer)
      /\ RecordOK(o, mem[o])
  BY <1>1, RunningNeed
<1>3. CASE ~Guard(o)
  BY <1>1, <1>2, <1>3, FailingHolds DEF Publish, Reads
<1>4. CASE Guard(o) /\ mem[o].mainPublished
  <2>1. StepOK(o, "verify", mem[o], disk[o], job.answer)
    BY <1>2, <1>4 DEF StepOK, Working, Importing, Copying, Publishing
  <2>. QED
    BY <1>1, <1>2, <1>4, <2>1, GotoHolds DEF Publish, Reads, Steps
<1>5. CASE Guard(o) /\ ~mem[o].mainPublished /\ mem[o].published
  <2>1. StepOK(o, "main", mem[o], disk[o], job.answer)
    BY <1>2, <1>5 DEF StepOK, Working, Importing, Copying, Publishing
  <2>. QED
    BY <1>1, <1>2, <1>5, <2>1, GotoHolds DEF Publish, Reads, Steps
<1>6. CASE /\ Guard(o) /\ ~mem[o].mainPublished /\ ~mem[o].published
          /\ Tip(repo[mem[o].bootstrap]) = mem[o].commit
  <2>1. PICK r : r = [mem[o] EXCEPT !.published = TRUE]
    OBVIOUS
  <2>2. /\ r \in Records /\ r.state = mem[o].state /\ r.superseded = mem[o].superseded
        /\ r.authorized = mem[o].authorized /\ r.attempted = mem[o].attempted
        /\ r.id = mem[o].id /\ r.source = mem[o].source
        /\ r.bootstrap = mem[o].bootstrap /\ r.commit = mem[o].commit
    BY <1>1, <1>2, <1>6, <2>1 DEF Records
  <2>3. Checkpoint(o, r, "main")
    BY <1>1, <1>2, <1>6, <2>1 DEF Publish
  <2>4. Extended(mem[o], r) /\ RecordOK(o, r)
    BY <1>1, <1>2, <1>6, <2>2, Distinct DEF Extended, RecordOK, StepOK, Working, Importing,
       Copying, Publishing
  <2>5. StepOK(o, "main", r, r, job.answer)
    BY <1>1, <1>2, <1>6, <2>2, Distinct DEF StepOK, Working, Importing, Copying, Publishing
  <2>. QED
    BY <1>1, <1>2, <1>6, <2>2, <2>3, <2>4, <2>5, Distinct, CheckpointHolds
       DEF Steps, StepOK, Working, Importing, Copying, Publishing
<1>7. CASE /\ Guard(o) /\ ~mem[o].mainPublished /\ ~mem[o].published
          /\ Tip(repo[mem[o].bootstrap]) # mem[o].commit
  <2>1. PICK r : r = [mem[o] EXCEPT !.refIntent = TRUE]
    OBVIOUS
  <2>2. /\ r \in Records /\ r.state = mem[o].state /\ r.superseded = mem[o].superseded
        /\ r.authorized = mem[o].authorized /\ r.attempted = mem[o].attempted
        /\ r.id = mem[o].id /\ r.source = mem[o].source
        /\ r.bootstrap = mem[o].bootstrap /\ r.commit = mem[o].commit
    BY <1>1, <1>2, <1>7, <2>1 DEF Records
  <2>3. Checkpoint(o, r, "guardPatch")
    BY <1>1, <1>2, <1>7, <2>1 DEF Publish
  <2>4. Extended(mem[o], r) /\ RecordOK(o, r)
    BY <1>1, <1>2, <1>7, <2>2, Distinct DEF Extended, RecordOK, StepOK, Working, Importing,
       Copying, Publishing
  <2>5. StepOK(o, "guardPatch", r, r, job.answer)
    BY <1>1, <1>2, <1>7, <2>2, Distinct DEF StepOK, Working, Importing, Copying, Publishing
  <2>. QED
    BY <1>1, <1>2, <1>7, <2>2, <2>3, <2>4, <2>5, Distinct, CheckpointHolds
       DEF Steps, StepOK, Working, Importing, Copying, Publishing
<1>. QED
  BY <1>3, <1>4, <1>5, <1>6, <1>7

LEMMA GuardPatchHolds ==
    ASSUME IInv, NEW o \in Operations, GuardWrite(o, "guardPatch", "patch")
    PROVE  IInv'
<1>1. Runs(o, "guardPatch") /\ UNCHANGED <<github, queue, pauses, fatal, reviewed>>
  BY DEF GuardWrite, Asks
<1>2. /\ job.op = o /\ mem[o] \in Records /\ StepOK(o, "guardPatch", mem[o], disk[o], job.answer)
      /\ RecordOK(o, mem[o])
  BY <1>1, RunningNeed
<1>3. CASE Guard(o)
  <2>1. StepOK(o, "patch", mem[o], disk[o], job.answer)
    BY <1>2, <1>3 DEF StepOK, Working, Importing, Copying, Publishing
  <2>. QED
    BY <1>1, <1>2, <1>3, <2>1, GotoHolds DEF GuardWrite, Reads, Steps
<1>4. CASE ~Guard(o)
  BY <1>1, <1>2, <1>4, FailingHolds DEF GuardWrite, Reads
<1>. QED
  BY <1>3, <1>4

LEMMA GuardRenameHolds ==
    ASSUME IInv, NEW o \in Operations, GuardWrite(o, "guardRename", "rename")
    PROVE  IInv'
<1>1. Runs(o, "guardRename") /\ UNCHANGED <<github, queue, pauses, fatal, reviewed>>
  BY DEF GuardWrite, Asks
<1>2. /\ job.op = o /\ mem[o] \in Records /\ StepOK(o, "guardRename", mem[o], disk[o], job.answer)
      /\ RecordOK(o, mem[o])
  BY <1>1, RunningNeed
<1>3. CASE Guard(o)
  <2>1. StepOK(o, "rename", mem[o], disk[o], job.answer)
    BY <1>2, <1>3 DEF StepOK, Working, Importing, Copying, Publishing
  <2>. QED
    BY <1>1, <1>2, <1>3, <2>1, GotoHolds DEF GuardWrite, Reads, Steps
<1>4. CASE ~Guard(o)
  BY <1>1, <1>2, <1>4, FailingHolds DEF GuardWrite, Reads
<1>. QED
  BY <1>3, <1>4

LEMMA ConfirmPatchHolds ==
    ASSUME IInv, NEW o \in Operations, ConfirmPatch(o)
    PROVE  IInv'
<1>1. Runs(o, "confirmPatch") /\ UNCHANGED <<github, queue, pauses, fatal, reviewed>>
  BY DEF ConfirmPatch, Asks
<1>2. /\ job.op = o /\ mem[o] \in Records /\ StepOK(o, "confirmPatch", mem[o], disk[o], job.answer)
      /\ RecordOK(o, mem[o])
  BY <1>1, RunningNeed
<1>3. CASE repo # None /\ Tip(repo[mem[o].bootstrap]) = mem[o].commit
  <2>1. PICK r : r = [mem[o] EXCEPT !.published = TRUE]
    OBVIOUS
  <2>2. /\ r \in Records /\ r.state = mem[o].state /\ r.superseded = mem[o].superseded
        /\ r.authorized = mem[o].authorized /\ r.attempted = mem[o].attempted
        /\ r.id = mem[o].id /\ r.source = mem[o].source
        /\ r.bootstrap = mem[o].bootstrap /\ r.commit = mem[o].commit
    BY <1>1, <1>2, <1>3, <2>1 DEF Records
  <2>3. Checkpoint(o, r, "main")
    BY <1>1, <1>2, <1>3, <2>1 DEF ConfirmPatch
  <2>4. Extended(mem[o], r) /\ RecordOK(o, r)
    BY <1>1, <1>2, <1>3, <2>2, Distinct DEF Extended, RecordOK, StepOK, Working, Importing,
       Copying, Publishing
  <2>5. StepOK(o, "main", r, r, job.answer)
    BY <1>1, <1>2, <1>3, <2>2, Distinct DEF StepOK, Working, Importing, Copying, Publishing
  <2>. QED
    BY <1>1, <1>2, <1>3, <2>2, <2>3, <2>4, <2>5, Distinct, CheckpointHolds
       DEF Steps, StepOK, Working, Importing, Copying, Publishing
<1>4. CASE ~(repo # None /\ Tip(repo[mem[o].bootstrap]) = mem[o].commit)
  BY <1>1, <1>2, <1>4, FailingHolds DEF ConfirmPatch, Reads
<1>. QED
  BY <1>3, <1>4

LEMMA SetMainHolds ==
    ASSUME IInv, NEW o \in Operations, SetMain(o)
    PROVE  IInv'
<1>1. Runs(o, "main") /\ UNCHANGED <<github, queue, pauses, fatal, reviewed>>
  BY DEF SetMain, Asks
<1>2. /\ job.op = o /\ mem[o] \in Records /\ StepOK(o, "main", mem[o], disk[o], job.answer)
      /\ RecordOK(o, mem[o])
  BY <1>1, RunningNeed
<1>3. CASE ~Guard(o)
  BY <1>1, <1>2, <1>3, FailingHolds DEF SetMain, Reads
<1>4. CASE Guard(o) /\ mem[o].bootstrap = "main"
  <2>1. PICK r : r = [mem[o] EXCEPT !.mainPublished = TRUE]
    OBVIOUS
  <2>2. /\ r \in Records /\ r.state = mem[o].state /\ r.superseded = mem[o].superseded
        /\ r.authorized = mem[o].authorized /\ r.attempted = mem[o].attempted
        /\ r.id = mem[o].id /\ r.source = mem[o].source
        /\ r.bootstrap = mem[o].bootstrap /\ r.commit = mem[o].commit
    BY <1>1, <1>2, <1>4, <2>1 DEF Records
  <2>3. Checkpoint(o, r, "verify")
    BY <1>1, <1>2, <1>4, <2>1 DEF SetMain
  <2>4. Extended(mem[o], r) /\ RecordOK(o, r)
    BY <1>1, <1>2, <1>4, <2>2, Distinct DEF Extended, RecordOK, StepOK, Working, Importing,
       Copying, Publishing
  <2>5. StepOK(o, "verify", r, r, job.answer)
    BY <1>1, <1>2, <1>4, <2>2, Distinct DEF StepOK, Working, Importing, Copying, Publishing
  <2>. QED
    BY <1>1, <1>2, <1>4, <2>2, <2>3, <2>4, <2>5, Distinct, CheckpointHolds
       DEF Steps, StepOK, Working, Importing, Copying, Publishing
<1>5. CASE Guard(o) /\ mem[o].bootstrap # "main" /\ repo.main = <<>>
  <2>1. PICK r : r = [mem[o] EXCEPT !.renameIntent = TRUE]
    OBVIOUS
  <2>2. /\ r \in Records /\ r.state = mem[o].state /\ r.superseded = mem[o].superseded
        /\ r.authorized = mem[o].authorized /\ r.attempted = mem[o].attempted
        /\ r.id = mem[o].id /\ r.source = mem[o].source
        /\ r.bootstrap = mem[o].bootstrap /\ r.commit = mem[o].commit
    BY <1>1, <1>2, <1>5, <2>1 DEF Records
  <2>3. Checkpoint(o, r, "guardRename")
    BY <1>1, <1>2, <1>5, <2>1 DEF SetMain
  <2>4. Extended(mem[o], r) /\ RecordOK(o, r)
    BY <1>1, <1>2, <1>5, <2>2, Distinct DEF Extended, RecordOK, StepOK, Working, Importing,
       Copying, Publishing
  <2>5. StepOK(o, "guardRename", r, r, job.answer)
    BY <1>1, <1>2, <1>5, <2>2, Distinct DEF StepOK, Working, Importing, Copying, Publishing
  <2>. QED
    BY <1>1, <1>2, <1>5, <2>2, <2>3, <2>4, <2>5, Distinct, CheckpointHolds
       DEF Steps, StepOK, Working, Importing, Copying, Publishing
<1>6. CASE Guard(o) /\ mem[o].bootstrap # "main" /\ repo.main # <<>>
  <2>1. StepOK(o, "confirmRename", mem[o], disk[o], job.answer)
    BY <1>2, <1>6 DEF StepOK, Working, Importing, Copying, Publishing
  <2>. QED
    BY <1>1, <1>2, <1>6, <2>1, GotoHolds DEF SetMain, Reads, Steps
<1>. QED
  BY <1>3, <1>4, <1>5, <1>6

LEMMA ConfirmRenameHolds ==
    ASSUME IInv, NEW o \in Operations, ConfirmRename(o)
    PROVE  IInv'
<1>1. Runs(o, "confirmRename") /\ UNCHANGED <<github, queue, pauses, fatal, reviewed>>
  BY DEF ConfirmRename, Asks
<1>2. /\ job.op = o /\ mem[o] \in Records /\ StepOK(o, "confirmRename", mem[o], disk[o], job.answer)
      /\ RecordOK(o, mem[o])
  BY <1>1, RunningNeed
<1>3. CASE Settled(o)
  <2>1. PICK r : r = [mem[o] EXCEPT !.mainPublished = TRUE]
    OBVIOUS
  <2>2. /\ r \in Records /\ r.state = mem[o].state /\ r.superseded = mem[o].superseded
        /\ r.authorized = mem[o].authorized /\ r.attempted = mem[o].attempted
        /\ r.id = mem[o].id /\ r.source = mem[o].source
        /\ r.bootstrap = mem[o].bootstrap /\ r.commit = mem[o].commit
    BY <1>1, <1>2, <1>3, <2>1 DEF Records
  <2>3. Checkpoint(o, r, "verify")
    BY <1>1, <1>2, <1>3, <2>1 DEF ConfirmRename
  <2>4. Extended(mem[o], r) /\ RecordOK(o, r)
    BY <1>1, <1>2, <1>3, <2>2, Distinct DEF Extended, RecordOK, StepOK, Working, Importing,
       Copying, Publishing
  <2>5. StepOK(o, "verify", r, r, job.answer)
    BY <1>1, <1>2, <1>3, <2>2, Distinct DEF StepOK, Working, Importing, Copying, Publishing
  <2>. QED
    BY <1>1, <1>2, <1>3, <2>2, <2>3, <2>4, <2>5, Distinct, CheckpointHolds
       DEF Steps, StepOK, Working, Importing, Copying, Publishing
<1>4. CASE ~Settled(o)
  BY <1>1, <1>2, <1>4, FailingHolds DEF ConfirmRename, Reads
<1>. QED
  BY <1>3, <1>4

LEMMA VerifyHolds ==
    ASSUME IInv, NEW o \in Operations, Verify(o)
    PROVE  IInv'
<1>1. Runs(o, "verify") /\ UNCHANGED <<github, queue, pauses, fatal, reviewed>>
  BY DEF Verify, Asks
<1>2. /\ job.op = o /\ mem[o] \in Records /\ StepOK(o, "verify", mem[o], disk[o], job.answer)
      /\ RecordOK(o, mem[o])
      /\ repo # None => repo.main \in Seq(Commits)
  BY <1>1, RunningNeed DEF IInv, Types, GitHubTypes, RepositoryType
<1>5. Settled(o) => OnMain(reviewed[o])
  BY <1>2, Distinct DEF Settled, Guard, Own, Tip, OnMain, RecordOK, StepOK, Working, Importing,
     Copying, Publishing
<1>3. CASE Settled(o)
  <2>1. PICK r : r = [mem[o] EXCEPT !.state = "complete"]
    OBVIOUS
  <2>2. /\ r \in Records /\ r.state = "complete" /\ r.superseded = mem[o].superseded
        /\ r.authorized = mem[o].authorized /\ r.attempted = mem[o].attempted
        /\ r.id = mem[o].id /\ r.source = mem[o].source
        /\ r.bootstrap = mem[o].bootstrap /\ r.commit = mem[o].commit
    BY <1>1, <1>2, <1>3, <1>5, <2>1 DEF Records
  <2>3. Checkpoint(o, r, "done")
    BY <1>1, <1>2, <1>3, <1>5, <2>1 DEF Verify
  <2>4. Extended(mem[o], r) /\ RecordOK(o, r)
    BY <1>1, <1>2, <1>3, <1>5, <2>2, Distinct DEF Extended, RecordOK, StepOK, Working,
       Importing, Copying, Publishing
  <2>5. StepOK(o, "done", r, r, job.answer)
    BY <1>1, <1>2, <1>3, <1>5, <2>2, Distinct DEF StepOK, Working, Importing, Copying, Publishing
  <2>. QED
    BY <1>1, <1>2, <1>3, <1>5, <2>2, <2>3, <2>4, <2>5, Distinct, CheckpointHolds
       DEF Steps, StepOK, Working, Importing, Copying, Publishing
<1>4. CASE ~Settled(o)
  BY <1>1, <1>2, <1>4, FailingHolds DEF Verify, Reads
<1>. QED
  BY <1>3, <1>4

-----------------------------------------------------------------------------
(* The ends of a run. *)

\* Changing states only, and none from or to absent, keeps the data.
LEMMA StateStep ==
    ASSUME CopyTypes, LateType, DataOK,
           NEW S, NEW x \in {"stopped", "active"}, \A p \in S : mem[p].state # "absent",
           S \subseteq Operations,
           mem' = [p \in Operations |-> IF p \in S THEN [mem[p] EXCEPT !.state = x] ELSE mem[p]],
           disk' \in {disk, mem, mem'}, UNCHANGED <<made, repo, late, reviewed>>
    PROVE  /\ CopyTypes' /\ DataOK'
           /\ \A p \in Operations : /\ p \notin S => mem'[p] = mem[p]
                                    /\ mem[p].state # "absent" => mem'[p].state # "absent"
<1>1. \A p \in Operations : mem[p] \in Records
  BY DEF CopyTypes
<1>2. \A p \in S : /\ [mem[p] EXCEPT !.state = x] \in Records
                   /\ [mem[p] EXCEPT !.state = x].state = x
                   /\ [mem[p] EXCEPT !.state = x].superseded = mem[p].superseded
                   /\ Extended(mem[p], [mem[p] EXCEPT !.state = x])
                   /\ RecordOK(p, [mem[p] EXCEPT !.state = x])
  <2>. SUFFICES ASSUME NEW p \in S
                PROVE  /\ [mem[p] EXCEPT !.state = x] \in Records
                       /\ [mem[p] EXCEPT !.state = x].state = x
                       /\ [mem[p] EXCEPT !.state = x].superseded = mem[p].superseded
                       /\ Extended(mem[p], [mem[p] EXCEPT !.state = x])
                       /\ RecordOK(p, [mem[p] EXCEPT !.state = x])
    OBVIOUS
  <2>1. mem[p] \in Records /\ RecordOK(p, mem[p]) /\ mem[p].state # "absent"
    BY <1>1 DEF DataOK, CopiesOK
  <2>. QED
    BY <2>1 DEF Records, RecordOK, Extended
<1>. DEFINE new == [p \in Operations |-> IF p \in S THEN [mem[p] EXCEPT !.state = x] ELSE mem[p]]
<1>3. new \in [Operations -> Records]
  BY <1>1, <1>2
<1>4. \A p \in Operations :
          /\ p \notin S => new[p] = mem[p]
          /\ p \in S => /\ new[p].state = x /\ new[p].superseded = mem[p].superseded
                        /\ Extended(mem[p], new[p]) /\ RecordOK(p, new[p])
  BY <1>2
<1>5. mem' = new /\ disk' \in {disk, mem, new}
  OBVIOUS
<1>. HIDE DEF new
<1>6. Single(new)
  BY <1>4 DEF DataOK, CopiesOK, Single
<1>7. \A p \in Operations :
          /\ Extended(mem[p], new[p]) /\ RecordOK(p, new[p])
          /\ new[p].state = "ready" => disk[p].source # None
  BY <1>4 DEF DataOK, CopiesOK, Extended
<1>8. CopyTypes' /\ DataOK'
  BY <1>3, <1>5, <1>6, <1>7, CopiesStep
<1>. QED
  BY <1>4, <1>5, <1>8

\* The runner is through with its operation.
LEMMA EndHolds ==
    ASSUME IInv, job' = Idle, queue' \in {queue, <<>>}, CopyTypes', DataOK',
           \A p \in Operations : mem[p].state # "absent" => mem'[p].state # "absent",
           fatal' \in BOOLEAN, UNCHANGED <<github, pauses, reviewed>>
    PROVE  IInv'
<1>1. job'.op = None /\ JobType' /\ JobOK'
  BY DEF Idle, JobType, JobOK, Steps
<1>2. QueueType'
  <2>1. CASE queue' = queue
    BY <1>1, <2>1, Distinct DEF IInv, Types, QueueType
  <2>2. CASE queue' = <<>>
    BY <2>2 DEF QueueType
  <2>. QED
    BY <2>1, <2>2
<1>3. GitHubTypes' /\ LateType' /\ FlagTypes' /\ ReviewedType'
  BY DEF IInv, Types, GitHubTypes, RepositoryType, LateType, FlagTypes, ReviewedType, github
<1>4. ScheduledOK'
  BY <1>1, Distinct DEF IInv, ScheduledOK, Scheduled
<1>. QED
  BY <1>1, <1>2, <1>3, <1>4 DEF IInv, Types

LEMMA SameData ==
    ASSUME IInv, UNCHANGED <<made, repo, late, disk, mem, reviewed>>
    PROVE  CopyTypes' /\ DataOK'
BY DEF IInv, Types, CopyTypes, DataOK, CopiesOK, LateOK, CreatedIsOnDisk, RepositoryOK, RecordOK,
   OnMain, Single, Creator

LEMMA ReadiedHolds ==
    ASSUME IInv, NEW o \in Operations, Readied(o)
    PROVE  IInv'
<1>1. CASE o \in pauses
  BY <1>1, RunningNeed, FailingHolds DEF Readied, Goto, Runs, counts
<1>2. CASE o \notin pauses
  BY <1>2, SameData, EndHolds DEF Readied, github, IInv, Types, FlagTypes
<1>. QED
  BY <1>1, <1>2

LEMMA DoneHolds ==
    ASSUME IInv, NEW o \in Operations, Done(o)
    PROVE  IInv'
BY SameData, EndHolds DEF Done, github, IInv, Types, FlagTypes

LEMMA FailsHolds ==
    ASSUME IInv, NEW o \in Operations, Fails(o)
    PROVE  IInv'
BY FailingHolds DEF Fails

LEMMA StopHolds ==
    ASSUME IInv, NEW o \in Operations, Stop(o)
    PROVE  IInv'
<1>1. mem[o].state # "absent" /\ job' = Idle /\ UNCHANGED <<github, pauses, reviewed>>
  BY RunningNeed DEF Stop
<1>2. PICK S \in SUBSET Operations :
          /\ \A p \in S : mem[p].state # "absent"
          /\ mem' = [p \in Operations |-> IF p \in S THEN [mem[p] EXCEPT !.state = "stopped"] ELSE mem[p]]
          /\ disk' \in {disk, mem, mem'}
          /\ queue' \in {queue, <<>>} /\ fatal' \in BOOLEAN
  <2>1. CASE Saved([mem EXCEPT ![o].state = "stopped"]) /\ UNCHANGED <<queue, fatal>>
    <3>1. mem' = [p \in Operations |-> IF p \in {o} THEN [mem[p] EXCEPT !.state = "stopped"] ELSE mem[p]]
      BY <2>1 DEF Saved, IInv, Types, CopyTypes
    <3>. QED
      BY <1>1, <2>1, <3>1 DEF Saved, IInv, Types, FlagTypes
  <2>2. CASE /\ Unsaved([p \in Operations |-> IF p = o \/ mem[p].state = "active"
                                             THEN [mem[p] EXCEPT !.state = "stopped"] ELSE mem[p]])
             /\ fatal' = TRUE /\ queue' = <<>>
    <3>. DEFINE T == {p \in Operations : p = o \/ mem[p].state = "active"}
    <3>1. mem' = [p \in Operations |-> IF p \in T THEN [mem[p] EXCEPT !.state = "stopped"] ELSE mem[p]]
      BY <2>2 DEF Unsaved
    <3>2. disk' = disk
      BY <2>2 DEF Unsaved
    <3>3. T \in SUBSET Operations /\ \A p \in T : mem[p].state # "absent"
      BY <1>1
    <3>. QED
      BY <2>2, <3>1, <3>2, <3>3
  <2>. QED
    BY <2>1, <2>2 DEF Stop
<1>3. /\ CopyTypes' /\ DataOK'
      /\ \A p \in Operations : mem[p].state # "absent" => mem'[p].state # "absent"
  BY <1>1, <1>2, StateStep DEF IInv, Types, github
<1>. QED
  BY <1>1, <1>2, <1>3, EndHolds

LEMMA TakeUpHolds == IInv /\ TakeUp => IInv'
<1>. SUFFICES ASSUME IInv, TakeUp PROVE IInv'
  OBVIOUS
<1>1. queue \in Seq(Operations) /\ queue # <<>> /\ queue[1] \in Operations /\ 1 \in DOMAIN queue
  BY DEF TakeUp, IInv, Types, QueueType
<1>2. job' = [op |-> queue[1], at |-> "pin", answer |-> None] /\ queue' = Tail(queue)
  BY DEF TakeUp, Idle
<1>3. /\ queue' \in Seq(Operations) /\ Len(queue') = Len(queue) - 1
      /\ \A i \in DOMAIN queue' : i + 1 \in DOMAIN queue /\ queue'[i] = queue[i + 1]
  BY <1>1, <1>2
<1>4. QueueType'
  BY <1>1, <1>2, <1>3 DEF QueueType, IInv, Types
<1>5. JobType' /\ JobOK'
  BY <1>1, <1>2 DEF JobType, Steps, JobOK, StepOK, Working, Importing, Copying, Publishing
<1>6. ScheduledOK'
  BY <1>1, <1>2, <1>3 DEF IInv, ScheduledOK, Scheduled, TakeUp
<1>7. GitHubTypes' /\ LateType' /\ FlagTypes' /\ ReviewedType'
  BY DEF TakeUp, IInv, Types, GitHubTypes, RepositoryType, LateType, FlagTypes, ReviewedType, github
<1>8. CopyTypes' /\ DataOK'
  BY SameData DEF TakeUp, github
<1>. QED
  BY <1>4, <1>5, <1>6, <1>7, <1>8 DEF IInv, Types

-----------------------------------------------------------------------------
(* The user's requests. *)

\* A request may enqueue an operation that is not scheduled, and leaves those
\* that are scheduled alone.
LEMMA RequestHolds ==
    ASSUME IInv, NEW o \in Operations,
           queue' = queue \/ (~Scheduled(o) /\ queue' = Append(queue, o)),
           mem'[o].state # "absent", pauses' \subseteq Operations, fatal' \in BOOLEAN,
           UNCHANGED <<github, job>>, CopyTypes', DataOK', ReviewedType',
           \A p \in Operations : Scheduled(p) =>
              mem'[p] = mem[p] /\ disk'[p] \in {disk[p], mem[p]}
    PROVE  IInv'
<1>1. queue \in Seq(Operations)
  BY DEF IInv, Types, QueueType
<1>2. QueueType' /\ \A p \in Operations : Scheduled(p)' => Scheduled(p) \/ p = o
  <2>1. CASE queue' = queue
    BY <2>1 DEF IInv, Types, QueueType, Scheduled
  <2>2. CASE ~Scheduled(o) /\ queue' = Append(queue, o)
    <3>1. /\ queue' \in Seq(Operations) /\ DOMAIN queue' = 1..(Len(queue) + 1)
          /\ DOMAIN queue = 1..Len(queue) /\ Len(queue) \in Nat
          /\ queue'[Len(queue) + 1] = o
          /\ \A i \in 1..Len(queue) : queue'[i] = queue[i]
      BY <1>1, <2>2
    <3>2. \A i \in DOMAIN queue' : i \in DOMAIN queue \/ i = Len(queue) + 1
      BY <3>1
    <3>3. job'.op = job.op
      OBVIOUS
    <3>4. job.op # o /\ \A i \in DOMAIN queue : queue[i] # o
      BY <2>2 DEF Scheduled
    <3>5. QueueType'
      BY <3>1, <3>2, <3>3, <3>4 DEF IInv, Types, QueueType
    <3>6. \A p \in Operations : Scheduled(p)' => Scheduled(p) \/ p = o
      BY <3>1, <3>2, <3>3 DEF Scheduled
    <3>. QED
      BY <3>5, <3>6
  <2>. QED
    BY <2>1, <2>2
<1>3. ScheduledOK'
  BY <1>2 DEF IInv, ScheduledOK
<1>4. JobOK'
  <2>. SUFFICES ASSUME job.op # None
                PROVE  StepOK(job.op, job.at, mem[job.op], disk[job.op], job.answer)'
    BY DEF JobOK
  <2>1. job.op \in Operations /\ Scheduled(job.op)
    BY DEF IInv, Types, JobType, Scheduled
  <2>2. mem'[job.op] = mem[job.op] /\ disk'[job.op] \in {disk[job.op], mem[job.op]}
    BY <2>1
  <2>. QED
    BY <2>2 DEF IInv, JobOK, StepOK, github
<1>5. GitHubTypes' /\ LateType' /\ FlagTypes' /\ JobType'
  BY DEF IInv, Types, GitHubTypes, RepositoryType, LateType, FlagTypes, JobType, github
<1>. QED
  BY <1>2, <1>3, <1>4, <1>5 DEF IInv, Types

LEMMA EnqueueStep ==
    ASSUME IInv, NEW o \in Operations, Enqueue(o) \/ UNCHANGED <<queue, pauses>>
    PROVE  queue' \in {queue, Append(queue, o)} /\ pauses' \subseteq Operations
BY DEF Enqueue, IInv, Types, FlagTypes

LEMMA ResumeHolds ==
    ASSUME IInv, NEW o \in Operations, Resume(o)
    PROVE  IInv'
<1>1. mem[o].state # "absent" /\ ~Scheduled(o)
  BY DEF Resume
<1>2. mem' = [p \in Operations |-> IF p \in {o} THEN [mem[p] EXCEPT !.state = "active"] ELSE mem[p]]
  BY DEF Resume, IInv, Types, CopyTypes
<1>3. disk' \in {disk, mem, mem'}
  BY DEF Resume
<1>4. /\ CopyTypes' /\ DataOK'
      /\ \A p \in Operations : p # o => mem'[p] = mem[p]
      /\ mem'[o].state # "absent"
  BY <1>1, <1>2, <1>3, StateStep DEF Resume, IInv, Types, github
<1>5. \A p \in Operations : Scheduled(p) => mem'[p] = mem[p] /\ disk'[p] \in {disk[p], mem[p]}
  BY <1>1, <1>3, <1>4
<1>6. queue' \in {queue, Append(queue, o)} /\ pauses' \subseteq Operations
  BY EnqueueStep DEF Resume
<1>7. ReviewedType' /\ fatal' \in BOOLEAN /\ UNCHANGED <<github, job>>
  BY DEF Resume, IInv, Types, ReviewedType
<1>. QED
  BY <1>1, <1>4, <1>5, <1>6, <1>7, RequestHolds

LEMMA PauseHolds ==
    ASSUME IInv, NEW o \in Operations, Pause(o)
    PROVE  IInv'
<1>. DEFINE S == IF Scheduled(o) THEN {} ELSE {o}
<1>1. mem[o].state # "absent"
  BY DEF Pause
<1>2. mem' = [p \in Operations |-> IF p \in S THEN [mem[p] EXCEPT !.state = "stopped"] ELSE mem[p]]
  BY DEF Pause, Saved, Unsaved, IInv, Types, CopyTypes
<1>3. disk' \in {disk, mem, mem'}
  BY DEF Pause, Saved, Unsaved
<1>7. S \subseteq Operations /\ \A p \in S : mem[p].state # "absent" /\ ~Scheduled(p)
  BY <1>1
<1>. HIDE DEF S
<1>8. CopyTypes /\ LateType /\ DataOK /\ UNCHANGED <<made, repo, late, reviewed>>
  BY DEF Pause, IInv, Types, github
<1>4. /\ CopyTypes' /\ DataOK'
      /\ \A p \in Operations : /\ p \notin S => mem'[p] = mem[p]
                               /\ mem[p].state # "absent" => mem'[p].state # "absent"
  BY <1>2, <1>3, <1>7, <1>8, StateStep
<1>5. \A p \in Operations : Scheduled(p) => mem'[p] = mem[p] /\ disk'[p] \in {disk[p], mem[p]}
  BY <1>3, <1>4, <1>7
<1>6. pauses' \subseteq Operations /\ ReviewedType' /\ fatal' \in BOOLEAN /\ UNCHANGED <<github, queue, job>>
  BY DEF Pause, IInv, Types, ReviewedType, FlagTypes
<1>. QED
  BY <1>1, <1>4, <1>5, <1>6, RequestHolds

LEMMA PrepareHolds ==
    ASSUME IInv, NEW o \in Operations, Prepare(o)
    PROVE  IInv'
<1>. DEFINE reservations == {p \in Operations : mem[p].state # "absent" /\ ~mem[p].superseded}
            new == [p \in Operations |->
                       IF p = o THEN [Absent EXCEPT !.state = "active"]
                       ELSE IF p \in reservations
                            THEN [mem[p] EXCEPT !.superseded = TRUE, !.state = "stopped"]
                            ELSE mem[p]]
<1>1. mem' = new /\ disk' \in {disk, new}
  BY DEF Prepare, SaveAndEnqueue, Saved, Unsaved
<1>2. /\ new[o] \in Records /\ Extended(mem[o], new[o]) /\ RecordOK(o, new[o])
      /\ new[o].state = "active"
  <2>1. RecordOK(o, mem[o]) /\ mem[o].state = "absent"
    BY DEF Prepare, IInv, DataOK, CopiesOK
  <2>2. new[o] = [Absent EXCEPT !.state = "active"]
    OBVIOUS
  <2>. HIDE DEF new
  <2>. QED
    BY <2>1, <2>2 DEF Absent, Records, Extended, RecordOK
<1>3. ASSUME NEW p \in reservations, p # o
      PROVE  /\ new[p] \in Records /\ Extended(mem[p], new[p]) /\ RecordOK(p, new[p])
             /\ new[p].superseded /\ new[p].state = "stopped" /\ ~Scheduled(p)
  <2>1. RecordOK(p, mem[p]) /\ mem[p] \in Records /\ Replaceable(p)
    BY DEF Prepare, IInv, DataOK, CopiesOK, Types, CopyTypes
  <2>2. new[p] = [mem[p] EXCEPT !.superseded = TRUE, !.state = "stopped"]
    BY <1>3
  <2>. HIDE DEF new
  <2>. QED
    BY <2>1, <2>2 DEF Replaceable, Records, Extended, RecordOK
<1>4. ASSUME NEW p \in Operations, p \notin reservations, p # o
      PROVE  /\ new[p] = mem[p] /\ new[p] \in Records /\ Extended(mem[p], new[p])
             /\ RecordOK(p, new[p]) /\ (new[p].state = "absent" \/ new[p].superseded)
             /\ new[p].state = "ready" => disk[p].source # None
  BY <1>4 DEF IInv, DataOK, CopiesOK, Types, CopyTypes, Extended
<1>5. new \in [Operations -> Records]
  BY <1>2, <1>3, <1>4
<1>. HIDE DEF new
<1>6. Single(new)
  BY <1>2, <1>3, <1>4 DEF Single
<1>7. \A p \in Operations :
          /\ Extended(mem[p], new[p]) /\ RecordOK(p, new[p])
          /\ new[p].state = "ready" => disk[p].source # None
  BY <1>2, <1>3, <1>4
<1>8. CopyTypes' /\ DataOK'
  BY <1>1, <1>5, <1>6, <1>7, CopiesStep DEF Prepare, IInv, Types, github
<1>9. ~Scheduled(o)
  BY DEF Prepare, IInv, ScheduledOK
<1>10. \A p \in Operations : Scheduled(p) => mem'[p] = mem[p] /\ disk'[p] \in {disk[p], mem[p]}
  BY <1>1, <1>3, <1>4, <1>9
<1>11. queue' \in {queue, Append(queue, o)} /\ pauses' \subseteq Operations
  BY EnqueueStep DEF Prepare, SaveAndEnqueue
<1>12. ReviewedType' /\ fatal' \in BOOLEAN /\ UNCHANGED <<github, job>> /\ mem'[o].state # "absent"
  BY <1>1, <1>2 DEF Prepare, IInv, Types, ReviewedType, FlagTypes
<1>. QED
  BY <1>8, <1>9, <1>10, <1>11, <1>12, RequestHolds

\* What the user has reviewed is the version that the operation was pinned to.
LEMMA StartHolds ==
    ASSUME IInv, NEW o \in Operations, Start(o)
    PROVE  IInv'
<1>1. PICK r : r = [mem[o] EXCEPT !.authorized = TRUE, !.state = "active"]
  OBVIOUS
<1>2. /\ mem[o] \in Records /\ disk[o] \in Records /\ mem[o].state = "ready" /\ ~mem[o].superseded
      /\ RecordOK(o, mem[o]) /\ RecordOK(o, disk[o]) /\ ~Scheduled(o) /\ Extended(disk[o], mem[o])
      /\ reviewed[o] \in Versions \cup {None}
  BY DEF Start, IInv, DataOK, CopiesOK, Types, CopyTypes, ReviewedType
<1>3. /\ r \in Records /\ r.state = "active" /\ r.authorized /\ ~r.superseded
      /\ r.attempted = mem[o].attempted /\ r.id = mem[o].id /\ r.source = mem[o].source
      /\ r.bootstrap = mem[o].bootstrap /\ r.commit = mem[o].commit
  BY <1>1, <1>2 DEF Records
<1>4. mem' = [mem EXCEPT ![o] = r] /\ disk' \in {disk, mem'}
  BY <1>1, <1>2 DEF Start, SaveAndEnqueue, Saved, Unsaved, IInv, Types, CopyTypes
<1>5. /\ mem'[o] = r
      /\ \A p \in Operations : p # o => mem'[p] = mem[p]
      /\ \A p \in Operations : disk'[p] \in {disk[p], mem'[p]}
  BY <1>4 DEF IInv, Types, CopyTypes
<1>6. disk[o].source = mem[o].source /\ mem[o].source \in Versions
  BY <1>2, RecordTypes DEF IInv, DataOK, CopiesOK, Extended
<1>7. /\ reviewed[o] \in {None, mem[o].source}
      /\ \A p \in Operations : reviewed'[p] = IF p = o THEN mem[o].source ELSE reviewed[p]
  BY <1>6 DEF Start, IInv, Types, ReviewedType, DataOK, CopiesOK
<1>8. UNCHANGED <<made, repo, late, upstream>>
  BY DEF Start, github
<1>9. ReviewedType' /\ CopyTypes'
  BY <1>3, <1>4, <1>6 DEF Start, IInv, Types, ReviewedType, CopyTypes
<1>10. \A p \in Operations : reviewed[p] # None => reviewed'[p] = reviewed[p]
  BY <1>7
<1>11. ASSUME NEW p \in Operations, NEW q, RecordOK(p, q)
       PROVE  RecordOK(p, q)'
  <2>1. q.authorized \/ q.commit # None => reviewed[p] # None /\ reviewed'[p] = reviewed[p]
    BY <1>10, <1>11 DEF RecordOK
  <2>2. reviewed[p] = None => q.commit = None /\ q.state # "complete" /\ ~q.authorized
    BY <1>11 DEF RecordOK
  <2>. QED
    BY <1>8, <1>11, <2>1, <2>2, <1>10 DEF RecordOK, OnMain
<1>12. CopiesOK'
  <2>1. Single(mem)' /\ Single(disk)'
    <3>1. Single(mem')
      BY <1>2, <1>3, <1>5 DEF IInv, DataOK, CopiesOK, Single
    <3>. QED
      BY <1>4, <3>1 DEF IInv, DataOK, CopiesOK, Single
  <2>2. RecordOK(o, r)'
    <3>1. reviewed'[o] # None /\ mem[o].commit \in {None, reviewed'[o]}
      BY <1>2, <1>6, <1>7, Distinct DEF RecordOK
    <3>. QED
      BY <1>2, <1>3, <1>8, <3>1 DEF RecordOK
  <2>3. \A p \in Operations : RecordOK(p, mem[p])' /\ RecordOK(p, disk[p])'
    <3>1. SUFFICES ASSUME NEW p \in Operations, NEW q, q \in {mem'[p], disk'[p]}
                   PROVE  RecordOK(p, q)'
      BY DEF RecordOK, OnMain
    <3>2. (p = o /\ q = r) \/ q \in {mem[p], disk[p]}
      BY <1>5, <3>1
    <3>3. CASE p = o /\ q = r
      BY <2>2, <3>3
    <3>4. CASE q \in {mem[p], disk[p]}
      <4>1. RecordOK(p, q)
        BY <3>4 DEF IInv, DataOK, CopiesOK
      <4>. QED
        BY <1>11, <4>1
    <3>. QED
      BY <3>2, <3>3, <3>4
  <2>4. \A p \in Operations : Extended(disk[p], mem[p])'
    BY <1>2, <1>3, <1>5 DEF IInv, DataOK, CopiesOK, Extended
  <2>5. \A p \in Operations : /\ reviewed'[p] # None => disk'[p].source = reviewed'[p]
                              /\ mem'[p].state = "ready" => disk'[p].source # None
    BY <1>3, <1>5, <1>6, <1>7 DEF IInv, DataOK, CopiesOK, Extended
  <2>. QED
    BY <2>1, <2>3, <2>4, <2>5 DEF CopiesOK
<1>13. LateOK' /\ CreatedIsOnDisk'
  <2>1. \A p \in Operations : Extended(disk[p], disk'[p])
    BY <1>2, <1>3, <1>5 DEF IInv, DataOK, CopiesOK, Extended
  <2>2. LateOK'
    BY <1>8, <2>1 DEF IInv, Types, LateType, DataOK, LateOK, Extended
  <2>3. CreatedIsOnDisk'
    BY <1>8, <2>1 DEF IInv, DataOK, CreatedIsOnDisk, Extended
  <2>. QED
    BY <2>2, <2>3
<1>14. RepositoryOK'
  BY <1>7, <1>8, Distinct DEF IInv, DataOK, RepositoryOK, Creator, Types, GitHubTypes,
     RepositoryType
<1>15. queue' \in {queue, Append(queue, o)} /\ pauses' \subseteq Operations
  BY EnqueueStep DEF Start, SaveAndEnqueue
<1>16. \A p \in Operations : Scheduled(p) => mem'[p] = mem[p] /\ disk'[p] \in {disk[p], mem[p]}
  BY <1>2, <1>4, <1>5
<1>17. fatal' \in BOOLEAN /\ UNCHANGED <<github, job>> /\ mem'[o].state # "absent" /\ DataOK'
  BY <1>3, <1>5, <1>12, <1>13, <1>14 DEF Start, IInv, Types, FlagTypes, DataOK
<1>. QED
  BY <1>2, <1>9, <1>15, <1>16, <1>17, RequestHolds

LEMMA RestartHolds == IInv /\ Restart => IInv'
<1>. SUFFICES ASSUME IInv, Restart PROVE IInv'
  OBVIOUS
<1>1. \A o \in Operations : disk[o] \in Records /\ RecordOK(o, disk[o])
  BY DEF IInv, Types, CopyTypes, DataOK, CopiesOK
<1>2. \A o \in Operations : /\ [disk[o] EXCEPT !.state = "stopped"] \in Records
                            /\ [disk[o] EXCEPT !.state = "stopped"].state = "stopped"
                            /\ [disk[o] EXCEPT !.state = "stopped"].superseded = disk[o].superseded
                            /\ Extended(disk[o], [disk[o] EXCEPT !.state = "stopped"])
                            /\ disk[o].state # "absent" => RecordOK(o, [disk[o] EXCEPT !.state = "stopped"])
  <2>. SUFFICES ASSUME NEW o \in Operations
                PROVE  /\ [disk[o] EXCEPT !.state = "stopped"] \in Records
                       /\ [disk[o] EXCEPT !.state = "stopped"].state = "stopped"
                       /\ [disk[o] EXCEPT !.state = "stopped"].superseded = disk[o].superseded
                       /\ Extended(disk[o], [disk[o] EXCEPT !.state = "stopped"])
                       /\ disk[o].state # "absent" => RecordOK(o, [disk[o] EXCEPT !.state = "stopped"])
    OBVIOUS
  <2>1. disk[o] \in Records /\ RecordOK(o, disk[o])
    BY <1>1
  <2>. QED
    BY <2>1 DEF Records, RecordOK, Extended
<1>3. disk' = mem' /\ mem' \in [Operations -> Records]
  BY <1>1, <1>2 DEF Restart
<1>4. \A o \in Operations : /\ Extended(disk[o], mem'[o]) /\ RecordOK(o, mem'[o])
                            /\ mem'[o].state # "ready" /\ mem'[o].superseded = disk[o].superseded
                            /\ mem'[o].state = "absent" <=> disk[o].state = "absent"
  <2>. SUFFICES ASSUME NEW o \in Operations
                PROVE  /\ Extended(disk[o], mem'[o]) /\ RecordOK(o, mem'[o])
                       /\ mem'[o].state # "ready" /\ mem'[o].superseded = disk[o].superseded
                       /\ mem'[o].state = "absent" <=> disk[o].state = "absent"
    OBVIOUS
  <2>1. CASE disk[o].state \in {"absent", "complete"}
    <3>1. mem'[o] = disk[o]
      BY <2>1 DEF Restart
    <3>. QED
      BY <1>1, <2>1, <3>1 DEF Extended
  <2>2. CASE disk[o].state \notin {"absent", "complete"}
    <3>1. mem'[o] = [disk[o] EXCEPT !.state = "stopped"]
      BY <2>2 DEF Restart
    <3>. QED
      BY <1>2, <2>2, <3>1
  <2>. QED
    BY <2>1, <2>2
<1>5. UNCHANGED <<made, repo, late, upstream, reviewed>>
  BY DEF Restart, github
<1>6. CopiesOK'
  <2>1. Single(mem)' /\ Single(disk)'
    BY <1>3, <1>4 DEF IInv, DataOK, CopiesOK, Single
  <2>2. \A o \in Operations : /\ RecordOK(o, mem[o])' /\ RecordOK(o, disk[o])'
                              /\ Extended(disk[o], mem[o])'
    BY <1>3, <1>4, <1>5 DEF RecordOK, OnMain, Extended
  <2>3. \A o \in Operations : reviewed'[o] # None => disk'[o].source = reviewed'[o]
    BY <1>3, <1>4, <1>5, Distinct DEF IInv, DataOK, CopiesOK, Extended
  <2>. QED
    BY <1>4, <2>1, <2>2, <2>3 DEF CopiesOK
<1>7. LateOK' /\ CreatedIsOnDisk' /\ RepositoryOK'
  <2>1. LateOK'
    BY <1>3, <1>4, <1>5 DEF IInv, Types, LateType, DataOK, LateOK, Extended
  <2>2. CreatedIsOnDisk'
    BY <1>3, <1>4, <1>5 DEF IInv, DataOK, CreatedIsOnDisk, Extended
  <2>3. RepositoryOK'
    BY <1>5 DEF IInv, DataOK, RepositoryOK, Creator
  <2>. QED
    BY <2>1, <2>2, <2>3
<1>8. Types'
  <2>1. GitHubTypes' /\ LateType' /\ CopyTypes' /\ FlagTypes' /\ ReviewedType'
    BY <1>3, <1>5 DEF Restart, IInv, Types, GitHubTypes, RepositoryType, LateType, CopyTypes,
       FlagTypes,
       ReviewedType
  <2>2. JobType' /\ QueueType'
    BY DEF Restart, JobType, QueueType, Idle, Steps
  <2>. QED
    BY <2>1, <2>2 DEF Types
<1>9. ScheduledOK' /\ JobOK'
  BY Distinct DEF Restart, ScheduledOK, Scheduled, JobOK, Idle
<1>. QED
  BY <1>6, <1>7, <1>8, <1>9 DEF IInv, DataOK

-----------------------------------------------------------------------------
(* GitHub. *)

\* A change of what is on GitHub keeps what the records say of it, if no
\* repository changes its creator and main keeps its commits.
LEMMA GitHubCopies ==
    ASSUME CopyTypes, CopiesOK, UNCHANGED <<disk, mem, reviewed>>,
           \A i \in DOMAIN made : i \in DOMAIN made' /\ made'[i] = made[i],
           \/ repo' = None
           \/ repo'.id \notin DOMAIN made \cup {None}
           \/ /\ repo # None /\ repo'.id = repo.id
              /\ \A c : OnMain(c) => OnMain(c)'
    PROVE  CopiesOK'
<1>1. ASSUME NEW o \in Operations, NEW r, RecordOK(o, r)
      PROVE  RecordOK(o, r)'
  <2>1. ASSUME r.state = "complete", repo' # None, repo'.id = r.id
        PROVE  OnMain(reviewed[o])'
    <3>1. r.id # None => r.id \in DOMAIN made
      BY <1>1 DEF RecordOK
    <3>2. repo # None /\ repo.id = r.id /\ \A c : OnMain(c) => OnMain(c)'
      BY <2>1, <3>1
    <3>3. PICK c : c = reviewed[o]
      OBVIOUS
    <3>4. OnMain(c)
      BY <1>1, <2>1, <3>2, <3>3 DEF RecordOK
    <3>5. OnMain(c)'
      BY <3>2, <3>4
    <3>. QED
      BY <3>3, <3>5 DEF OnMain
  <2>. QED
    BY <1>1, <2>1 DEF RecordOK
<1>2. \A o \in Operations : RecordOK(o, mem[o])' /\ RecordOK(o, disk[o])'
  <2>. SUFFICES ASSUME NEW o \in Operations, NEW r, r \in {mem[o], disk[o]}
                PROVE  RecordOK(o, r)'
    BY DEF RecordOK, OnMain
  <2>. QED
    BY <1>1 DEF CopiesOK
<1>. QED
  BY <1>2 DEF CopiesOK, Single, Extended

\* Nothing but GitHub changed.
LEMMA GitHubHolds ==
    ASSUME IInv, GitHubTypes', LateType', CopiesOK', LateOK', CreatedIsOnDisk', RepositoryOK',
           upstream' \in Versions, UNCHANGED <<server, reviewed>>,
           \A i \in DOMAIN made : i \in DOMAIN made' /\ made'[i] = made[i]
    PROVE  IInv'
<1>1. CopyTypes' /\ JobType' /\ FlagTypes' /\ ReviewedType' /\ QueueType'
  BY DEF IInv, Types, CopyTypes, JobType, FlagTypes, ReviewedType, QueueType, server
<1>2. ScheduledOK'
  BY DEF IInv, ScheduledOK, Scheduled, server
<1>3. JobOK'
  BY DEF IInv, JobOK, StepOK, server
<1>. QED
  BY <1>1, <1>2, <1>3 DEF IInv, Types, DataOK

LEMMA RepositoryFields ==
    ASSUME IInv, repo # None
    PROVE  /\ repo \in RepositoryType /\ repo.id \in DOMAIN made /\ repo.default \in Branches
           /\ repo.main \in Seq(Commits) /\ repo.other \in Seq(Commits)
           /\ made \in Seq(Operations \cup {Somebody}) /\ Creator \in Operations \cup {Somebody}
           /\ \A b \in Branches : repo[b] \in Seq(Commits)
BY DEF IInv, Types, GitHubTypes, RepositoryType, Creator, Branches

\* A new repository, an operation's or somebody's, with a first commit that is
\* its creator's.
LEMMA NewRepositoryHolds ==
    ASSUME IInv, NEW x \in Operations \cup {Somebody}, made' = Append(made, x),
           NEW default \in Branches, NEW main \in Seq(Commits), NEW other \in Seq(Commits),
           repo' = [id |-> Len(made'), default |-> default, main |-> main, other |-> other],
           \A c \in {main, other} : c = <<>> \/ c = <<IF x = Somebody THEN Alien ELSE Boot>>,
           x \in Operations => disk[x].authorized /\ disk[x].attempted,
           UNCHANGED <<disk, mem, reviewed>>
    PROVE  /\ GitHubTypes' /\ CopiesOK' /\ CreatedIsOnDisk' /\ RepositoryOK'
           /\ repo'.id \in DOMAIN made' /\ made'[repo'.id] = x
           /\ \A i \in DOMAIN made : i \in DOMAIN made' /\ made'[i] = made[i]
<1>1. /\ made \in Seq(Operations \cup {Somebody}) /\ made' \in Seq(Operations \cup {Somebody})
      /\ Len(made) \in Nat /\ DOMAIN made = 1..Len(made) /\ DOMAIN made' = 1..(Len(made) + 1)
      /\ Len(made') = Len(made) + 1 /\ made'[Len(made')] = x
      /\ \A i \in DOMAIN made : made'[i] = made[i]
  BY DEF IInv, Types, GitHubTypes
<1>2. /\ repo'.id = Len(made') /\ repo'.main = main /\ repo'.other = other
      /\ repo'.id \in DOMAIN made' /\ repo'.id \notin DOMAIN made \cup {None}
      /\ made'[repo'.id] = x
  BY <1>1, Distinct
<1>3. GitHubTypes'
  BY <1>1, <1>2 DEF GitHubTypes, RepositoryType
<1>4. CopiesOK'
  BY <1>1, <1>2, GitHubCopies DEF IInv, Types, DataOK
<1>5. CreatedIsOnDisk'
  <2>1. \A i \in DOMAIN made' : i \in DOMAIN made \/ made'[i] = x
    BY <1>1
  <2>. QED
    BY <1>1, <2>1 DEF IInv, DataOK, CreatedIsOnDisk
<1>6. RepositoryOK'
  <2>1. \A b \in Branches : repo'[b] \in {main, other}
    BY DEF Branches
  <2>2. Creator' = x
    BY <1>2 DEF Creator
  <2>3. \A c \in {main, other} : \A i \in DOMAIN c :
            i = 1 /\ c[i] = IF x = Somebody THEN Alien ELSE Boot
    OBVIOUS
  <2>. QED
    BY <2>1, <2>2, <2>3, Distinct DEF RepositoryOK
<1>. QED
  BY <1>1, <1>2, <1>3, <1>4, <1>5, <1>6

LEMMA CreatedHolds ==
    ASSUME IInv, NEW o \in Operations, NEW default \in Branches, Created(o, default),
           disk[o].authorized, disk[o].attempted, UNCHANGED <<disk, mem, reviewed>>
    PROVE  /\ GitHubTypes' /\ CopiesOK' /\ CreatedIsOnDisk' /\ RepositoryOK'
           /\ repo'.id \in DOMAIN made' /\ made'[repo'.id] = o
           /\ \A i \in DOMAIN made : i \in DOMAIN made' /\ made'[i] = made[i]
<1>. DEFINE main  == IF default = "main" THEN <<Boot>> ELSE <<>>
            other == IF default = "other" THEN <<Boot>> ELSE <<>>
<1>1. main \in Seq(Commits) /\ other \in Seq(Commits)
  <2>1. <<Boot>> \in Seq(Commits) /\ <<>> \in Seq(Commits)
    BY DEF Commits
  <2>. QED
    BY <2>1
<1>2. \A c \in {main, other} : c = <<>> \/ c = <<IF o = Somebody THEN Alien ELSE Boot>>
  BY Distinct
<1>3. /\ made' = Append(made, o)
      /\ repo' = [id |-> Len(made'), default |-> default, main |-> main, other |-> other]
  BY DEF Created
<1>. HIDE DEF main, other
<1>. QED
  BY <1>1, <1>2, <1>3, NewRepositoryHolds

LEMMA SomebodyCreatesHolds == IInv /\ SomebodyCreates => IInv'
<1>. SUFFICES ASSUME IInv, SomebodyCreates PROVE IInv'
  OBVIOUS
<1>1. <<Alien>> \in Seq(Commits) /\ <<>> \in Seq(Commits) /\ "main" \in Branches
  BY DEF Commits, Branches
<1>2. /\ made' = Append(made, Somebody)
      /\ repo' = [id |-> Len(made'), default |-> "main", main |-> <<Alien>>, other |-> <<>>]
      /\ UNCHANGED <<late, upstream, server, reviewed>>
  BY DEF SomebodyCreates
<1>3. UNCHANGED <<disk, mem>> /\ Somebody \notin Operations
  BY <1>2, Distinct DEF server
<1>4. /\ GitHubTypes' /\ CopiesOK' /\ CreatedIsOnDisk' /\ RepositoryOK'
      /\ \A i \in DOMAIN made : i \in DOMAIN made' /\ made'[i] = made[i]
  BY <1>1, <1>2, <1>3, NewRepositoryHolds
<1>5. LateType' /\ LateOK' /\ upstream' \in Versions
  BY <1>2, <1>3 DEF IInv, Types, LateType, DataOK, LateOK, FlagTypes
<1>. QED
  BY <1>2, <1>4, <1>5, GitHubHolds

\* What NothingIsOverwritten asks of a step.
BranchesKept ==
    \A b \in Branches : \E c \in Branches :
        /\ Len(repo'[c]) >= Len(repo[b])
        /\ SubSeq(repo'[c], 1, Len(repo[b])) = repo[b]

LEMMA Prefixes ==
    ASSUME NEW S, NEW old \in Seq(S), NEW new \in Seq(S), Len(new) >= Len(old),
           \A i \in 1..Len(old) : new[i] = old[i]
    PROVE  SubSeq(new, 1, Len(old)) = old
<1>1. Len(old) \in Nat /\ DOMAIN old = 1..Len(old) /\ old = [i \in 1..Len(old) |-> old[i]]
  OBVIOUS
<1>2. SubSeq(new, 1, Len(old)) = [i \in 1..Len(old) |-> new[i]]
  BY <1>1
<1>. QED
  BY <1>1, <1>2

\* A branch that grows by what its repository may hold.
LEMMA BranchGrows ==
    ASSUME IInv, repo # None, NEW b \in Branches, NEW new \in Seq(Commits),
           repo' = [repo EXCEPT ![b] = new], UNCHANGED <<made, disk, mem, reviewed>>,
           Len(new) >= Len(repo[b]), \A i \in 1..Len(repo[b]) : new[i] = repo[b][i],
           \A i \in DOMAIN new : /\ Creator = Somebody => new[i] = Alien
                                 /\ new[i] = Boot => i = 1
                                 /\ new[i] \in Versions => /\ i = 2 /\ new[1] = Boot
                                                           /\ new[i] = reviewed[Creator]
    PROVE  /\ GitHubTypes' /\ CopiesOK' /\ CreatedIsOnDisk' /\ RepositoryOK'
           /\ repo'.id \in DOMAIN made' /\ BranchesKept
<1>1. /\ repo \in RepositoryType /\ repo.id \in DOMAIN made
      /\ made \in Seq(Operations \cup {Somebody})
      /\ \A c \in Branches : repo[c] \in Seq(Commits)
  BY RepositoryFields
<1>2. /\ repo' \in RepositoryType /\ repo'.id = repo.id /\ repo'.default = repo.default
      /\ repo'[b] = new /\ \A c \in Branches : c # b => repo'[c] = repo[c]
      /\ repo'.main = repo'["main"]
  <2>1. CASE b = "main"
    BY <1>1, <2>1 DEF RepositoryType, Branches
  <2>2. CASE b = "other"
    BY <1>1, <2>2 DEF RepositoryType, Branches
  <2>. QED
    BY <2>1, <2>2 DEF Branches
<1>3. GitHubTypes'
  BY <1>1, <1>2 DEF GitHubTypes, RepositoryType
<1>4. \A c \in Branches : /\ Len(repo'[c]) >= Len(repo[c])
                          /\ \A i \in 1..Len(repo[c]) : repo'[c][i] = repo[c][i]
  BY <1>1, <1>2
<1>5. \A c : OnMain(c) => OnMain(c)'
  <2>1. /\ Len(repo'.main) >= Len(repo.main) /\ repo.main \in Seq(Commits)
        /\ repo'.main \in Seq(Commits)
        /\ \A i \in 1..Len(repo.main) : repo'.main[i] = repo.main[i]
    BY <1>1, <1>2, <1>4 DEF Branches
  <2>. QED
    BY <1>2, <2>1 DEF OnMain
<1>6. CopiesOK'
  BY <1>2, <1>5, GitHubCopies DEF IInv, Types, DataOK
<1>7. RepositoryOK'
  <2>1. Creator' = Creator
    BY <1>2 DEF Creator
  <2>. SUFFICES ASSUME NEW c \in Branches, NEW i \in DOMAIN repo'[c]
                PROVE  /\ Creator = Somebody => repo'[c][i] = Alien
                       /\ repo'[c][i] = Boot => i = 1
                       /\ repo'[c][i] \in Versions => /\ i = 2 /\ repo'[c][1] = Boot
                                                      /\ repo'[c][i] = reviewed[Creator]
    BY <2>1 DEF RepositoryOK
  <2>2. CASE c = b
    <3>1. repo'[c] = new
      BY <1>2, <2>2
    <3>2. i \in DOMAIN new
      BY <3>1
    <3>3. /\ Creator = Somebody => new[i] = Alien
          /\ new[i] = Boot => i = 1
          /\ new[i] \in Versions => i = 2 /\ new[1] = Boot /\ new[i] = reviewed[Creator]
      BY <3>2
    <3>. QED
      BY <3>1, <3>3
  <2>3. CASE c # b
    <3>1. repo'[c] = repo[c]
      BY <1>2, <2>3
    <3>. QED
      BY <3>1 DEF IInv, DataOK, RepositoryOK
  <2>. QED
    BY <2>2, <2>3
<1>8. BranchesKept
  <2>. SUFFICES ASSUME NEW c \in Branches
                PROVE  /\ Len(repo'[c]) >= Len(repo[c])
                       /\ SubSeq(repo'[c], 1, Len(repo[c])) = repo[c]
    BY DEF BranchesKept
  <2>1. repo[c] \in Seq(Commits) /\ repo'[c] \in Seq(Commits)
    BY <1>1, <1>2
  <2>. QED
    BY <1>4, <2>1, Prefixes
<1>9. CreatedIsOnDisk'
  BY DEF IInv, DataOK, CreatedIsOnDisk
<1>. QED
  BY <1>1, <1>2, <1>3, <1>6, <1>7, <1>8, <1>9

\* PATCH makes the snapshot the second commit of its branch, or changes nothing.
LEMMA PatchedHolds ==
    ASSUME IInv, NEW o \in Operations, Patchable(o), Patched(o),
           mem[o].bootstrap # None, mem[o].commit # None,
           UNCHANGED <<made, disk, mem, reviewed>>
    PROVE  /\ GitHubTypes' /\ CopiesOK' /\ CreatedIsOnDisk' /\ RepositoryOK'
           /\ repo'.id \in DOMAIN made' /\ BranchesKept
<1>. DEFINE b == mem[o].bootstrap
            old == repo[b]
            v == mem[o].commit
            new == IF Tip(old) = Boot THEN Append(old, v) ELSE <<Boot, v>>
<1>1. mem[o] \in Records /\ RecordOK(o, mem[o])
  BY DEF IInv, Types, CopyTypes, DataOK, CopiesOK
<1>2. b \in Branches /\ v \in Versions /\ v = reviewed[o]
  BY <1>1, RecordTypes DEF RecordOK
<1>3. repo # None /\ repo.id = mem[o].id
  BY DEF Patchable, HasCommit
<1>4. old \in Seq(Commits) /\ repo.id \in DOMAIN made /\ made \in Seq(Operations \cup {Somebody})
  BY <1>2, <1>3, RepositoryFields
<1>5. Creator = o /\ Creator # Somebody
  BY <1>1, <1>3, <1>4, Distinct DEF RecordOK, Creator
<1>6. Tip(old) \in {Boot, v} /\ repo' = [repo EXCEPT ![b] = new]
  BY DEF Patchable, Patched
<1>7. /\ \A i \in DOMAIN old : /\ old[i] = Boot => i = 1
                               /\ old[i] \in Versions => i = 2 /\ old[1] = Boot
  BY <1>2, <1>3 DEF IInv, DataOK, RepositoryOK
<1>. HIDE DEF old, b, v
<1>8. old # <<>> /\ old[Len(old)] \in {Boot, v} /\ Len(old) \in DOMAIN old
  <2>1. Tip(<<>>) = None /\ None \notin {Boot, v}
    BY <1>2, CreationAssumption, Distinct DEF CreationAssumption, Tip
  <2>2. old # <<>>
    BY <1>6, <2>1
  <2>. QED
    BY <1>4, <1>6, <2>2 DEF Tip
<1>9. /\ new \in Seq(Commits) /\ Len(new) >= Len(old) /\ \A i \in 1..Len(old) : new[i] = old[i]
      /\ Len(new) = 2 /\ new[1] = Boot /\ new[2] = v
  <2>1. CASE Tip(old) = Boot
    <3>1. Len(old) = 1 /\ old[1] = Boot /\ new = Append(old, v)
      BY <1>4, <1>7, <1>8, <2>1 DEF Tip
    <3>2. v \in Commits
      BY <1>2 DEF Commits
    <3>3. Append(old, v) \in Seq(Commits)
      BY <1>4, <3>2
    <3>4. Len(Append(old, v)) = Len(old) + 1 /\ Append(old, v)[Len(old) + 1] = v
          /\ \A i \in 1..Len(old) : Append(old, v)[i] = old[i]
      BY <1>4
    <3>5. Len(Append(old, v)) = 2 /\ Append(old, v)[1] = old[1] /\ Append(old, v)[2] = v
      BY <3>1, <3>4
    <3>. HIDE DEF new
    <3>. QED
      BY <3>1, <3>3, <3>4, <3>5
  <2>2. CASE Tip(old) # Boot
    <3>1. Len(old) = 2 /\ old[1] = Boot /\ old[2] = v /\ new = <<Boot, v>>
      BY <1>2, <1>4, <1>6, <1>7, <1>8, <2>2 DEF Tip
    <3>2. v \in Commits /\ Boot \in Commits
      BY <1>2 DEF Commits
    <3>3. <<Boot, v>> \in Seq(Commits) /\ Len(<<Boot, v>>) = 2
          /\ <<Boot, v>>[1] = Boot /\ <<Boot, v>>[2] = v
      BY <3>2
    <3>4. \A i \in 1..Len(old) : i = 1 \/ i = 2
      BY <3>1
    <3>. HIDE DEF new
    <3>. QED
      BY <3>1, <3>3, <3>4
  <2>. QED
    BY <2>1, <2>2
<1>. HIDE DEF new
<1>10. \A i \in DOMAIN new : /\ Creator = Somebody => new[i] = Alien
                             /\ new[i] = Boot => i = 1
                             /\ new[i] \in Versions => /\ i = 2 /\ new[1] = Boot
                                                       /\ new[i] = reviewed[Creator]
  <2>1. \A i \in DOMAIN new : i = 1 \/ i = 2
    BY <1>9
  <2>. QED
    BY <1>2, <1>5, <1>9, <2>1, Distinct
<1>11. Len(new) >= Len(repo[b]) /\ \A i \in 1..Len(repo[b]) : new[i] = repo[b][i]
  BY <1>9 DEF old
<1>. QED
  BY <1>2, <1>3, <1>6, <1>9, <1>10, <1>11, BranchGrows

\* The rename takes the commits along to a name that was free.
LEMMA RenamedHolds ==
    ASSUME IInv, Renamable, Renamed, UNCHANGED <<made, disk, mem, reviewed>>
    PROVE  /\ GitHubTypes' /\ CopiesOK' /\ CreatedIsOnDisk' /\ RepositoryOK'
           /\ repo'.id \in DOMAIN made' /\ BranchesKept
<1>1. /\ repo # None /\ repo \in RepositoryType /\ repo.id \in DOMAIN made /\ repo.main = <<>>
      /\ repo.other \in Seq(Commits) /\ made \in Seq(Operations \cup {Somebody})
  BY RepositoryFields DEF Renamable
<1>2. /\ repo' \in RepositoryType /\ repo'.id = repo.id /\ repo'.main = repo.other
      /\ repo'.other = <<>> /\ repo'["main"] = repo["other"] /\ repo'["other"] = <<>>
  BY <1>1 DEF Renamed, RepositoryType, Branches
<1>3. GitHubTypes'
  BY <1>1, <1>2 DEF GitHubTypes, RepositoryType
<1>4. \A c : ~OnMain(c)
  BY <1>1 DEF OnMain
<1>5. CopiesOK'
  BY <1>1, <1>2, <1>4, GitHubCopies DEF IInv, Types, DataOK
<1>6. RepositoryOK'
  <2>1. Creator' = Creator
    BY <1>2 DEF Creator
  <2>. QED
    BY <1>1, <1>2, <2>1 DEF IInv, DataOK, RepositoryOK, Branches
<1>7. BranchesKept
  <2>1. SubSeq(repo'["main"], 1, Len(repo["other"])) = repo["other"]
    BY <1>1, <1>2, Prefixes
  <2>2. repo["main"] = <<>> /\ repo'["main"] \in Seq(Commits) /\ <<>> \in Seq(Commits)
        /\ Len(repo["main"]) = 0
    BY <1>1, <1>2
  <2>3. SubSeq(repo'["main"], 1, Len(repo["main"])) = repo["main"]
    BY <2>2, Prefixes
  <2>4. Len(repo'["main"]) >= Len(repo["main"]) /\ Len(repo'["main"]) >= Len(repo["other"])
    BY <1>1, <1>2, <2>2
  <2>. QED
    BY <2>1, <2>3, <2>4 DEF BranchesKept, Branches
<1>8. CreatedIsOnDisk'
  BY DEF IInv, DataOK, CreatedIsOnDisk
<1>. QED
  BY <1>1, <1>2, <1>3, <1>5, <1>6, <1>7, <1>8

LEMMA SameGitHub ==
    ASSUME IInv, UNCHANGED <<made, repo, disk, mem, reviewed>>
    PROVE  /\ GitHubTypes' /\ CopiesOK' /\ CreatedIsOnDisk' /\ RepositoryOK'
           /\ \A i \in DOMAIN made : i \in DOMAIN made' /\ made'[i] = made[i]
           /\ repo # None => BranchesKept
<1>1. GitHubTypes' /\ CreatedIsOnDisk' /\ RepositoryOK'
  BY DEF IInv, Types, GitHubTypes, RepositoryType, DataOK, CreatedIsOnDisk, RepositoryOK, Creator
<1>2. CopiesOK'
  BY DEF IInv, DataOK, CopiesOK, RecordOK, OnMain, Single
<1>3. ASSUME repo # None PROVE BranchesKept
  <2>. SUFFICES ASSUME NEW b \in Branches
                PROVE  /\ Len(repo'[b]) >= Len(repo[b])
                       /\ SubSeq(repo'[b], 1, Len(repo[b])) = repo[b]
    BY DEF BranchesKept
  <2>1. repo[b] \in Seq(Commits) /\ repo' = repo
    BY <1>3, RepositoryFields
  <2>. QED
    BY <2>1, Prefixes
<1>. QED
  BY <1>1, <1>2, <1>3

LEMMA SomebodyDeletesHolds == IInv /\ SomebodyDeletes => IInv'
<1>. SUFFICES ASSUME IInv, SomebodyDeletes PROVE IInv'
  OBVIOUS
<1>1. repo' = None /\ UNCHANGED <<made, late, upstream, disk, mem, server, reviewed>>
  BY DEF SomebodyDeletes, server
<1>2. GitHubTypes' /\ CreatedIsOnDisk' /\ RepositoryOK'
  BY <1>1 DEF IInv, Types, GitHubTypes, DataOK, CreatedIsOnDisk, RepositoryOK
<1>3. CopiesOK'
  BY <1>1, GitHubCopies DEF IInv, Types, DataOK
<1>4. LateType' /\ LateOK' /\ upstream' \in Versions
  BY <1>1 DEF IInv, Types, LateType, DataOK, LateOK, FlagTypes
<1>. QED
  BY <1>1, <1>2, <1>3, <1>4, GitHubHolds

LEMMA SourceMovesHolds == IInv /\ SourceMoves => IInv'
<1>. SUFFICES ASSUME IInv, SourceMoves PROVE IInv'
  OBVIOUS
<1>1. UNCHANGED <<made, repo, late, disk, mem, server, reviewed>>
  BY DEF SourceMoves, server
<1>2. upstream' \in Versions
  BY CreationAssumption DEF SourceMoves, CreationAssumption, Versions, IInv, Types, FlagTypes
<1>3. LateType' /\ LateOK'
  BY <1>1 DEF IInv, Types, LateType, DataOK, LateOK
<1>. QED
  BY <1>1, <1>2, <1>3, SameGitHub, GitHubHolds

\* Somebody's push adds an Alien to a branch, or to what a new branch starts from.
LEMMA SomebodyPushesKeeps ==
    ASSUME IInv, NEW b \in Branches, SomebodyPushes(b)
    PROVE  /\ GitHubTypes' /\ CopiesOK' /\ CreatedIsOnDisk' /\ RepositoryOK'
           /\ repo'.id \in DOMAIN made' /\ BranchesKept
<1>. DEFINE from == IF repo[b] = <<>> THEN repo[repo.default] ELSE repo[b]
            new  == Append(from, Alien)
<1>1. repo # None /\ repo' = [repo EXCEPT ![b] = new] /\ UNCHANGED <<made, disk, mem, reviewed>>
  BY DEF SomebodyPushes, server
<1>2. PICK c \in Branches : from = repo[c]
  BY <1>1, RepositoryFields
<1>3. from \in Seq(Commits) /\ repo[b] \in Seq(Commits) /\ Alien \in Commits
  BY <1>1, <1>2, RepositoryFields DEF Commits
<1>4. Len(from) >= Len(repo[b]) /\ \A i \in 1..Len(repo[b]) : from[i] = repo[b][i]
  BY <1>3
<1>. HIDE DEF from
<1>5. /\ new \in Seq(Commits) /\ Len(new) = Len(from) + 1 /\ DOMAIN new = 1..(Len(from) + 1)
      /\ DOMAIN from = 1..Len(from) /\ Len(from) \in Nat
      /\ new[Len(from) + 1] = Alien /\ \A i \in 1..Len(from) : new[i] = from[i]
  BY <1>3
<1>. HIDE DEF new
<1>6. Len(new) >= Len(repo[b]) /\ \A i \in 1..Len(repo[b]) : new[i] = repo[b][i]
  <2>1. Len(repo[b]) \in Nat
    BY <1>3
  <2>. QED
    BY <1>4, <1>5, <2>1
<1>7. \A i \in DOMAIN new : /\ Creator = Somebody => new[i] = Alien
                            /\ new[i] = Boot => i = 1
                            /\ new[i] \in Versions => /\ i = 2 /\ new[1] = Boot
                                                      /\ new[i] = reviewed[Creator]
  <2>. SUFFICES ASSUME NEW i \in DOMAIN new
                PROVE  /\ Creator = Somebody => new[i] = Alien
                       /\ new[i] = Boot => i = 1
                       /\ new[i] \in Versions => /\ i = 2 /\ new[1] = Boot
                                                 /\ new[i] = reviewed[Creator]
    OBVIOUS
  <2>1. CASE i \in 1..Len(from)
    <3>1. i \in DOMAIN repo[c] /\ new[i] = repo[c][i] /\ new[1] = repo[c][1]
      BY <1>2, <1>5, <2>1
    <3>. QED
      BY <1>1, <3>1 DEF IInv, DataOK, RepositoryOK
  <2>2. CASE i \notin 1..Len(from)
    <3>1. new[i] = Alien
      BY <1>5, <2>2
    <3>. QED
      BY <3>1, Distinct
  <2>. QED
    BY <2>1, <2>2
<1>. QED
  BY <1>1, <1>5, <1>6, <1>7, BranchGrows

LEMMA SomebodyPushesHolds ==
    ASSUME IInv, NEW b \in Branches, SomebodyPushes(b)
    PROVE  IInv'
<1>1. UNCHANGED <<made, late, upstream, disk, mem, server, reviewed>>
  BY DEF SomebodyPushes, server
<1>2. LateType' /\ LateOK' /\ upstream' \in Versions
  BY <1>1 DEF IInv, Types, LateType, DataOK, LateOK, FlagTypes
<1>. QED
  BY <1>1, <1>2, SomebodyPushesKeeps, GitHubHolds

\* A late write still meets the record that it was sent under.
LEMMA LateWriteKeeps ==
    ASSUME IInv, NEW w \in late, LateWrite(w)
    PROVE  /\ GitHubTypes' /\ CopiesOK' /\ CreatedIsOnDisk' /\ RepositoryOK'
           /\ \A i \in DOMAIN made : i \in DOMAIN made' /\ made'[i] = made[i]
           /\ repo # None => BranchesKept
<1>1. UNCHANGED <<disk, mem, reviewed>>
  BY DEF LateWrite, server
<1>2. w.op \in Operations /\ Extended(disk[w.op], mem[w.op])
  BY DEF IInv, Types, LateType, DataOK, CopiesOK
<1>3. CASE w.kind = "create" /\ Creatable /\ \E default \in Branches : Created(w.op, default)
  <2>1. disk[w.op].authorized /\ disk[w.op].attempted
    BY <1>3 DEF IInv, DataOK, LateOK
  <2>. QED
    BY <1>1, <1>2, <1>3, <2>1, CreatedHolds DEF Creatable
<1>4. CASE w.kind = "patch" /\ repo # None /\ Patchable(w.op) /\ Patched(w.op) /\ UNCHANGED made
  <2>1. mem[w.op].bootstrap # None /\ mem[w.op].commit # None
    BY <1>2, <1>4 DEF IInv, DataOK, LateOK, Extended
  <2>. QED
    BY <1>1, <1>2, <1>4, <2>1, PatchedHolds
<1>5. CASE w.kind = "rename" /\ Renamable /\ Renamed /\ UNCHANGED made
  BY <1>1, <1>5, RenamedHolds
<1>. QED
  BY <1>3, <1>4, <1>5 DEF LateWrite

LEMMA LateWriteHolds ==
    ASSUME IInv, NEW w \in late, LateWrite(w)
    PROVE  IInv'
<1>1. UNCHANGED <<upstream, disk, mem, server, reviewed>> /\ late' \subseteq late
  BY DEF LateWrite, server
<1>2. LateType' /\ LateOK' /\ upstream' \in Versions
  BY <1>1 DEF IInv, Types, LateType, DataOK, LateOK, FlagTypes
<1>. QED
  BY <1>1, <1>2, LateWriteKeeps, GitHubHolds

-----------------------------------------------------------------------------
(* The runner's writes. *)

\* A write is accepted or not, answered or not, and perhaps carried out later.
LEMMA WriteHolds ==
    ASSUME IInv, NEW o \in Operations, NEW kind \in {"create", "patch", "rename"}, Runs(o, kind),
           NEW next \in {"created", "confirmPatch", "confirmRename"},
           kind = "create" => next = "created",
           \/ Goto("failing")
           \/ /\ job' = [job EXCEPT !.at = next, !.answer = repo'.id]
              /\ repo'.id \in DOMAIN made'
              /\ next = "created" => made'[repo'.id] = o,
           late' \in {late, late \cup {[op |-> o, kind |-> kind, id |-> mem[o].id]}},
           UNCHANGED <<upstream, disk, mem, queue, pauses, fatal, reviewed>>,
           GitHubTypes', CopiesOK', CreatedIsOnDisk', RepositoryOK',
           \A i \in DOMAIN made : i \in DOMAIN made' /\ made'[i] = made[i]
    PROVE  IInv'
<1>1. /\ job.op = o /\ mem[o] \in Records /\ RecordOK(o, mem[o])
      /\ StepOK(o, kind, mem[o], disk[o], job.answer)
  BY RunningNeed
<1>2. /\ disk[o] = mem[o] /\ mem[o].state = "active" /\ mem[o].authorized /\ mem[o].source # None
      /\ kind = "create" => mem[o].attempted
      /\ kind # "create" => mem[o].bootstrap # None /\ mem[o].commit # None
  BY <1>1 DEF StepOK, Working, Importing, Copying, Publishing
<1>3. job \in [op : Operations \cup {None}, at : Steps, answer : Nat \cup {None}]
  BY DEF IInv, Types, JobType
<1>4. PICK at \in {"failing", next}, answer \in Nat \cup {None} :
          /\ job' = [op |-> o, at |-> at, answer |-> answer]
          /\ at = "created" => answer \in DOMAIN made' /\ made'[answer] = o
  <2>1. CASE Goto("failing")
    <3>1. job' = [op |-> o, at |-> "failing", answer |-> job.answer]
      BY <1>1, <1>3, <2>1 DEF Goto
    <3>. QED
      BY <1>3, <3>1
  <2>2. CASE /\ job' = [job EXCEPT !.at = next, !.answer = repo'.id]
             /\ repo'.id \in DOMAIN made'
             /\ next = "created" => made'[repo'.id] = o
    <3>1. job' = [op |-> o, at |-> next, answer |-> repo'.id]
      BY <1>1, <1>3, <2>2
    <3>2. repo'.id \in Nat
      BY <2>2 DEF GitHubTypes
    <3>. QED
      BY <2>2, <3>1, <3>2
  <2>. QED
    BY <2>1, <2>2
<1>5. job'.op = o /\ job'.at = at /\ job'.answer = answer /\ at \in Steps
  BY <1>4 DEF Steps
<1>6. JobType' /\ QueueType'
  BY <1>1, <1>4, <1>5 DEF IInv, Types, JobType, QueueType
<1>7. StepOK(o, at, mem[o], disk[o], answer)'
  <2>1. CASE at = "failing"
    BY <2>1 DEF StepOK, Working, Importing, Copying, Publishing
  <2>2. CASE at = next /\ kind = "create"
    BY <1>2, <1>4, <2>2 DEF StepOK, Working, Importing, Copying, Publishing
  <2>3. CASE at = next /\ kind # "create"
    BY <1>2, <1>4, <2>3 DEF StepOK, Working, Importing, Copying, Publishing
  <2>. QED
    BY <2>1, <2>2, <2>3
<1>8. JobOK' /\ ScheduledOK'
  BY <1>1, <1>5, <1>7 DEF JobOK, IInv, ScheduledOK, Scheduled
<1>9. LateType' /\ LateOK'
  <2>. DEFINE w == [op |-> o, kind |-> kind, id |-> mem[o].id]
  <2>1. w \in [op : Operations, kind : {"create", "patch", "rename"}, id : Nat \cup {None}]
    BY <1>1, RecordTypes
  <2>2. /\ w.kind = "create" => disk[w.op].authorized /\ disk[w.op].attempted
        /\ w.kind = "patch" => disk[w.op].bootstrap # None /\ disk[w.op].commit # None
    BY <1>2
  <2>. HIDE DEF w
  <2>3. late' \subseteq late \cup {w}
    BY DEF w
  <2>. QED
    BY <2>1, <2>2, <2>3 DEF IInv, Types, LateType, DataOK, LateOK
<1>10. CopyTypes' /\ FlagTypes' /\ ReviewedType'
  BY DEF IInv, Types, CopyTypes, FlagTypes, ReviewedType
<1>. QED
  BY <1>6, <1>8, <1>9, <1>10 DEF IInv, Types, DataOK

\* What the runner's write does at GitHub.
LEMMA CreateKeeps ==
    ASSUME IInv, NEW o \in Operations, NEW default \in Branches, Runs(o, "create"),
           Created(o, default), UNCHANGED <<disk, mem, reviewed>>
    PROVE  /\ GitHubTypes' /\ CopiesOK' /\ CreatedIsOnDisk' /\ RepositoryOK'
           /\ repo'.id \in DOMAIN made' /\ made'[repo'.id] = o
           /\ \A i \in DOMAIN made : i \in DOMAIN made' /\ made'[i] = made[i]
<1>1. disk[o].authorized /\ disk[o].attempted
  BY RunningNeed DEF StepOK, Working, Importing, Copying, Publishing
<1>. QED
  BY <1>1, CreatedHolds

LEMMA PatchKeeps ==
    ASSUME IInv, NEW o \in Operations, Runs(o, "patch"), Patchable(o), Patched(o),
           UNCHANGED <<made, disk, mem, reviewed>>
    PROVE  /\ GitHubTypes' /\ CopiesOK' /\ CreatedIsOnDisk' /\ RepositoryOK'
           /\ repo'.id \in DOMAIN made' /\ BranchesKept
<1>1. mem[o].bootstrap # None /\ mem[o].commit # None
  BY RunningNeed DEF StepOK, Working, Importing, Copying, Publishing
<1>. QED
  BY <1>1, PatchedHolds

LEMMA CreateHolds ==
    ASSUME IInv, NEW o \in Operations, Create(o)
    PROVE  IInv'
<1>1. Runs(o, "create") /\ UNCHANGED <<upstream, disk, mem, queue, pauses, fatal, reviewed>>
  BY DEF Create, Asks, Write
<1>2. ASSUME NEW default \in Branches, Created(o, default),
             Goto("failing") \/ job' = [job EXCEPT !.at = "created", !.answer = repo'.id],
             UNCHANGED late
      PROVE  IInv'
  BY <1>1, <1>2, CreateKeeps, WriteHolds
<1>3. ASSUME Goto("failing"), UNCHANGED <<made, repo>>,
             late' \in {late, late \cup {[op |-> o, kind |-> "create", id |-> mem[o].id]}}
      PROVE  IInv'
  BY <1>1, <1>3, SameGitHub, WriteHolds
<1>. QED
  BY <1>2, <1>3 DEF Create, Write

LEMMA PatchBranchHolds ==
    ASSUME IInv, NEW o \in Operations, PatchBranch(o)
    PROVE  IInv'
<1>1. Runs(o, "patch") /\ UNCHANGED <<upstream, disk, mem, queue, pauses, fatal, reviewed>>
  BY DEF PatchBranch, Asks, Write
<1>2. ASSUME Patchable(o), Patched(o), UNCHANGED <<made, late>>,
             Goto("failing") \/ job' = [job EXCEPT !.at = "confirmPatch", !.answer = repo'.id]
      PROVE  IInv'
  BY <1>1, <1>2, PatchKeeps, WriteHolds
<1>3. ASSUME Goto("failing"), UNCHANGED <<made, repo>>,
             late' \in {late, late \cup {[op |-> o, kind |-> "patch", id |-> mem[o].id]}}
      PROVE  IInv'
  BY <1>1, <1>3, SameGitHub, WriteHolds
<1>. QED
  BY <1>2, <1>3 DEF PatchBranch, Write

LEMMA RenameBranchHolds ==
    ASSUME IInv, NEW o \in Operations, RenameBranch(o)
    PROVE  IInv'
<1>1. Runs(o, "rename") /\ UNCHANGED <<upstream, disk, mem, queue, pauses, fatal, reviewed>>
  BY DEF RenameBranch, Asks, Write
<1>2. ASSUME Renamable, Renamed, UNCHANGED <<made, late>>,
             Goto("failing") \/ job' = [job EXCEPT !.at = "confirmRename", !.answer = repo'.id]
      PROVE  IInv'
  BY <1>1, <1>2, RenamedHolds, WriteHolds
<1>3. ASSUME Goto("failing"), UNCHANGED <<made, repo>>,
             late' \in {late, late \cup {[op |-> o, kind |-> "rename", id |-> mem[o].id]}}
      PROVE  IInv'
  BY <1>1, <1>3, SameGitHub, WriteHolds
<1>. QED
  BY <1>2, <1>3 DEF RenameBranch, Write

-----------------------------------------------------------------------------
(* Every step. *)

LEMMA StutterHolds == IInv /\ UNCHANGED vars => IInv'
<1>. SUFFICES ASSUME IInv, UNCHANGED vars PROVE IInv'
  OBVIOUS
<1>1. /\ UNCHANGED <<made, repo, late, upstream, disk, mem, server, reviewed>>
      /\ upstream' \in Versions
  BY DEF vars, github, server, IInv, Types, FlagTypes
<1>2. LateType' /\ LateOK'
  BY <1>1 DEF IInv, Types, LateType, DataOK, LateOK
<1>. QED
  BY <1>1, <1>2, SameGitHub, GitHubHolds

LEMMA RunnerHolds == IInv /\ RunnerStep => IInv'
<1>. SUFFICES ASSUME IInv, RunnerStep PROVE IInv'
  OBVIOUS
<1>1. CASE TakeUp
  BY <1>1, TakeUpHolds
<1>2. ASSUME NEW o \in Operations,
             \/ PinSource(o) \/ Validate(o) \/ Readied(o) \/ Lookup(o) \/ RecordId(o)
             \/ Inspect(o) \/ Copy(o) \/ Publish(o)
      PROVE  IInv'
  BY <1>2, PinSourceHolds, ValidateHolds, ReadiedHolds, LookupHolds, RecordIdHolds, InspectHolds,
     CopyHolds, PublishHolds
<1>3. ASSUME NEW o \in Operations,
             \/ GuardWrite(o, "guardPatch", "patch") \/ ConfirmPatch(o) \/ SetMain(o)
             \/ GuardWrite(o, "guardRename", "rename") \/ ConfirmRename(o)
             \/ Verify(o) \/ Done(o) \/ Fails(o) \/ Stop(o)
      PROVE  IInv'
  BY <1>3, GuardPatchHolds, ConfirmPatchHolds, SetMainHolds, GuardRenameHolds, ConfirmRenameHolds,
     VerifyHolds, DoneHolds, FailsHolds, StopHolds
<1>4. ASSUME NEW o \in Operations, Create(o) \/ PatchBranch(o) \/ RenameBranch(o)
      PROVE  IInv'
  BY <1>4, CreateHolds, PatchBranchHolds, RenameBranchHolds
<1>. QED
  BY <1>1, <1>2, <1>3, <1>4 DEF RunnerStep

LEMMA StepHolds == IInv /\ [Next]_vars => IInv'
<1>. SUFFICES ASSUME IInv, [Next]_vars PROVE IInv'
  OBVIOUS
<1>1. CASE RunnerStep \/ Restart
  BY <1>1, RunnerHolds, RestartHolds
<1>2. ASSUME NEW o \in Operations, Prepare(o) \/ Start(o) \/ Resume(o) \/ Pause(o)
      PROVE  IInv'
  BY <1>2, PrepareHolds, StartHolds, ResumeHolds, PauseHolds
<1>3. CASE SomebodyCreates \/ SomebodyDeletes \/ SourceMoves
  BY <1>3, SomebodyCreatesHolds, SomebodyDeletesHolds, SourceMovesHolds
<1>4. ASSUME NEW b \in Branches, SomebodyPushes(b)
      PROVE  IInv'
  BY <1>4, SomebodyPushesHolds
<1>5. ASSUME NEW w \in late, LateWrite(w)
      PROVE  IInv'
  BY <1>5, LateWriteHolds
<1>6. CASE UNCHANGED vars
  BY <1>6, StutterHolds
<1>. QED
  BY <1>1, <1>2, <1>3, <1>4, <1>5, <1>6 DEF Next

LEMMA Always == Spec => []IInv
<1>1. Init => IInv
  BY InitHolds
<1>2. IInv /\ [Next]_vars => IInv'
  BY StepHolds
<1>. QED
  BY <1>1, <1>2, PTL DEF Spec

-----------------------------------------------------------------------------
(* Types keep through pauses, lost answers, late writes and restarts, and an  *)
(* operation is never in the runner's queue twice.                            *)
THEOREM TypeCorrect == Spec => []TypeOK
<1>1. IInv => TypeOK
  BY TypesAreTypeOK DEF IInv
<1>. QED
  BY <1>1, Always, PTL

(* A repository that carries an operation's nonce was attempted on disk before *)
(* the request that made it was sent, whenever the process ends.               *)
THEOREM AttemptsAreJournalled == Spec => []CreatedIsOnDisk
<1>1. IInv => CreatedIsOnDisk
  BY DEF IInv, DataOK
<1>. QED
  BY <1>1, Always, PTL

(* No repository that somebody else made is adopted, and none ever holds a     *)
(* snapshot of the source, whatever others create, delete and push.            *)
THEOREM OnlyItsOwnIsTakenUp == Spec => []TakesUpOnlyItsOwn
<1>1. IInv => TakesUpOnlyItsOwn
  <2>. SUFFICES ASSUME IInv PROVE TakesUpOnlyItsOwn
    OBVIOUS
  <2>1. \A o \in Operations : mem[o].id # None => made[mem[o].id] = o
    BY DEF IInv, DataOK, CopiesOK, RecordOK
  <2>2. repo # None /\ Creator = Somebody =>
            \A b \in Branches : \A i \in DOMAIN repo[b] : repo[b][i] = Alien
    BY DEF IInv, DataOK, RepositoryOK
  <2>. QED
    BY <2>1, <2>2 DEF TakesUpOnlyItsOwn
<1>. QED
  BY <1>1, Always, PTL

(* What reaches the destination is the version of the source that the user saw *)
(* and started, although later runs read a ref that has moved on.              *)
THEOREM ReviewedIsPublished == Spec => []PublishesWhatWasReviewed
<1>1. IInv => PublishesWhatWasReviewed
  BY DEF IInv, DataOK, RepositoryOK, PublishesWhatWasReviewed
<1>. QED
  BY <1>1, Always, PTL

(* The name has one owner at most: what was authorized, even if its start was  *)
(* answered with an error, is never superseded by a later preparation.         *)
THEOREM NameHasOneOwner == Spec => []OneOwnerOfTheName
<1>1. IInv => OneOwnerOfTheName
  BY DEF IInv, DataOK, CopiesOK, Single, RecordOK, OneOwnerOfTheName
<1>. QED
  BY <1>1, Always, PTL

(* "Complete" is told of a repository only when main holds the reviewed        *)
(* snapshot, and remains true of it through what others push afterwards.       *)
THEOREM CompleteIsPublished == Spec => []CompleteIsTrue
<1>1. IInv => CompleteIsTrue
  BY DEF IInv, DataOK, CopiesOK, RecordOK, OnMain, CompleteIsTrue
<1>. QED
  BY <1>1, Always, PTL

LEMMA NothingIsLost ==
    ASSUME IInv, [Next]_vars, repo # None, repo' # None, repo'.id = repo.id
    PROVE  BranchesKept
<1>1. CASE UNCHANGED <<made, repo, disk, mem, reviewed>>
  BY <1>1, SameGitHub
<1>2. CASE UNCHANGED repo
  <2>. SUFFICES ASSUME NEW b \in Branches
                PROVE  /\ Len(repo'[b]) >= Len(repo[b])
                       /\ SubSeq(repo'[b], 1, Len(repo[b])) = repo[b]
    BY DEF BranchesKept
  <2>1. repo[b] \in Seq(Commits)
    BY RepositoryFields
  <2>. QED
    BY <1>2, <2>1, Prefixes
<1>3. CASE Restart
  BY <1>2, <1>3 DEF Restart, github
<1>4. ASSUME NEW o \in Operations, Prepare(o) \/ Start(o) \/ Resume(o) \/ Pause(o)
      PROVE  BranchesKept
  BY <1>2, <1>4 DEF Prepare, Start, Resume, Pause, github
<1>5. CASE SomebodyCreates
  <2>1. repo'.id = Len(made) + 1 /\ repo.id \in 1..Len(made)
    BY <1>5, RepositoryFields DEF SomebodyCreates
  <2>. QED
    BY <2>1
<1>6. CASE SomebodyDeletes \/ SourceMoves
  BY <1>2, <1>6 DEF SomebodyDeletes, SourceMoves
<1>7. ASSUME NEW b \in Branches, SomebodyPushes(b)
      PROVE  BranchesKept
  BY <1>7, SomebodyPushesKeeps
<1>8. ASSUME NEW w \in late, LateWrite(w)
      PROVE  BranchesKept
  BY <1>8, LateWriteKeeps
<1>9. CASE RunnerStep
  <2>1. CASE TakeUp
    BY <1>2, <2>1 DEF TakeUp, github
  <2>2. ASSUME NEW o \in Operations,
               \/ PinSource(o) \/ Validate(o) \/ Readied(o) \/ Lookup(o) \/ RecordId(o)
               \/ Inspect(o) \/ Copy(o) \/ Publish(o)
        PROVE  BranchesKept
    BY <1>2, <2>2 DEF PinSource, Validate, Readied, Lookup, RecordId, Inspect, Copy, Publish, github
  <2>3. ASSUME NEW o \in Operations,
               \/ GuardWrite(o, "guardPatch", "patch") \/ ConfirmPatch(o) \/ SetMain(o)
               \/ GuardWrite(o, "guardRename", "rename") \/ ConfirmRename(o)
               \/ Verify(o) \/ Done(o) \/ Fails(o) \/ Stop(o)
        PROVE  BranchesKept
    BY <1>2, <2>3 DEF GuardWrite, ConfirmPatch, SetMain, ConfirmRename, Verify, Done, Fails,
       Stop, github
  <2>4. ASSUME NEW o \in Operations, Create(o)
        PROVE  BranchesKept
    BY <1>2, <2>4 DEF Create, Write, Creatable
  <2>5. ASSUME NEW o \in Operations, PatchBranch(o)
        PROVE  BranchesKept
    BY <1>2, <2>5, PatchKeeps DEF PatchBranch, Asks, Write
  <2>6. ASSUME NEW o \in Operations, RenameBranch(o)
        PROVE  BranchesKept
    BY <1>2, <2>6, RenamedHolds DEF RenameBranch, Write
  <2>. QED
    BY <1>9, <2>1, <2>2, <2>3, <2>4, <2>5, <2>6 DEF RunnerStep
<1>10. CASE UNCHANGED vars
  BY <1>2, <1>10 DEF vars, github
<1>. QED
  BY <1>3, <1>4, <1>5, <1>6, <1>7, <1>8, <1>9, <1>10 DEF Next

(* Nobody's commits at the destination are lost to the importer: not to its    *)
(* PATCH, not to its rename, and not to one of them that is carried out late.  *)
THEOREM NothingOverwritten == Spec => NothingIsOverwritten
<1>1. IInv /\ [Next]_vars =>
          [repo # None /\ repo' # None /\ repo'.id = repo.id =>
              \A b \in Branches : \E c \in Branches :
                  /\ Len(repo'[c]) >= Len(repo[b])
                  /\ SubSeq(repo'[c], 1, Len(repo[b])) = repo[b]]_vars
  BY NothingIsLost DEF BranchesKept
<1>. QED
  BY <1>1, Always, PTL DEF Spec, NothingIsOverwritten
=============================================================================
