-------------------------- MODULE RepositoryCreation --------------------------
(***************************************************************************)
(* Copying a source snapshot into a new private repository on GitHub       *)
(* (server/github/repository-creation.mjs).  One runner works through the  *)
(* queue and writes a checkpoint to the journal around every request that  *)
(* changes something, so that after a crash, a lost answer or a pause the  *)
(* same operation can be resumed: it must find what it has already done,   *)
(* and must never take up or change what somebody else did.                *)
(*                                                                         *)
(* All operations here are one account's, for one destination name.  A     *)
(* commit is Boot (GitHub's initial commit), Alien (somebody else's) or    *)
(* the version of the source that it is a snapshot of.                     *)
(***************************************************************************)
EXTENDS Naturals, Sequences

CONSTANTS
    Operations,   \* operations that may be prepared, numbered as the journal lists them
    Boot, Alien,  \* commits: GitHub's initial one, somebody else's
    Somebody,     \* the creator of repositories that are not Citadel's
    None,         \* no operation, repository, branch, version or step
    MaxVersion,   \* bound: versions of the source's ref
    MaxForeign,   \* bound: what others do at the destination
    MaxLosses,    \* bound: failed or lost calls, failed writes, restarts
    MaxPauses     \* bound: pauses

ASSUME CreationAssumption ==
    /\ Operations \subseteq Nat /\ Somebody \notin Nat
    /\ None \notin Nat \cup {Somebody, "main", "other"}
    /\ MaxVersion \in Nat \ {0}
    /\ Boot # Alien /\ {Boot, Alien} \cap (Nat \cup {None}) = {}
    /\ MaxForeign \in Nat /\ MaxLosses \in Nat /\ MaxPauses \in Nat

Versions == 1..MaxVersion
Branches == {"main", "other"}

VARIABLES
    made,      \* GitHub: who created each repository that ever had the name
    repo,      \* GitHub: the one that has it, [id, default, main, other], or None
    late,      \* GitHub: writes [op, kind, id] whose caller gave up on the answer
    upstream,  \* GitHub: the version the source's ref is at
    disk,      \* the journal
    mem,       \* what the server believes of each operation
    queue,     \* operations the runner has still to take up
    job,       \* the operation it runs, its step, and the repository of the last answer
    pauses,    \* operations that somebody asked to pause
    fatal,     \* the journal could not be written
    reviewed,  \* the version each operation showed when the user started it
    foreign, losses, paused   \* counters of the bounds

github == <<made, repo, late, upstream>>
server == <<disk, mem, queue, job, pauses, fatal>>
counts == <<foreign, losses, paused>>
vars   == <<github, server, reviewed, counts>>

\* States preparing, creating, copying and verifying are "active"; paused and
\* failed, which differ in their message only, are "stopped".
Absent == [state |-> "absent", superseded |-> FALSE, authorized |-> FALSE, attempted |-> FALSE,
           id |-> None, source |-> None, bootstrap |-> None, commit |-> None,
           refIntent |-> FALSE, published |-> FALSE, renameIntent |-> FALSE, mainPublished |-> FALSE]
Idle   == [op |-> None, at |-> "idle", answer |-> None]

Init ==
    /\ made = <<>> /\ repo = None /\ late = {} /\ upstream = 1
    /\ disk = [o \in Operations |-> Absent]
    /\ mem = [o \in Operations |-> Absent]
    /\ queue = <<>> /\ job = Idle
    /\ pauses = {} /\ fatal = FALSE
    /\ reviewed = [o \in Operations |-> None]
    /\ foreign = 0 /\ losses = 0 /\ paused = 0

Lose == losses < MaxLosses /\ losses' = losses + 1

-----------------------------------------------------------------------------
(* GitHub: a branch is the sequence of its commits, empty if there is none. *)

Tip(branch) == IF branch = <<>> THEN None ELSE branch[Len(branch)]
Creator      == made[repo.id]

Creatable == repo = None
Created(o, default) ==
    /\ made' = Append(made, o)
    /\ repo' = [id |-> Len(made'), default |-> default,
                main |-> IF default = "main" THEN <<Boot>> ELSE <<>>,
                other |-> IF default = "other" THEN <<Boot>> ELSE <<>>]

\* The objects of the commit are in the repository they were uploaded to.
HasCommit(id) == repo # None /\ repo.id = id

\* Fault: force: true.
PatchableByForce(o) == HasCommit(mem[o].id) /\ repo[mem[o].bootstrap] # <<>>
\* PATCH of the bootstrap branch with force: false.
Patchable(o) ==
    /\ HasCommit(mem[o].id)
    /\ Tip(repo[mem[o].bootstrap]) \in {Boot, mem[o].commit}
Patched(o) ==
    LET b == mem[o].bootstrap
    IN  repo' = [repo EXCEPT ![b] = IF Tip(@) = Boot THEN Append(@, mem[o].commit) ELSE <<Boot, mem[o].commit>>]

Renamable == repo # None /\ repo.other # <<>> /\ repo.main = <<>>
Renamed == repo' = [repo EXCEPT !.main = repo.other, !.other = <<>>, !.default = "main"]

\* What others do: they create a repository of that name, in the place of one
\* they delete if need be, push, delete, and the source moves on.
SomebodyCreates ==
    /\ foreign < MaxForeign
    /\ made' = Append(made, Somebody)
    /\ repo' = [id |-> Len(made'), default |-> "main", main |-> <<Alien>>, other |-> <<>>]
    /\ foreign' = foreign + 1
    /\ UNCHANGED <<late, upstream, server, reviewed, losses, paused>>

SomebodyPushes(b) ==
    /\ foreign < MaxForeign /\ repo # None
    /\ repo' = [repo EXCEPT ![b] = Append(IF @ = <<>> THEN repo[repo.default] ELSE @, Alien)]
    /\ foreign' = foreign + 1
    /\ UNCHANGED <<made, late, upstream, server, reviewed, losses, paused>>

SomebodyDeletes ==
    /\ foreign < MaxForeign /\ repo # None
    /\ repo' = None
    /\ foreign' = foreign + 1
    /\ UNCHANGED <<made, late, upstream, server, reviewed, losses, paused>>

SourceMoves ==
    /\ upstream < MaxVersion
    /\ upstream' = upstream + 1
    /\ UNCHANGED <<made, repo, late, server, reviewed, counts>>

\* A write that its caller gave up on is carried out after all.
LateWrite(w) ==
    /\ w \in late
    /\ late' = late \ {w}
    /\ \/ /\ w.kind = "create" /\ Creatable
          /\ \E default \in Branches : Created(w.op, default)
       \/ /\ w.kind = "patch" /\ repo # None /\ repo.id = w.id
          /\ Patchable(w.op) /\ Patched(w.op)
          /\ UNCHANGED made
       \/ /\ w.kind = "rename" /\ repo # None /\ repo.id = w.id
          /\ Renamable /\ Renamed
          /\ UNCHANGED made
    /\ UNCHANGED <<upstream, server, reviewed, counts>>

-----------------------------------------------------------------------------
(* The journal. *)

\* Fault: forgets the operation that is running.
ScheduledInQueue(o) == \E i \in DOMAIN queue : queue[i] = o
Scheduled(o) == job.op = o \/ \E i \in DOMAIN queue : queue[i] = o

\* What the server believes becomes records; it is saved, or that fails.
Saved(records)   == mem' = records /\ disk' = records /\ UNCHANGED losses
Unsaved(records) == mem' = records /\ Lose /\ UNCHANGED disk

\* checkpoint, by the runner: if it fails, run() catches the error.
Checkpoint(o, record, next) ==
    \/ Saved([mem EXCEPT ![o] = record]) /\ job' = [job EXCEPT !.at = next]
    \/ Unsaved([mem EXCEPT ![o] = record]) /\ job' = [job EXCEPT !.at = "failing"]

\* Fault: leaves the request to pause standing.
EnqueueStillPaused(o) == queue' = Append(queue, o) /\ UNCHANGED pauses
Enqueue(o) == queue' = Append(queue, o) /\ pauses' = pauses \ {o}

\* prepare and start save the record and then enqueue the operation; if the write
\* fails the request is answered with an error, and that is all.
SaveAndEnqueue(o, records) ==
    \/ Saved(records) /\ Enqueue(o)
    \/ Unsaved(records) /\ UNCHANGED <<queue, pauses>>

-----------------------------------------------------------------------------
(* Requests of the user; serial() runs them between two checkpoints. *)

\* Fault: an authorized operation may be replaced as well.
ReplaceableIfIdle(o) == ~Scheduled(o) /\ mem[o].state \in {"ready", "stopped"}
\* Only what has not been started gives way to a newer preparation.
Replaceable(o) ==
    /\ ~mem[o].authorized /\ ~mem[o].attempted /\ mem[o].id = None
    /\ ~Scheduled(o)
    /\ mem[o].state \in {"ready", "stopped"}

Prepare(o) ==
    LET reservations == {p \in Operations : mem[p].state # "absent" /\ ~mem[p].superseded}
    IN  /\ ~fatal
        /\ mem[o].state = "absent" /\ \A p \in Operations : p < o => mem[p].state # "absent"
        /\ \A p \in reservations : Replaceable(p)
        /\ SaveAndEnqueue(o, [p \in Operations |->
              IF p = o THEN [Absent EXCEPT !.state = "active"]
              ELSE IF p \in reservations
                   THEN [mem[p] EXCEPT !.superseded = TRUE, !.state = "stopped"]
                   ELSE mem[p]])
        /\ UNCHANGED <<github, job, fatal, reviewed, foreign, paused>>

Start(o) ==
    /\ ~fatal /\ ~mem[o].superseded
    /\ ~Scheduled(o)
    /\ mem[o].state = "ready"
    /\ SaveAndEnqueue(o, [mem EXCEPT ![o].authorized = TRUE, ![o].state = "active"])
    /\ reviewed' = [reviewed EXCEPT ![o] = mem[o].source]
    /\ UNCHANGED <<github, job, fatal, foreign, paused>>

\* After a fatal error resume first proves that the journal can be written.
Resume(o) ==
    /\ ~mem[o].superseded
    /\ ~Scheduled(o)
    /\ mem[o].state = "stopped"
    /\ mem' = [mem EXCEPT ![o].state = "active"]
    /\ \/ disk' = mem' /\ Enqueue(o) /\ UNCHANGED losses
       \/ /\ Lose
          /\ disk' = IF fatal THEN mem ELSE disk
          /\ UNCHANGED <<queue, pauses>>
    /\ fatal' = FALSE
    /\ UNCHANGED <<github, job, reviewed, foreign, paused>>

\* pause takes effect at the next request of the runner.
Pause(o) ==
    /\ paused < MaxPauses /\ paused' = paused + 1
    /\ ~fatal /\ ~mem[o].superseded
    /\ mem[o].state \notin {"absent", "complete"}
    /\ pauses' = pauses \cup {o}
    /\ LET records == IF Scheduled(o) THEN mem ELSE [mem EXCEPT ![o].state = "stopped"]
       IN  Saved(records) \/ Unsaved(records)
    /\ UNCHANGED <<github, queue, job, fatal, reviewed, foreign>>

-----------------------------------------------------------------------------
(* The runner, one step for each request or checkpoint another can overtake. *)

Runs(o, step) == job.op = o /\ job.at = step
\* check, before every request: neither paused nor signed out.
Asks(o, step) == Runs(o, step) /\ o \notin pauses
Goto(next)    == job' = [job EXCEPT !.at = next]
Reads(next)   == Goto(next) /\ UNCHANGED <<disk, mem, losses>>

TakeUp ==
    /\ job = Idle /\ queue # <<>>
    /\ job' = [Idle EXCEPT !.op = queue[1], !.at = "pin"]
    /\ queue' = Tail(queue)
    /\ UNCHANGED <<github, disk, mem, pauses, fatal, reviewed, counts>>

\* Fault: resolves the ref again whenever it is resumed.
PinAgain(o) == upstream
\* The version is resolved once; later runs ask for that very commit.
Pin(o) == IF mem[o].source = None THEN upstream ELSE mem[o].source
PinSource(o) ==
    /\ Asks(o, "pin")
    /\ Checkpoint(o, [mem[o] EXCEPT !.source = Pin(o), !.state = "active"], "validate")
    /\ UNCHANGED <<github, queue, pauses, fatal, reviewed, foreign, paused>>

Validate(o) ==
    /\ Asks(o, "validate")
    /\ IF mem[o].authorized THEN Reads("lookup")
       ELSE Checkpoint(o, [mem[o] EXCEPT !.state = "ready"], "ready")
    /\ UNCHANGED <<github, queue, pauses, fatal, reviewed, foreign, paused>>

Readied(o) ==
    /\ Runs(o, "ready")
    /\ job' = IF o \in pauses THEN [job EXCEPT !.at = "failing"] ELSE Idle
    /\ UNCHANGED <<github, disk, mem, queue, pauses, fatal, reviewed, counts>>

\* Fault: the name is proof enough.
OwnByName(o) == repo # None
\* validateDestination: the id if it is known, and the nonce in the description.
Own(o) == /\ repo # None /\ Creator = o
          /\ mem[o].id \in {None, repo.id}

\* Fault: sends the request and remembers it afterwards.
LookupUnrecorded(o) ==
    /\ Asks(o, "lookup")
    /\ IF repo # None
       THEN IF mem[o].attempted /\ Own(o)
            THEN Checkpoint(o, [mem[o] EXCEPT !.id = repo.id], "inspect")
            ELSE Reads("failing")
       ELSE IF mem[o].id # None THEN Reads("failing") ELSE Reads("create")
    /\ UNCHANGED <<github, queue, pauses, fatal, reviewed, foreign, paused>>

\* Whoever finds the repository adopts it if its creation was attempted.
Lookup(o) ==
    /\ Asks(o, "lookup")
    /\ IF repo # None
       THEN IF mem[o].attempted /\ Own(o)
            THEN Checkpoint(o, [mem[o] EXCEPT !.id = repo.id], "inspect")
            ELSE Reads("failing")
       ELSE IF mem[o].id # None THEN Reads("failing")
       ELSE Checkpoint(o, [mem[o] EXCEPT !.attempted = TRUE], "create")
    /\ UNCHANGED <<github, queue, pauses, fatal, reviewed, foreign, paused>>

\* A write of this kind: accepted, with or without an answer; refused; or not
\* carried out, unless later.
Write(o, kind, accepted, effect, next) ==
    /\ \/ /\ accepted /\ effect
          /\ job' = [job EXCEPT !.at = next, !.answer = repo'.id]
          /\ UNCHANGED <<late, losses>>
       \/ accepted /\ effect /\ Goto("failing") /\ Lose /\ UNCHANGED late
       \/ ~accepted /\ Goto("failing") /\ UNCHANGED <<made, repo, late, losses>>
       \/ /\ Goto("failing") /\ Lose
          /\ late' \in {late, late \cup {[op |-> o, kind |-> kind, id |-> mem[o].id]}}
          /\ UNCHANGED <<made, repo>>
    /\ UNCHANGED <<upstream, disk, mem, queue, pauses, fatal, reviewed, foreign, paused>>

Create(o) ==
    /\ Asks(o, "create")
    /\ Write(o, "create", Creatable, \E default \in Branches : Created(o, default), "created")

\* The answer is checkpointed although somebody may have asked to pause.
RecordId(o) ==
    /\ Runs(o, "created")
    /\ Checkpoint(o, [mem[o] EXCEPT !.id = job.answer], "inspect")
    /\ UNCHANGED <<github, queue, pauses, fatal, reviewed, foreign, paused>>

\* The default branch must hold GitHub's initial commit and nothing else.
Inspect(o) ==
    /\ Asks(o, "inspect")
    /\ IF ~Own(o) THEN Reads("failing")
       ELSE IF mem[o].bootstrap # None THEN Reads("objects")
       ELSE IF repo[repo.default] # <<Boot>> THEN Reads("failing")
       ELSE Checkpoint(o, [mem[o] EXCEPT !.bootstrap = repo.default], "objects")
    /\ UNCHANGED <<github, queue, pauses, fatal, reviewed, foreign, paused>>

\* guard: the destination is as this operation left it, or as a write of it
\* whose answer it has not seen would leave it.
Guard(o) ==
    LET r     == mem[o]
        main  == Tip(repo.main)
        other == Tip(repo.other)
        Here(head) == IF r.published \/ r.mainPublished THEN head = r.commit
                      ELSE head = Boot \/ (r.refIntent /\ head = r.commit)
    IN  /\ Own(o)
        /\ r.bootstrap # None =>
              /\ IF r.mainPublished THEN repo.default = "main"
                 ELSE repo.default = r.bootstrap \/ (r.renameIntent /\ repo.default = "main")
              /\ IF r.bootstrap = "main" THEN Here(main)
                 ELSE IF r.mainPublished THEN main = r.commit /\ other = None
                 ELSE IF r.renameIntent
                 THEN /\ r.published
                      /\ {main, other} \subseteq {None, r.commit} /\ {main, other} # {None}
                 ELSE main = None /\ Here(other)

\* All objects and the commit, whose hash is determined by what is in it.
Copy(o) ==
    /\ Asks(o, "objects")
    /\ IF Guard(o) THEN Checkpoint(o, [mem[o] EXCEPT !.commit = mem[o].source], "publish")
       ELSE Reads("failing")
    /\ UNCHANGED <<github, queue, pauses, fatal, reviewed, foreign, paused>>

Publish(o) ==
    /\ Asks(o, "publish")
    /\ IF ~Guard(o) THEN Reads("failing")
       ELSE IF mem[o].mainPublished THEN Reads("verify")
       ELSE IF mem[o].published THEN Reads("main")
       ELSE IF Tip(repo[mem[o].bootstrap]) = mem[o].commit
       THEN Checkpoint(o, [mem[o] EXCEPT !.published = TRUE], "main")
       ELSE Checkpoint(o, [mem[o] EXCEPT !.refIntent = TRUE], "guardPatch")
    /\ UNCHANGED <<github, queue, pauses, fatal, reviewed, foreign, paused>>

GuardWrite(o, step, next) ==
    /\ Asks(o, step)
    /\ Reads(IF Guard(o) THEN next ELSE "failing")
    /\ UNCHANGED <<github, queue, pauses, fatal, reviewed, foreign, paused>>

PatchBranch(o) ==
    /\ Asks(o, "patch")
    /\ Write(o, "patch", Patchable(o), Patched(o) /\ UNCHANGED made, "confirmPatch")

ConfirmPatch(o) ==
    /\ Asks(o, "confirmPatch")
    /\ IF repo # None /\ Tip(repo[mem[o].bootstrap]) = mem[o].commit
       THEN Checkpoint(o, [mem[o] EXCEPT !.published = TRUE], "main")
       ELSE Reads("failing")
    /\ UNCHANGED <<github, queue, pauses, fatal, reviewed, foreign, paused>>

\* If the account's default branch is not main, it is renamed.
SetMain(o) ==
    /\ Asks(o, "main")
    /\ IF ~Guard(o) THEN Reads("failing")
       ELSE IF mem[o].bootstrap = "main"
       THEN Checkpoint(o, [mem[o] EXCEPT !.mainPublished = TRUE], "verify")
       ELSE IF repo.main = <<>>
       THEN Checkpoint(o, [mem[o] EXCEPT !.renameIntent = TRUE], "guardRename")
       ELSE Reads("confirmRename")
    /\ UNCHANGED <<github, queue, pauses, fatal, reviewed, foreign, paused>>

RenameBranch(o) ==
    /\ Asks(o, "rename")
    /\ Write(o, "rename", Renamable, Renamed /\ UNCHANGED made, "confirmRename")

\* Main alone is there, and at the snapshot.
Settled(o) == /\ Guard(o)
              /\ repo.default = "main" /\ Tip(repo.main) = mem[o].commit
              /\ repo.other = <<>> \/ mem[o].bootstrap = "main"

ConfirmRename(o) ==
    /\ Asks(o, "confirmRename")
    /\ IF Settled(o) THEN Checkpoint(o, [mem[o] EXCEPT !.mainPublished = TRUE], "verify")
       ELSE Reads("failing")
    /\ UNCHANGED <<github, queue, pauses, fatal, reviewed, foreign, paused>>

Verify(o) ==
    /\ Asks(o, "verify")
    /\ IF Settled(o) THEN Checkpoint(o, [mem[o] EXCEPT !.state = "complete"], "done")
       ELSE Reads("failing")
    /\ UNCHANGED <<github, queue, pauses, fatal, reviewed, foreign, paused>>

Done(o) ==
    /\ Runs(o, "done")
    /\ job' = Idle
    /\ UNCHANGED <<github, disk, mem, queue, pauses, fatal, reviewed, counts>>

\* A request or its check fails, because of a pause or for any other reason.
Fails(o) ==
    /\ job.op = o /\ job.at \notin {"created", "ready", "done", "failing"}
    /\ IF o \in pauses THEN UNCHANGED losses ELSE Lose
    /\ Goto("failing")
    /\ UNCHANGED <<github, disk, mem, queue, pauses, fatal, reviewed, foreign, paused>>

\* run's catch: a checkpoint again; without it nothing more is sent to GitHub.
Stop(o) ==
    /\ Runs(o, "failing")
    /\ job' = Idle
    /\ \/ /\ Saved([mem EXCEPT ![o].state = "stopped"])
          /\ UNCHANGED <<queue, fatal>>
       \/ /\ Unsaved([p \in Operations |-> IF p = o \/ mem[p].state = "active"
                                           THEN [mem[p] EXCEPT !.state = "stopped"] ELSE mem[p]])
          /\ fatal' = TRUE
          /\ queue' = <<>>
    /\ UNCHANGED <<github, pauses, reviewed, foreign, paused>>

\* The process ends, and initialize reads the journal.
Restart ==
    /\ Lose
    /\ mem' = [o \in Operations |-> IF disk[o].state \in {"absent", "complete"} THEN disk[o]
                                    ELSE [disk[o] EXCEPT !.state = "stopped"]]
    /\ disk' = mem'
    /\ queue' = <<>> /\ job' = Idle /\ pauses' = {} /\ fatal' = FALSE
    /\ UNCHANGED <<github, reviewed, foreign, paused>>

-----------------------------------------------------------------------------
RunnerStep ==
    \/ TakeUp
    \/ \E o \in Operations :
          \/ PinSource(o) \/ Validate(o) \/ Readied(o) \/ Lookup(o) \/ Create(o) \/ RecordId(o)
          \/ Inspect(o) \/ Copy(o) \/ Publish(o)
          \/ GuardWrite(o, "guardPatch", "patch") \/ PatchBranch(o) \/ ConfirmPatch(o)
          \/ SetMain(o) \/ GuardWrite(o, "guardRename", "rename") \/ RenameBranch(o) \/ ConfirmRename(o)
          \/ Verify(o) \/ Done(o) \/ Fails(o) \/ Stop(o)

Next ==
    \/ RunnerStep \/ Restart
    \/ \E o \in Operations : Prepare(o) \/ Start(o) \/ Resume(o) \/ Pause(o)
    \/ SomebodyCreates \/ SomebodyDeletes \/ SourceMoves
    \/ \E b \in Branches : SomebodyPushes(b)
    \/ \E w \in late : LateWrite(w)

\* The runner runs, and people come back to an operation that was stopped.
Fairness == WF_vars(RunnerStep) /\ \A o \in Operations : SF_vars(Resume(o))

Spec == Init /\ [][Next]_vars /\ Fairness
-----------------------------------------------------------------------------
Commits == {Boot, Alien} \cup Versions
Steps   == {"idle", "pin", "validate", "ready", "lookup", "create", "created", "inspect", "objects",
            "publish", "guardPatch", "patch", "confirmPatch", "main", "guardRename", "rename",
            "confirmRename", "verify", "done", "failing"}
Records == [state : {"absent", "active", "ready", "stopped", "complete"},
            superseded : BOOLEAN, authorized : BOOLEAN, attempted : BOOLEAN,
            id : Nat \cup {None}, source : Versions \cup {None}, bootstrap : Branches \cup {None},
            commit : Versions \cup {None}, refIntent : BOOLEAN, published : BOOLEAN,
            renameIntent : BOOLEAN, mainPublished : BOOLEAN]

\* Every variable keeps its type, and an operation is scheduled once.
TypeOK ==
    /\ made \in Seq(Operations \cup {Somebody})
    /\ repo = None \/ repo \in [id : DOMAIN made, default : Branches,
                               main : Seq(Commits), other : Seq(Commits)]
    /\ late \subseteq [op : Operations, kind : {"create", "patch", "rename"}, id : Nat \cup {None}]
    /\ upstream \in Versions
    /\ disk \in [Operations -> Records] /\ mem \in [Operations -> Records]
    /\ job \in [op : Operations \cup {None}, at : Steps, answer : Nat \cup {None}]
    /\ pauses \subseteq Operations /\ fatal \in BOOLEAN
    /\ reviewed \in [Operations -> Versions \cup {None}]
    /\ queue \in Seq(Operations)
    /\ \A i \in DOMAIN queue : queue[i] # job.op /\ \A j \in DOMAIN queue : queue[i] = queue[j] => i = j

\* Whatever is on GitHub under an operation's nonce, the journal on disk already
\* says that it was authorized and attempted: no crash leaves a repository that
\* the operation would later refuse as somebody else's.
CreatedIsOnDisk ==
    \A i \in DOMAIN made : \A o \in Operations :
        made[i] = o => disk[o].authorized /\ disk[o].attempted

\* An operation takes up only a repository that itself created, and none but
\* such a repository ever holds a snapshot ("Citadel will not adopt or overwrite
\* it", repository-creation.mjs:78).
TakesUpOnlyItsOwn ==
    /\ \A o \in Operations : mem[o].id # None => made[mem[o].id] = o
    /\ repo # None /\ Creator = Somebody =>
          \A b \in Branches : \A i \in DOMAIN repo[b] : repo[b][i] = Alien

\* What is published is the version that was reviewed when the user started the
\* operation, however far the source has moved on over pauses and restarts.
PublishesWhatWasReviewed ==
    repo # None => \A b \in Branches : \A i \in DOMAIN repo[b] :
        repo[b][i] \in Versions => repo[b][i] = reviewed[Creator]

\* Of the operations for one destination at most one was ever authorized.
OneOwnerOfTheName ==
    \A o, p \in Operations : mem[o].authorized /\ mem[p].authorized => o = p

\* An operation that says it is complete has put the reviewed snapshot on main,
\* its repository's default branch, where it stays while the repository does.
CompleteIsTrue ==
    \A o \in Operations :
        mem[o].state = "complete" /\ repo # None /\ repo.id = mem[o].id =>
            /\ repo.default = "main"
            /\ \E i \in DOMAIN repo.main : repo.main[i] = reviewed[o]

\* No step of the importer, late ones included, loses a commit that a branch
\* held: a branch only grows, or takes its commits along to another name.
NothingIsOverwritten ==
    [][repo # None /\ repo' # None /\ repo'.id = repo.id =>
          \A b \in Branches : \E c \in Branches :
              /\ Len(repo'[c]) >= Len(repo[b])
              /\ SubSeq(repo'[c], 1, Len(repo[b])) = repo[b]]_vars

\* The write of the journal failed in start, resume or prepare: those do not
\* handle it, and until a restart or a pause, which stops it, the operation can
\* be neither started nor resumed (README.md, limits).
Wedged(o) == mem[o].state = "active" /\ ~Scheduled(o)

\* Once failures end, an operation that was started and that people resume
\* ends in a complete copy, unless others interfered at the destination.
StartedCompletes ==
    \A o \in Operations :
        disk[o].authorized ~> mem[o].state = "complete" \/ foreign > 0 \/ Wedged(o)
=============================================================================
