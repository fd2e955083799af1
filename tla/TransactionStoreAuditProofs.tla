-------------------- MODULE TransactionStoreAuditProofs --------------------
(***************************************************************************)
(* Proofs about what TransactionStore remembers of finished work, for      *)
(* every set of transactions and files and every retention minimum: the    *)
(* audit log, the outcome in the manifest, and what retention deletes.     *)
(***************************************************************************)
EXTENDS TransactionStoreProofs, WellFoundedInduction

Has(lines, event) == \E i \in DOMAIN lines : lines[i] = event

\* What a manifest j and the lines of its transaction say together.
Told(j, lines, generated) ==
    /\ \A i, k \in DOMAIN lines : lines[i] = lines[k] => i = k
    /\ j.status \in Outcomes /\ Has(lines, j.status) => lines[Len(lines)] = j.status
    /\ j.status \in Outcomes /\ j.audited => Has(lines, j.status)
    /\ generated = 0 \/ j.status \in {"preparing", "authorized", "committing"} => lines = <<>>
    /\ j.status = "failed" /\ j.recovery => \A i \in DOMAIN lines : lines[i] = "failed"
    /\ j.status \in {"committed", "reverting"} => ~Has(lines, "rolled_back")

\* A finished transaction whose outcome the log lacks.
Untold(j, lines) == Finished(j) /\ ~Has(lines, j.status)

AllTold == \A t \in Txns : Told(journal[t], audit[t], born[t])

\* Whoever finishes keeps the lease until the log has its outcome.
UntoldHoldsLease == \A t \in Txns : Untold(journal[t], audit[t]) => lease.owner = t

\* Start-up completes the log of a journal before it leaves it, but for those
\* it passes over, which retention passes over too.
ScannedIsTold ==
    stage = "startup" =>
        \A t \in Txns \ scan : Untold(journal[t], audit[t]) => Refused(journal[t])

AInv == AllTold /\ UntoldHoldsLease /\ ScannedIsTold

\* The three things a step may do to one transaction that has no outcome yet,
\* and to one that has.
Works(j, lines, j2, lines2) ==
    /\ lines2 = lines
    /\ \/ /\ j2.status = j.status /\ j2.audited = j.audited
          /\ j2.recovery = j.recovery \/ (Open(j) /\ j2.recovery)
       \/ j.status = "none" /\ lines = <<>> /\ j2.status = "preparing"
       \/ /\ j.status \in {"preparing", "authorized"}
          /\ j2.status \in {"preparing", "authorized", "committing"}
       \/ j.status = "committed" /\ j2.status = "reverting"

Closes(j, lines, j2, lines2) ==
    /\ \/ j.status \in {"preparing", "authorized"} /\ j2.status \in {"failed", "abandoned"}
       \/ j.status = "committing"
       \/ j.status = "failed" /\ j.recovery /\ j2.status \in {"committed", "rolled_back"}
       \/ j.status = "reverting" /\ j2.status = "rolled_back"
    /\ j2.status \in Outcomes
    /\ j2.recovery => j2.status = "failed"
    /\ lines2 = lines \/ lines2 = Append(lines, j2.status)
    /\ j2.audited => lines2 # lines

Completes(j, lines, j2, lines2) ==
    /\ Finished(j)
    /\ j2.status = j.status /\ j2.recovery = j.recovery
    /\ lines2 = lines \/ (~Has(lines, j.status) /\ lines2 = Append(lines, j.status))
    /\ j2.audited => j.audited \/ Has(lines2, j.status)

Turns(j, lines, j2, lines2) ==
    \/ Works(j, lines, j2, lines2)
    \/ Closes(j, lines, j2, lines2)
    \/ Completes(j, lines, j2, lines2)

\* OutcomeIsFinal and RetentionIsSafe, of one step.
KeepsOutcomes ==
    \A t \in Txns :
        Finished(journal[t]) =>
            \/ journal'[t].status \in {journal[t].status, "none"} /\ ~journal'[t].recovery
            \/ journal[t].status = "committed" /\ journal'[t].status = "reverting"

RemovesSafely ==
    \A t \in Txns :
        journal[t].status # "none" /\ journal'[t].status = "none" =>
            /\ IF Open(journal[t])
               THEN Len(audit'[t]) > Len(audit[t])
               ELSE \E i \in DOMAIN audit'[t] : audit'[t][i] = journal[t].status
            /\ ~secret[t].restoring
            /\ Cardinality({u \in Txns : Finished(journal'[u]) /\ born[u] > born[t]})
                  >= MinimumPerTarget

\* The step of SaveJournal that a step is.
phases    == [t \in Txns |-> PhaseOf(t)]
Simulates == Journal!Next \/ phases' = phases

StepIsSafe == AInv' /\ KeepsOutcomes /\ RemovesSafely /\ Simulates

-----------------------------------------------------------------------------
(* One transaction. *)

LEMMA AppendHas ==
    ASSUME NEW lines \in Seq(Outcomes), NEW event \in Outcomes
    PROVE  /\ Append(lines, event) \in Seq(Outcomes)
           /\ Append(lines, event) # lines
           /\ Len(Append(lines, event)) = Len(lines) + 1
           /\ DOMAIN Append(lines, event) = 1..(Len(lines) + 1)
           /\ DOMAIN lines = 1..Len(lines)
           /\ \A i \in DOMAIN lines : Append(lines, event)[i] = lines[i]
           /\ Append(lines, event)[Len(lines) + 1] = event
           /\ \A e : Has(Append(lines, event), e) <=> Has(lines, e) \/ e = event
BY DEF Has

LEMMA WorkTells ==
    ASSUME NEW j \in JournalType, NEW lines \in Seq(Outcomes), NEW generated,
           NEW j2 \in JournalType, NEW lines2, NEW generated2,
           Told(j, lines, generated), Works(j, lines, j2, lines2),
           generated2 = 0 => generated = 0
    PROVE  Told(j2, lines2, generated2)
BY DEF Told, Works, Open, Finished, Has, Outcomes

LEMMA CloseTells ==
    ASSUME NEW j \in JournalType, NEW lines \in Seq(Outcomes), NEW generated,
           NEW j2 \in JournalType, NEW lines2, NEW generated2,
           Told(j, lines, generated), Closes(j, lines, j2, lines2), generated2 # 0
    PROVE  /\ Told(j2, lines2, generated2)
           /\ ~Has(lines, j2.status)
<1>1. ~Has(lines, j2.status)
  BY DEF Told, Closes, Has, Outcomes
<1>2. CASE lines2 = lines
  BY <1>1, <1>2 DEF Told, Closes, Has, Outcomes
<1>3. CASE lines2 = Append(lines, j2.status)
  <2>1. \A i, k \in DOMAIN lines2 : lines2[i] = lines2[k] => i = k
    BY <1>1, <1>3, AppendHas DEF Told, Closes, Has
  <2>2. Has(lines2, j2.status) /\ lines2[Len(lines2)] = j2.status
    BY <1>3, AppendHas DEF Closes
  <2>3. j2.status = "failed" /\ j2.recovery => \A i \in DOMAIN lines2 : lines2[i] = "failed"
    <3>1. j2.status = "failed" => lines = <<>>
      BY DEF Told, Closes
    <3>. QED  BY <1>3, <3>1
  <2>4. j2.status \in {"committed", "reverting"} => ~Has(lines2, "rolled_back")
    <3>. SUFFICES ASSUME j2.status = "committed" PROVE ~Has(lines2, "rolled_back")
      BY DEF Closes, Outcomes
    <3>1. ~Has(lines, "rolled_back")
      BY DEF Told, Closes, Has
    <3>2. \A e : Has(lines2, e) <=> Has(lines, e) \/ e = "committed"
      BY <1>3, AppendHas DEF Outcomes
    <3>. QED  BY <3>1, <3>2
  <2>5. j2.status \notin {"preparing", "authorized", "committing"}
    BY DEF Closes, Outcomes
  <2>. QED  BY <1>1, <2>1, <2>2, <2>3, <2>4, <2>5 DEF Told
<1>. QED  BY <1>1, <1>2, <1>3 DEF Closes

LEMMA CompletionTells ==
    ASSUME NEW j \in JournalType, NEW lines \in Seq(Outcomes), NEW generated,
           NEW j2 \in JournalType, NEW lines2, NEW generated2,
           Told(j, lines, generated), Completes(j, lines, j2, lines2), generated2 # 0
    PROVE  Told(j2, lines2, generated2)
<1>1. CASE lines2 = lines
  BY <1>1 DEF Told, Completes, Finished, Outcomes
<1>2. CASE ~Has(lines, j.status) /\ lines2 = Append(lines, j.status)
  <2>1. \A i, k \in DOMAIN lines2 : lines2[i] = lines2[k] => i = k
    BY <1>2, AppendHas DEF Told, Completes, Finished, Has
  <2>2. Has(lines2, j2.status) /\ lines2[Len(lines2)] = j2.status
    BY <1>2, AppendHas DEF Completes, Finished
  <2>3. j2.status \in {"committed", "reverting"} => ~Has(lines2, "rolled_back")
    BY <1>2, AppendHas DEF Completes, Told, Finished, Outcomes
  <2>. QED  BY <2>1, <2>2, <2>3 DEF Told, Completes, Finished, Outcomes
<1>. QED  BY <1>1, <1>2 DEF Completes

LEMMA TurnTells ==
    ASSUME NEW j \in JournalType, NEW lines \in Seq(Outcomes), NEW generated,
           NEW j2 \in JournalType, NEW lines2, NEW generated2,
           Told(j, lines, generated), Turns(j, lines, j2, lines2),
           generated2 = 0 => generated = 0 /\ Works(j, lines, j2, lines2)
    PROVE  Told(j2, lines2, generated2)
BY WorkTells, CloseTells, CompletionTells DEF Turns

LEMMA TurnKeepsOutcome ==
    ASSUME NEW j, NEW lines, NEW j2, NEW lines2, Turns(j, lines, j2, lines2), Finished(j)
    PROVE  \/ j2.status = j.status /\ ~j2.recovery
           \/ j.status = "committed" /\ j2.status = "reverting"
BY DEF Turns, Works, Closes, Completes, Open, Finished, Outcomes

-----------------------------------------------------------------------------
(* The step of SaveJournal. *)

\* The phase that a manifest and the lines of its transaction stand for.
Phase(j, lines) ==
    CASE j.status = "none" /\ lines # <<>>          -> "forgotten"
      [] j.status = "none" /\ lines = <<>>          -> "new"
      [] j.status \in {"preparing", "authorized"}   -> "staged"
      [] j.status = "committing"                    -> "writing"
      [] j.status = "failed" /\ j.recovery          -> "writing"
      [] j.status = "reverting"                     -> "removing"
      [] j.status = "committed"                     -> "committed"
      [] j.status = "rolled_back"                   -> "undone"
      [] OTHER                                      -> "dropped"

LEMMA PhasesAre ==
    /\ phases = [t \in Txns |-> Phase(journal[t], audit[t])]
    /\ phases' = [t \in Txns |-> Phase(journal'[t], audit'[t])]
BY DEF phases, PhaseOf, Phase

LEMMA PhaseTable ==
    ASSUME NEW j \in JournalType, NEW lines,
           j.recovery => j.status \in {"committing", "reverting", "failed"}
    PROVE  /\ Phase(j, lines) \in Journal!Phases
           /\ Phase(j, lines) \in Journal!Active <=> Open(j)
           /\ Finished(j) => Phase(j, lines) \in Journal!Done
BY DEF Phase, JournalType, Statuses, Outcomes, Open, Finished,
       Journal!Phases, Journal!Active, Journal!Done

\* What a turn of a transaction is for its phase.
LEMMA TurnMoves ==
    ASSUME NEW j \in JournalType, NEW lines, NEW j2 \in JournalType, NEW lines2,
           Turns(j, lines, j2, lines2), j.status # "none" => j2.status # "none",
           j.recovery => j.status \in {"committing", "reverting", "failed"},
           j2.recovery => j2.status \in {"committing", "reverting", "failed"}
    PROVE  LET p == Phase(j, lines)
               q == Phase(j2, lines2)
           IN  \/ q = p
               \/ <<p, q>> \in Journal!Opening /\ ~Open(j) /\ Open(j2)
               \/ <<p, q>> \in Journal!Moving
<1>1. CASE Works(j, lines, j2, lines2)
  BY <1>1 DEF Works, Phase, Open, Finished, Outcomes, JournalType, Statuses,
              Journal!Opening, Journal!Moving
<1>2. CASE Closes(j, lines, j2, lines2)
  BY <1>2 DEF Closes, Phase, Outcomes, JournalType, Journal!Moving
<1>3. CASE Completes(j, lines, j2, lines2)
  BY <1>3 DEF Completes, Phase, Finished, Outcomes, JournalType
<1>. QED  BY <1>1, <1>2, <1>3 DEF Turns

\* The flags of the manifests, before and after a step.
LEMMA FlagsAre ==
    ASSUME IInv, IInv', NEW t \in Txns
    PROVE  /\ journal[t] \in JournalType /\ journal'[t] \in JournalType
           /\ journal[t].recovery => journal[t].status \in {"committing", "reverting", "failed"}
           /\ journal'[t].recovery => journal'[t].status \in {"committing", "reverting", "failed"}
BY DEF IInv, TypeOK, Safe

LEMMA NobodyGoes ==
    ASSUME NEW ph \in [Txns -> Journal!Phases]
    PROVE  Journal!Without(ph, {}) = ph
BY DEF Journal!Without

\* A step of one transaction that removes nothing.
LEMMA TurnSimulates ==
    ASSUME IInv, IInv', NEW t \in Txns,
           \A u \in Txns \ {t} : journal'[u] = journal[u] /\ audit'[u] = audit[u],
           Turns(journal[t], audit[t], journal'[t], audit'[t]),
           journal[t].status # "none" => journal'[t].status # "none"
    PROVE  Simulates
<1>. DEFINE p == Phase(journal[t], audit[t])
            q == Phase(journal'[t], audit'[t])
<1>1. /\ phases \in [Txns -> Journal!Phases] /\ q \in Journal!Phases
      /\ phases[t] = p /\ phases' = [phases EXCEPT ![t] = q]
  <2>1. \A u \in Txns : Phase(journal[u], audit[u]) \in Journal!Phases
    BY FlagsAre, PhaseTable
  <2>2. q \in Journal!Phases
    BY FlagsAre, PhaseTable
  <2>3. \A u \in Txns \ {t} : Phase(journal'[u], audit'[u]) = Phase(journal[u], audit[u])
    OBVIOUS
  <2>. HIDE DEF Phase
  <2>. QED  BY PhasesAre, <2>1, <2>2, <2>3
<1>2. \/ q = p
      \/ <<p, q>> \in Journal!Opening /\ ~Open(journal[t]) /\ Open(journal'[t])
      \/ <<p, q>> \in Journal!Moving
  BY FlagsAre, TurnMoves
<1>. HIDE DEF p, q
<1>3. CASE q = p
  BY <1>1, <1>3 DEF Simulates
<1>4. CASE <<p, q>> \in Journal!Opening /\ ~Open(journal[t]) /\ Open(journal'[t])
  <2>1. \A u \in Txns : ~Open(journal[u])
    <3>. SUFFICES ASSUME NEW u \in Txns \ {t}, Open(journal[u]) PROVE FALSE
      BY <1>4
    <3>1. lease'.owner = u /\ lease'.owner = t
      BY <1>4 DEF IInv, Safe
    <3>. QED  BY <3>1
  <2>2. \A u \in Txns : phases[u] \notin Journal!Active
    BY <2>1, FlagsAre, PhasesAre, PhaseTable
  <2>3. Journal!Open(t)
    BY <1>1, <1>4, <2>2 DEF Journal!Open, phases
  <2>. QED  BY <2>3 DEF Simulates, Journal!Next
<1>5. CASE <<p, q>> \in Journal!Moving
  <2>1. phases' = Journal!Without(phases', {})
    <3>1. [phases EXCEPT ![t] = q] \in [Txns -> Journal!Phases]
      BY <1>1
    <3>. QED  BY <1>1, <3>1, NobodyGoes
  <2>2. Journal!Move(t)
    <3>1. {} \in SUBSET {u \in Txns : [phases EXCEPT ![t] = q][u] \in Journal!Done}
      OBVIOUS
    <3>2. phases' = Journal!Without([phases EXCEPT ![t] = q], {})
      BY <1>1, <2>1
    <3>. QED  BY <1>1, <1>5, <3>1, <3>2 DEF Journal!Move, phases
  <2>. QED  BY <2>2 DEF Simulates, Journal!Next
<1>. QED  BY <1>2, <1>3, <1>4, <1>5

\* Retention after the journals were js: what it removes was done, and the log
\* has its outcome.
LEMMA CleanupForgets ==
    ASSUME NEW js \in [Txns -> JournalType],
           \A u \in Txns : js[u].recovery => js[u].status \in {"committing", "reverting", "failed"},
           \A u \in Txns : \/ journal'[u] = js[u]
                           \/ /\ journal'[u] = NoJournal
                              /\ Finished(js[u]) /\ Has(audit'[u], js[u].status)
    PROVE  LET ph == [t \in Txns |-> Phase(js[t], audit'[t])]
           IN  /\ ph \in [Txns -> Journal!Phases]
               /\ \E gone \in SUBSET {u \in Txns : ph[u] \in Journal!Done} :
                     phases' = Journal!Without(ph, gone)
<1>. DEFINE ph == [t \in Txns |-> Phase(js[t], audit'[t])]
            gone == {u \in Txns : journal'[u] # js[u]}
<1>1. ph \in [Txns -> Journal!Phases]
  <2>1. \A u \in Txns : Phase(js[u], audit'[u]) \in Journal!Phases
    BY PhaseTable
  <2>. QED  BY <2>1
<1>2. \A u \in gone : ph[u] \in Journal!Done
  <2>1. \A u \in gone : Finished(js[u])
    OBVIOUS
  <2>. QED  BY <2>1, PhaseTable
<1>3. \A u \in gone : Phase(journal'[u], audit'[u]) = "forgotten"
  BY DEF Phase, NoJournal, Has
<1>4. \A u \in Txns \ gone : Phase(journal'[u], audit'[u]) = ph[u]
  OBVIOUS
<1>5. phases' = Journal!Without(ph, gone)
  BY PhasesAre, <1>3, <1>4 DEF Journal!Without
<1>. QED  BY <1>1, <1>2, <1>5

\* A step that closes t and then removes others, or t itself.
LEMMA CloseSimulates ==
    ASSUME IInv, IInv', NEW t \in Txns, Open(journal[t]),
           NEW js \in [Txns -> JournalType], Finished(js[t]),
           \A u \in Txns : js[u].recovery => js[u].status \in {"committing", "reverting", "failed"},
           \A u \in Txns \ {t} : js[u] = journal[u] /\ audit'[u] = audit[u],
           Turns(journal[t], audit[t], js[t], audit'[t]),
           \A u \in Txns : \/ journal'[u] = js[u]
                           \/ /\ journal'[u] = NoJournal
                              /\ Finished(js[u]) /\ Has(audit'[u], js[u].status)
    PROVE  Simulates
<1>. DEFINE ph == [u \in Txns |-> Phase(js[u], audit'[u])]
            p == Phase(journal[t], audit[t])
            q == Phase(js[t], audit'[t])
<1>1. /\ ph \in [Txns -> Journal!Phases]
      /\ \E gone \in SUBSET {u \in Txns : ph[u] \in Journal!Done} :
            phases' = Journal!Without(ph, gone)
  BY CleanupForgets
<1>2. ph = [phases EXCEPT ![t] = q] /\ phases[t] = p
  <2>. HIDE DEF Phase
  <2>. QED  BY PhasesAre
<1>3. p \in Journal!Active /\ q \in Journal!Done /\ q \in Journal!Phases
  BY FlagsAre, PhaseTable
<1>4. <<p, q>> \in Journal!Moving
  <2>1. \/ q = p
        \/ <<p, q>> \in Journal!Opening /\ ~Open(journal[t]) /\ Open(js[t])
        \/ <<p, q>> \in Journal!Moving
    <3>1. js[t].status # "none"
      BY DEF Finished, Outcomes
    <3>. QED  BY <3>1, FlagsAre, TurnMoves
  <2>. HIDE DEF p, q
  <2>. QED  BY <1>3, <2>1 DEF Journal!Active, Journal!Done
<1>. HIDE DEF ph, p, q
<1>5. Journal!Move(t)
  BY <1>1, <1>2, <1>3, <1>4 DEF Journal!Move, phases
<1>. QED  BY <1>5 DEF Simulates, Journal!Next

-----------------------------------------------------------------------------
(* Steps on one transaction that remove nothing. *)

\* Step t of a stage that is not start-up, or of start-up on its way.
LEMMA TurnHolds ==
    ASSUME IInv, AInv, IInv', NEW t \in Txns,
           \A u \in Txns \ {t} : /\ journal'[u] = journal[u]
                                 /\ audit'[u] = audit[u]
                                 /\ born'[u] = born[u]
                                 /\ Untold(journal[u], audit[u]) => lease'.owner = u,
           Turns(journal[t], audit[t], journal'[t], audit'[t]),
           journal[t].status # "none" => journal'[t].status # "none",
           born'[t] = 0 => born[t] = 0 /\ Works(journal[t], audit[t], journal'[t], audit'[t]),
           Untold(journal'[t], audit'[t]) => lease'.owner = t,
           stage' = "startup" =>
              /\ stage = "startup" /\ scan \ {t} \subseteq scan' /\ row' = row
              /\ t \in scan' \/ ~Untold(journal'[t], audit'[t])
    PROVE  StepIsSafe
<1>1. /\ journal \in [Txns -> JournalType] /\ journal' \in [Txns -> JournalType]
      /\ audit \in [Txns -> Seq(Outcomes)] /\ audit' \in [Txns -> Seq(Outcomes)]
  BY DEF IInv, TypeOK
<1>2. Told(journal'[t], audit'[t], born'[t])
  BY <1>1, TurnTells DEF AInv, AllTold
<1>3. AllTold'
  BY <1>2 DEF AInv, AllTold
<1>4. UntoldHoldsLease'
  BY DEF AInv, UntoldHoldsLease
<1>5. ScannedIsTold'
  BY DEF AInv, ScannedIsTold, Refused
<1>6. KeepsOutcomes
  <2>1. ASSUME NEW u \in Txns, u # t, Finished(journal[u])
        PROVE  journal'[u].status = journal[u].status /\ ~journal'[u].recovery
    BY <2>1 DEF Finished
  <2>2. Finished(journal[t]) => \/ journal'[t].status = journal[t].status /\ ~journal'[t].recovery
                                \/ journal[t].status = "committed" /\ journal'[t].status = "reverting"
    BY TurnKeepsOutcome
  <2>. QED  BY <2>1, <2>2 DEF KeepsOutcomes
<1>7. RemovesSafely
  BY DEF RemovesSafely
<1>8. Simulates
  BY TurnSimulates
<1>. QED  BY <1>3, <1>4, <1>5, <1>6, <1>7, <1>8 DEF AInv, StepIsSafe

\* Steps that change no manifest and no line of the log.
LEMMA QuietHolds ==
    ASSUME IInv, AInv, IInv', UNCHANGED <<journal, audit, born>>, lease'.owner = lease.owner,
           stage' = "startup" =>
              \/ /\ stage = "startup" /\ row' = row
                 /\ \A t \in scan \ scan' : Refused(journal[t])
              \/ {t \in Txns : journal[t].status # "none"} \subseteq scan'
    PROVE  StepIsSafe
<1>1. AllTold' /\ UntoldHoldsLease'
  BY DEF AInv, AllTold, UntoldHoldsLease
<1>2. ScannedIsTold'
  BY DEF AInv, ScannedIsTold, Refused, Untold, Finished, Outcomes
<1>3. KeepsOutcomes /\ RemovesSafely
  BY DEF KeepsOutcomes, RemovesSafely, Finished
<1>4. Simulates
  BY PhasesAre DEF Simulates
<1>. QED  BY <1>1, <1>2, <1>3, <1>4 DEF AInv, StepIsSafe

\* Nobody but the owner of the lease can be untold.
LEMMA OthersAreTold ==
    ASSUME AInv, NEW t, lease.owner = t
    PROVE  \A u \in Txns \ {t} : ~Untold(journal[u], audit[u])
BY DEF AInv, UntoldHoldsLease

\* Steps of an open transaction t that leave it open and the log alone.
LEMMA OpenStepHolds ==
    ASSUME IInv, AInv, IInv', NEW t \in Txns, Open(journal[t]),
           \A u \in Txns \ {t} : journal'[u] = journal[u],
           UNCHANGED <<audit, born>>,
           Works(journal[t], audit[t], journal'[t], audit'[t]),
           journal'[t].status # "none", ~Finished(journal'[t]),
           stage' = "startup" =>
              stage = "startup" /\ scan \ {t} \subseteq scan' /\ row' = row
    PROVE  StepIsSafe
<1>1. lease.owner = t /\ born[t] # 0
  BY DEF IInv, Safe, Open
<1>. QED  BY <1>1, OthersAreTold, TurnHolds DEF Turns, Untold

LEMMA UploadBackupHolds ==
    ASSUME IInv, AInv, IInv', NEW t \in Txns, NEW f \in Files, UploadBackup(t, f)
    PROVE  StepIsSafe
<1>. DEFINE j == [journal[t] EXCEPT !.verified = @ \cup {f}]
<1>1. PICK n : SaveManifest(t, j, n, 2) /\ \E reach : Stops(n, reach)
  BY DEF UploadBackup
<1>2. UNCHANGED <<audit, born>> /\ journal[t].status = "preparing"
  BY DEF UploadBackup
<1>3. journal \in [Txns -> JournalType] /\ journal[t] \in JournalType
  BY DEF IInv, TypeOK
<1>4. journal' = [journal EXCEPT ![t] = j] \/ journal' = journal
  BY <1>1 DEF SaveManifest
<1>5. Works(journal[t], audit[t], journal'[t], audit'[t])
      /\ \A u \in Txns \ {t} : journal'[u] = journal[u]
  BY <1>2, <1>3, <1>4 DEF Works, JournalType
<1>6. journal'[t].status = "preparing"
  BY <1>2, <1>3, <1>4 DEF JournalType
<1>7. stage' # "startup"
  BY <1>1, StopsStep
<1>. QED  BY <1>2, <1>5, <1>6, <1>7, OpenStepHolds DEF Open, Finished, Outcomes

LEMMA AuthorizeHolds ==
    ASSUME IInv, AInv, IInv', NEW t \in Txns, Authorize(t)
    PROVE  StepIsSafe
<1>. DEFINE j == [journal[t] EXCEPT !.status = "authorized"]
<1>1. PICK n : SaveManifest(t, j, n, 2) /\ \E reach : Stops(n, reach)
  BY DEF Authorize
<1>2. UNCHANGED <<audit, born>> /\ journal[t].status = "preparing"
  BY DEF Authorize
<1>3. journal \in [Txns -> JournalType] /\ journal[t] \in JournalType
  BY DEF IInv, TypeOK
<1>4. journal' = [journal EXCEPT ![t] = j] \/ journal' = journal
  BY <1>1 DEF SaveManifest
<1>5. Works(journal[t], audit[t], journal'[t], audit'[t])
      /\ \A u \in Txns \ {t} : journal'[u] = journal[u]
  BY <1>2, <1>3, <1>4 DEF Works, JournalType
<1>6. journal'[t].status \in {"preparing", "authorized"}
  BY <1>2, <1>3, <1>4 DEF JournalType
<1>7. stage' # "startup"
  BY <1>1, StopsStep
<1>. QED  BY <1>2, <1>5, <1>6, <1>7, OpenStepHolds DEF Open, Finished, Outcomes

LEMMA BeginCommitHolds ==
    ASSUME IInv, AInv, IInv', NEW t \in Txns, BeginCommit(t)
    PROVE  StepIsSafe
<1>. DEFINE j == [journal[t] EXCEPT !.status = "committing",
                                    !.planned = TRUE, !.recovery = FALSE]
<1>1. PICK n : SaveManifest(t, j, n, 1) /\ \E reach : Stops(n, reach)
  BY DEF BeginCommit
<1>2. UNCHANGED <<audit, born>> /\ journal[t].status = "authorized"
  BY DEF BeginCommit
<1>3. journal \in [Txns -> JournalType] /\ journal[t] \in JournalType
  BY DEF IInv, TypeOK
<1>4. journal' = [journal EXCEPT ![t] = j] \/ journal' = journal
  BY <1>1 DEF SaveManifest
<1>5. /\ \A u \in Txns \ {t} : journal'[u] = journal[u]
      /\ journal'[t] = journal[t] \/ journal'[t].status = "committing"
  BY <1>3, <1>4 DEF JournalType
<1>6. /\ Works(journal[t], audit[t], journal'[t], audit'[t])
      /\ journal'[t].status \in {"authorized", "committing"}
  BY <1>2, <1>5 DEF Works
<1>7. stage' # "startup"
  BY <1>1, StopsStep
<1>. QED  BY <1>2, <1>5, <1>6, <1>7, OpenStepHolds DEF Open, Finished, Outcomes

\* acquireLeaseInternal and start-up mark work that may have touched the source.
LEMMA MarkHolds ==
    ASSUME IInv, AInv, IInv', NEW t \in Txns, Open(journal[t]), NEW n, NEW k,
           SaveManifest(t, [journal[t] EXCEPT !.recovery = TRUE], n, k),
           UNCHANGED <<audit, born>>,
           stage' = "startup" =>
              stage = "startup" /\ scan \ {t} \subseteq scan' /\ row' = row
    PROVE  StepIsSafe
<1>. DEFINE j == [journal[t] EXCEPT !.recovery = TRUE]
<1>1. journal \in [Txns -> JournalType] /\ journal[t] \in JournalType
  BY DEF IInv, TypeOK
<1>2. journal' = [journal EXCEPT ![t] = j] \/ journal' = journal
  BY DEF SaveManifest
<1>3. /\ Works(journal[t], audit[t], journal'[t], audit'[t])
      /\ \A u \in Txns \ {t} : journal'[u] = journal[u]
  BY <1>1, <1>2 DEF Works, JournalType
<1>4. journal'[t].status # "none" /\ ~Finished(journal'[t])
  BY <1>1, <1>2 DEF Open, Finished, JournalType
<1>. QED  BY <1>3, <1>4, OpenStepHolds

LEMMA PrepareHolds ==
    ASSUME IInv, AInv, IInv', NEW t \in Txns, NEW plan \in Plans, Prepare(t, plan)
    PROVE  StepIsSafe
<1>. DEFINE j == [NoJournal EXCEPT !.status = "preparing", !.plan = plan]
<1>1. PICK n : SaveManifest(t, j, n, 3) /\ \E reach : Stops(n, reach)
  BY DEF Prepare
<1>2. /\ stage = "prepare" /\ born[t] = 0 /\ UNCHANGED audit
      /\ born' = [born EXCEPT ![t] = Cardinality({u \in Txns : born[u] > 0}) + 1]
  BY DEF Prepare
<1>3. /\ journal \in [Txns -> JournalType] /\ journal[t].status = "none"
      /\ born \in [Txns -> Nat] /\ lease.owner = Nobody
  BY <1>2 DEF IInv, TypeOK, Safe, AcquiredLeaseIsFree
<1>4. journal' = [journal EXCEPT ![t] = j] \/ journal' = journal
  BY <1>1 DEF SaveManifest
<1>5. j.status = "preparing"
  BY DEF NoJournal
<1>6. audit[t] = <<>>
  BY <1>2 DEF AInv, AllTold, Told
<1>7. Works(journal[t], audit[t], journal'[t], audit'[t])
      /\ \A u \in Txns \ {t} : journal'[u] = journal[u]
  BY <1>2, <1>3, <1>4, <1>5, <1>6 DEF Works
<1>8. journal'[t].status \in {"none", "preparing"}
  BY <1>3, <1>4, <1>5
<1>9. \A u \in Txns : ~Untold(journal[u], audit[u])
  BY <1>3, StoreAssumption DEF AInv, UntoldHoldsLease
<1>10. stage' # "startup"
  BY <1>1, StopsStep
<1>. QED  BY <1>2, <1>3, <1>7, <1>8, <1>9, <1>10, TurnHolds
             DEF Turns, Untold, Finished, Outcomes

LEMMA BeginRevertHolds ==
    ASSUME IInv, AInv, IInv', NEW t \in Txns, BeginRevert(t)
    PROVE  StepIsSafe
<1>. DEFINE j == [journal[t] EXCEPT !.status = "reverting", !.recovery = TRUE,
                                    !.audited = FALSE]
<1>1. PICK n : SaveManifest(t, j, n, 3) /\ \E reach : Stops(n, reach)
  BY DEF BeginRevert
<1>2. stage = "revert" /\ subject = t /\ UNCHANGED <<audit, born>>
  BY DEF BeginRevert
<1>3. /\ journal \in [Txns -> JournalType] /\ journal[t] \in JournalType
      /\ journal[t].status = "committed" /\ lease.owner = Nobody /\ born[t] # 0
  BY <1>2 DEF IInv, TypeOK, Safe, AcquiredLeaseIsFree, RevertTarget, Revertible
<1>4. journal' = [journal EXCEPT ![t] = j] \/ journal' = journal
  BY <1>1 DEF SaveManifest
<1>5. /\ Works(journal[t], audit[t], journal'[t], audit'[t])
      /\ \A u \in Txns \ {t} : journal'[u] = journal[u]
      /\ journal'[t] = journal[t] \/ journal'[t].status = "reverting"
  BY <1>2, <1>3, <1>4 DEF Works, JournalType
<1>6. \A u \in Txns : ~Untold(journal[u], audit[u])
  BY <1>3, StoreAssumption DEF AInv, UntoldHoldsLease
<1>7. ~Untold(journal'[t], audit'[t])
  BY <1>2, <1>5, <1>6 DEF Untold, Finished, Outcomes
<1>8. stage' # "startup"
  BY <1>1, StopsStep
<1>. QED  BY <1>2, <1>3, <1>5, <1>6, <1>7, <1>8, TurnHolds DEF Turns

-----------------------------------------------------------------------------
(* Steps that write an outcome or its line. *)

\* ensureTerminalAudit's line, as write k.
LEMMA LineStep ==
    ASSUME IInv, NEW t \in Txns, NEW event \in Outcomes, NEW n \in Int, NEW k \in Int,
           EnsureLine(t, event, n, k)
    PROVE  /\ \A u \in Txns \ {t} : audit'[u] = audit[u]
           /\ \/ audit'[t] = audit[t] /\ (n < k \/ Has(audit[t], event))
              \/ audit'[t] = Append(audit[t], event) /\ ~Has(audit[t], event) /\ n >= k
           /\ n >= k => Has(audit'[t], event)
<1>1. audit \in [Txns -> Seq(Outcomes)]
  BY DEF IInv, TypeOK
<1>2. CASE Logged(t, event)
  BY <1>1, <1>2 DEF EnsureLine, Logged, Has
<1>3. CASE ~Logged(t, event) /\ n >= k
  <2>1. audit' = [audit EXCEPT ![t] = Append(@, event)]
    BY <1>3 DEF EnsureLine
  <2>2. audit'[t] = Append(audit[t], event) /\ ~Has(audit[t], event)
    BY <1>1, <1>3, <2>1 DEF Logged, Has
  <2>3. Has(audit'[t], event)
    BY <1>1, <2>2, AppendHas
  <2>. QED  BY <1>1, <1>3, <2>1, <2>2, <2>3
<1>4. CASE ~Logged(t, event) /\ n < k
  BY <1>1, <1>4 DEF EnsureLine
<1>. QED  BY <1>2, <1>3, <1>4

\* fail, with changed files: the outcome is written down, the work stays open.
LEMMA FailUnresolvedHolds ==
    ASSUME IInv, AInv, IInv', NEW t \in Txns, FailUnresolved(t)
    PROVE  StepIsSafe
<1>. DEFINE j(n) == [journal[t] EXCEPT !.status = "failed",
                                       !.recovery = TRUE, !.audited = n >= 3]
<1>1. PICK n \in 1..4 :
          /\ EnsureLine(t, "failed", n, 2)
          /\ SaveManifest(t, j(n), n, 1)
          /\ \E reach : Stops(n, reach)
  <2>1. 1..Upto(EnsureRaises(t, "failed"), 2, 4) \subseteq 1..4
    BY DEF Upto
  <2>. QED  BY <2>1 DEF FailUnresolved
<1>2. UNCHANGED born /\ journal[t].status \in {"preparing", "authorized", "committing"}
  BY DEF FailUnresolved
<1>3. /\ journal \in [Txns -> JournalType] /\ journal[t] \in JournalType
      /\ audit[t] \in Seq(Outcomes) /\ audit[t] = <<>>
  BY <1>2 DEF IInv, TypeOK, AInv, AllTold, Told
<1>4. journal' = [journal EXCEPT ![t] = j(n)]
  BY <1>1 DEF SaveManifest
<1>5. /\ journal'[t].status = "failed" /\ journal'[t].recovery
      /\ journal'[t].audited = (n >= 3)
      /\ \A u \in Txns \ {t} : journal'[u] = journal[u]
  BY <1>3, <1>4 DEF JournalType
<1>6. /\ \A u \in Txns \ {t} : audit'[u] = audit[u]
      /\ audit'[t] = audit[t] \/ audit'[t] = Append(audit[t], "failed")
      /\ n >= 3 => audit'[t] # audit[t]
  <2>1. "failed" \in Outcomes /\ ~Has(audit[t], "failed") /\ n \in Int
    BY <1>3 DEF Outcomes, Has
  <2>. QED  BY <1>1, <1>3, <2>1, LineStep, AppendHas
<1>7. Closes(journal[t], audit[t], journal'[t], audit'[t])
  BY <1>2, <1>5, <1>6 DEF Closes, Outcomes
<1>8. lease.owner = t /\ born[t] # 0
  BY <1>2 DEF IInv, Safe, Open, Finished, Outcomes
<1>9. ~Untold(journal'[t], audit'[t])
  BY <1>5 DEF Untold, Finished
<1>10. stage' # "startup"
  BY <1>1, StopsStep
<1>. QED  BY <1>2, <1>5, <1>6, <1>7, <1>8, <1>9, <1>10, OthersAreTold, TurnHolds DEF Turns

\* An outcome given to staged work by acquireLeaseInternal or start-up.
LEMMA AbandonmentHolds ==
    ASSUME IInv, AInv, IInv', NEW t \in Txns, NEW n \in Int, n >= 1,
           journal[t].status \in {"preparing", "authorized"},
           EnsureLine(t, "abandoned", n, 2),
           SaveManifest(t, [Abandoned(journal[t]) EXCEPT !.audited = n >= 3], n, 1),
           Release(t, n, 4), UNCHANGED born,
           stage' = "startup" => /\ stage = "startup" /\ scan \ {t} \subseteq scan' /\ row' = row
                                 /\ n = 4
    PROVE  StepIsSafe
<1>. DEFINE j == [Abandoned(journal[t]) EXCEPT !.audited = n >= 3]
<1>1. /\ journal \in [Txns -> JournalType] /\ journal[t] \in JournalType
      /\ audit[t] \in Seq(Outcomes) /\ audit[t] = <<>>
  BY DEF IInv, TypeOK, AInv, AllTold, Told
<1>2. journal' = [journal EXCEPT ![t] = j]
  BY DEF SaveManifest
<1>3. /\ journal'[t].status = "abandoned" /\ ~journal'[t].recovery
      /\ journal'[t].audited = (n >= 3)
      /\ \A u \in Txns \ {t} : journal'[u] = journal[u]
  BY <1>1, <1>2 DEF JournalType, Abandoned
<1>4. /\ \A u \in Txns \ {t} : audit'[u] = audit[u]
      /\ audit'[t] = audit[t] \/ audit'[t] = Append(audit[t], "abandoned")
      /\ n >= 3 => audit'[t] # audit[t]
      /\ n >= 2 => Has(audit'[t], "abandoned")
  BY <1>1, LineStep, AppendHas DEF Outcomes, Has
<1>5. Closes(journal[t], audit[t], journal'[t], audit'[t])
  BY <1>3, <1>4 DEF Closes, Outcomes
<1>6. lease.owner = t /\ born[t] # 0
  BY DEF IInv, Safe, Open, Finished, Outcomes
<1>7. Untold(journal'[t], audit'[t]) => lease'.owner = t /\ n < 2
  BY <1>3, <1>4, <1>6 DEF Untold, Release
<1>. QED  BY <1>3, <1>4, <1>5, <1>6, <1>7, OthersAreTold, TurnHolds DEF Turns

\* acquireLeaseInternal and start-up complete the audit of finished work.
LEMMA CompletionHolds ==
    ASSUME IInv, AInv, IInv', NEW t \in Txns, NEW n \in Int, NEW all \in {1, 3},
           Finished(journal[t]),
           all = IF journal[t].audited THEN 1 ELSE 3,
           IF journal[t].audited THEN UNCHANGED audit
                                 ELSE EnsureLine(t, journal[t].status, n, 1),
           SaveManifest(t, [journal[t] EXCEPT !.audited = TRUE], n, 2),
           Release(t, n, all), UNCHANGED born,
           stage' = "startup" => /\ stage = "startup" /\ scan \ {t} \subseteq scan' /\ row' = row
                                 /\ n = all
    PROVE  StepIsSafe
<1>. DEFINE j == [journal[t] EXCEPT !.audited = TRUE]
<1>1. /\ journal \in [Txns -> JournalType] /\ journal[t] \in JournalType
      /\ audit[t] \in Seq(Outcomes) /\ journal[t].status \in Outcomes /\ born[t] # 0
  BY DEF IInv, TypeOK, Finished, Safe, Outcomes
<1>2. journal' = IF n >= 2 THEN [journal EXCEPT ![t] = j] ELSE journal
  BY DEF SaveManifest
<1>3. /\ journal'[t].status = journal[t].status
      /\ journal'[t].recovery = journal[t].recovery
      /\ journal'[t].audited => journal[t].audited \/ n >= 2
      /\ \A u \in Txns \ {t} : journal'[u] = journal[u]
  BY <1>1, <1>2 DEF JournalType
<1>4. journal[t].audited => Has(audit[t], journal[t].status)
  BY <1>1 DEF AInv, AllTold, Told
<1>5. /\ \A u \in Txns \ {t} : audit'[u] = audit[u]
      /\ \/ audit'[t] = audit[t]
         \/ ~Has(audit[t], journal[t].status)
            /\ audit'[t] = Append(audit[t], journal[t].status)
      /\ journal[t].audited \/ n >= 1 => Has(audit'[t], journal[t].status)
  <2>1. CASE journal[t].audited
    BY <1>4, <2>1
  <2>2. CASE ~journal[t].audited
    BY <1>1, <2>2, LineStep
  <2>. QED  BY <2>1, <2>2
<1>6. Completes(journal[t], audit[t], journal'[t], audit'[t])
  BY <1>3, <1>5 DEF Completes
<1>7. Untold(journal'[t], audit'[t]) => ~journal[t].audited /\ n < 1
  BY <1>3, <1>5 DEF Untold
<1>8. Untold(journal'[t], audit'[t]) => lease'.owner = t
  <2>. SUFFICES ASSUME Untold(journal'[t], audit'[t]) PROVE lease'.owner = t
    OBVIOUS
  <2>1. ~journal[t].audited /\ n < 1 /\ all = 3
    BY <1>7
  <2>2. Untold(journal[t], audit[t])
    BY <1>5, AppendHas, <1>3, <1>1 DEF Untold
  <2>3. lease.owner = t
    BY <2>2 DEF AInv, UntoldHoldsLease
  <2>. QED  BY <2>1, <2>3 DEF Release
<1>9. ASSUME NEW u \in Txns \ {t}, Untold(journal[u], audit[u]) PROVE lease'.owner = u
  <2>1. lease.owner = u
    BY <1>9 DEF AInv, UntoldHoldsLease
  <2>. QED  BY <1>9, <2>1 DEF Release
<1>10. stage' = "startup" => ~Untold(journal'[t], audit'[t])
  BY <1>7
<1>. QED  BY <1>1, <1>3, <1>5, <1>6, <1>8, <1>9, <1>10, TurnHolds DEF Turns, Finished, Outcomes

-----------------------------------------------------------------------------
(* Retention. *)

LEMMA Minimum ==
    ASSUME NEW ranks \in SUBSET Nat, ranks # {}
    PROVE  \E x \in ranks : \A y \in ranks : x <= y
<1>. DEFINE less == OpToRel(<, Nat)
<1>1. \E x \in ranks : \A y \in ranks : ~(<<y, x>> \in less)
  BY Zenon, NatLessThanWellFounded, WFMin
<1>2. less = {pair \in Nat \X Nat : pair[1] < pair[2]}
  BY Zenon DEF OpToRel
<1>3. \A x, y \in Nat : y < x => <<y, x>> \in less
  BY Zenon, <1>2
<1>. HIDE DEF less
<1>4. \E x \in ranks : \A y \in ranks : ~(y < x)
  BY Zenon, <1>1, <1>3
<1>. QED  BY <1>4

\* However many of them it removes, retention leaves MinimumPerTarget finished
\* journals that are newer than each one it removes: among those not older than
\* t take one with the fewest newer ones; none of these is removed.
LEMMA NewestRemain ==
    ASSUME TypeOK, NEW js, NEW removed \in SUBSET Removable(js, secret), NEW t \in removed
    PROVE  Cardinality({u \in Txns \ removed : Finished(js[u]) /\ born[u] > born[t]})
              >= MinimumPerTarget
<1>. DEFINE rows == Rows(js, secret)
            rank(v) == Cardinality(Newer(v, rows))
            later == {v \in removed : born[v] >= born[t]}
<1>1. rows \subseteq Txns /\ removed \subseteq rows /\ IsFiniteSet(rows)
  BY StoreAssumption, FS_Subset DEF Rows, Removable
<1>2. \A v \in rows : born[v] \in Nat
  BY <1>1 DEF TypeOK
<1>3. \A v : IsFiniteSet(Newer(v, rows)) /\ rank(v) \in Nat
  BY <1>1, FS_Subset, FS_CardinalityType DEF Newer
<1>4. PICK v \in later : \A w \in later : rank(v) <= rank(w)
  <2>1. {rank(v) : v \in later} \in SUBSET Nat /\ {rank(v) : v \in later} # {}
    BY <1>1, <1>2, <1>3
  <2>2. PICK x \in {rank(v) : v \in later} : \A y \in {rank(v) : v \in later} : x <= y
    BY <2>1, Minimum
  <2>. QED  BY <2>2
<1>5. Newer(v, rows) \cap removed = {}
  <2>. SUFFICES ASSUME NEW w \in Newer(v, rows), w \in removed PROVE FALSE
    OBVIOUS
  <2>1. w \in later /\ v \in rows
    BY <1>1, <1>2 DEF Newer
  <2>2. Newer(w, rows) \subseteq Newer(v, rows) /\ w \notin Newer(w, rows)
    BY <1>1, <1>2, <2>1 DEF Newer
  <2>3. rank(w) <= rank(v) /\ rank(w) # rank(v)
    BY <1>3, <2>2, FS_Subset
  <2>4. rank(v) <= rank(w)
    BY <1>4, <2>1
  <2>. QED  BY <1>3, <2>3, <2>4
<1>. DEFINE left == {u \in Txns \ removed : Finished(js[u]) /\ born[u] > born[t]}
<1>6. Newer(v, rows) \subseteq left
  BY <1>1, <1>2, <1>5 DEF Newer, Rows
<1>7. IsFiniteSet(left)
  BY StoreAssumption, FS_Subset
<1>8. rank(v) <= Cardinality(left) /\ Cardinality(left) \in Nat
  BY <1>6, <1>7, FS_Subset, FS_CardinalityType
<1>9. rank(v) >= MinimumPerTarget
  BY DEF Removable
<1>. QED  BY <1>3, <1>8, <1>9, StoreAssumption

\* What RetentionIsSafe says when the journals were js before retention.
LEMMA RemovalIsSafe ==
    ASSUME TypeOK, NEW js \in [Txns -> JournalType], NEW gone \in SUBSET Txns,
           NEW half \in SUBSET Txns, Retained(js, gone, half),
           gone \cup half \subseteq Removable(js, secret),
           NEW t \in Txns, js[t].status # "none", journal'[t].status = "none"
    PROVE  /\ t \in Removable(js, secret)
           /\ ~secret[t].restoring
           /\ Cardinality({u \in Txns : Finished(journal'[u]) /\ born[u] > born[t]})
                 >= MinimumPerTarget
<1>. DEFINE removed == {u \in gone \cup half : journal'[u].status = "none"}
<1>1. /\ \A u \in Txns \ removed : journal'[u] = js[u]
      /\ \A u \in removed : ~Finished(journal'[u])
  BY DEF Retained, NoJournal, Finished, Outcomes
<1>2. t \in removed /\ removed \in SUBSET Removable(js, secret)
  BY <1>1
<1>. HIDE DEF removed
<1>3. Cardinality({u \in Txns \ removed : Finished(js[u]) /\ born[u] > born[t]})
         >= MinimumPerTarget
  BY <1>2, NewestRemain
<1>4. {u \in Txns \ removed : Finished(js[u]) /\ born[u] > born[t]}
         = {u \in Txns : Finished(journal'[u]) /\ born[u] > born[t]}
  BY <1>1
<1>. QED  BY <1>2, <1>3, <1>4 DEF Removable, Rows

\* The values retention leaves are told if they were before it.
LEMMA RetainedIsTold ==
    ASSUME NEW j, NEW lines, NEW generated, Told(j, lines, generated), NEW j2 \in {NoJournal, j}
    PROVE  Told(j2, lines, generated) /\ (Untold(j2, lines) => Untold(j, lines))
BY DEF Told, Untold, NoJournal, Finished, Outcomes

-----------------------------------------------------------------------------
(* The operations that close a transaction, and retention after them. *)

LEMMA CloseHolds ==
    ASSUME IInv, AInv, IInv', NEW t \in Txns, Open(journal[t]), NEW j \in JournalType,
           \/ /\ journal[t].status \in {"preparing", "authorized"}
              /\ j.status \in {"failed", "abandoned"}
           \/ journal[t].status = "committing"
           \/ journal[t].status = "failed" /\ j.status \in {"committed", "rolled_back"}
           \/ journal[t].status = "reverting" /\ j.status = "rolled_back",
           j.status \in Outcomes, ~j.recovery, NEW n \in 1..5, Close(t, j, n)
    PROVE  StepIsSafe
<1>. DEFINE closed == [j EXCEPT !.audited = n >= 3]
            js     == [journal EXCEPT ![t] = closed]
<1>1. /\ EnsureLine(t, j.status, n, 2)
      /\ Release(t, n, 4)
      /\ UNCHANGED <<born, age, calm, row>>
      /\ stage' # "startup"
  BY StopsStep DEF Close
<1>2. PICK gone \in SUBSET Removable(js, secret), half \in SUBSET Removable(js, secret) :
          /\ Retain(js, gone, half)
          /\ n < 4 => gone = {} /\ half = {}
  BY HalvesStep DEF Close
<1>3. /\ TypeOK /\ journal \in [Txns -> JournalType] /\ journal[t] \in JournalType
      /\ audit[t] \in Seq(Outcomes) /\ lease.owner = t /\ born[t] # 0
      /\ Removable(js, secret) \subseteq Txns
  BY DEF IInv, TypeOK, Safe, Open, Removable, Rows
<1>4. /\ closed \in JournalType /\ closed.status = j.status /\ ~closed.recovery
      /\ closed.audited = (n >= 3)
  <2>1. (n >= 3) \in BOOLEAN
    OBVIOUS
  <2>2. closed \in JournalType
    BY <2>1, AuditedField
  <2>. QED  BY <2>2 DEF JournalType
<1>5. js \in [Txns -> JournalType] /\ js[t] = closed
      /\ \A u \in Txns \ {t} : js[u] = journal[u]
  BY <1>3, <1>4
<1>6. Retained(js, gone, half)
  BY <1>2, <1>3, <1>5, RetainStep
<1>7. \A u \in Txns : journal'[u] \in {NoJournal, js[u]}
  BY <1>6 DEF Retained
<1>8. /\ \A u \in Txns \ {t} : audit'[u] = audit[u]
      /\ audit'[t] = audit[t] \/ audit'[t] = Append(audit[t], j.status)
      /\ audit'[t] = audit[t] => n < 2 \/ Has(audit[t], j.status)
      /\ n >= 2 => Has(audit'[t], j.status)
  <2>1. n \in Int /\ 2 \in Int
    OBVIOUS
  <2>. QED  BY <1>1, <2>1, LineStep
<1>9. ~Has(audit[t], j.status)
  <2>1. Told(journal[t], audit[t], born[t])
    BY DEF AInv, AllTold
  <2>2. CASE journal[t].status \in {"preparing", "authorized", "committing"}
    BY <2>1, <2>2 DEF Told, Has
  <2>3. CASE journal[t].status = "failed" /\ j.status \in {"committed", "rolled_back"}
    <3>1. journal[t].recovery
      BY <2>3 DEF Open, Finished, Outcomes
    <3>. QED  BY <2>1, <2>3, <3>1 DEF Told, Has
  <2>4. CASE journal[t].status = "reverting" /\ j.status = "rolled_back"
    BY <2>1, <2>4 DEF Told
  <2>. QED  BY <2>2, <2>3, <2>4
<1>. HIDE DEF closed, js
<1>10. Closes(journal[t], audit[t], closed, audit'[t])
  <2>1. \/ /\ journal[t].status \in {"preparing", "authorized"}
           /\ closed.status \in {"failed", "abandoned"}
        \/ journal[t].status = "committing"
        \/ /\ journal[t].status = "failed" /\ journal[t].recovery
           /\ closed.status \in {"committed", "rolled_back"}
        \/ journal[t].status = "reverting" /\ closed.status = "rolled_back"
    <3>1. journal[t].status = "failed" => journal[t].recovery
      BY DEF Open, Finished, Outcomes
    <3>. QED  BY <1>4, <3>1
  <2>2. closed.audited => audit'[t] # audit[t]
    <3>1. closed.audited => n >= 3
      BY <1>4, Zenon
    <3>2. n >= 3 => ~(n < 2)
      OBVIOUS
    <3>. QED  BY <1>8, <1>9, <3>1, <3>2
  <2>. QED  BY <1>4, <1>8, <2>1, <2>2 DEF Closes
<1>11. \A u \in Txns : Told(js[u], audit'[u], born[u])
  <2>1. Told(closed, audit'[t], born[t])
    BY <1>3, <1>4, <1>10, CloseTells DEF AInv, AllTold
  <2>. QED  BY <1>5, <1>8, <2>1 DEF AInv, AllTold
<1>12. \A u \in Txns : Untold(js[u], audit'[u]) => u = t /\ n < 2
  <2>1. \A u \in Txns \ {t} : ~Untold(js[u], audit'[u])
    BY <1>3, <1>5, <1>8, OthersAreTold
  <2>2. Untold(js[t], audit'[t]) => n < 2
    BY <1>4, <1>5, <1>8 DEF Untold
  <2>. QED  BY <2>1, <2>2
<1>13. AllTold'
  BY <1>1, <1>7, <1>11, RetainedIsTold DEF AllTold
<1>14. UntoldHoldsLease'
  BY <1>1, <1>3, <1>7, <1>11, <1>12, RetainedIsTold DEF UntoldHoldsLease, Release
<1>15. ScannedIsTold'
  BY <1>1 DEF ScannedIsTold
<1>16. KeepsOutcomes
  BY <1>5, <1>7 DEF KeepsOutcomes, Open, Finished, NoJournal
<1>17. RemovesSafely
  <2>. SUFFICES ASSUME NEW u \in Txns, journal[u].status # "none", journal'[u].status = "none"
                PROVE  /\ IF Open(journal[u])
                          THEN Len(audit'[u]) > Len(audit[u])
                          ELSE Has(audit'[u], journal[u].status)
                       /\ ~secret[u].restoring
                       /\ Cardinality({v \in Txns : Finished(journal'[v]) /\ born[v] > born[u]})
                             >= MinimumPerTarget
    BY DEF RemovesSafely, Has
  <2>1. js[u].status # "none"
    BY <1>4, <1>5 DEF Outcomes
  <2>2. n >= 4
    BY <1>2, <1>6, <2>1 DEF Retained
  <2>3. /\ u \in Removable(js, secret) /\ ~secret[u].restoring
        /\ Cardinality({v \in Txns : Finished(journal'[v]) /\ born[v] > born[u]})
              >= MinimumPerTarget
    BY <1>2, <1>3, <1>5, <1>6, <2>1, RemovalIsSafe
  <2>4. CASE u = t
    BY <1>3, <1>8, <1>9, <2>2, <2>3, <2>4, AppendHas
  <2>5. CASE u # t
    <3>1. Finished(journal[u])
      BY <1>5, <2>3, <2>5 DEF Removable, Rows
    <3>2. Has(audit'[u], journal[u].status)
      BY <1>5, <1>12, <2>5, <3>1 DEF Untold
    <3>. QED  BY <2>3, <3>1, <3>2 DEF Open
  <2>. QED  BY <2>4, <2>5
<1>18. Simulates
  <2>1. ASSUME NEW u \in Txns
        PROVE  \/ journal'[u] = js[u]
               \/ journal'[u] = NoJournal /\ Finished(js[u]) /\ Has(audit'[u], js[u].status)
    <3>1. CASE u \in gone \cup half
      <4>1. u \in Removable(js, secret) /\ ~(n < 4)
        BY <1>2, <3>1
      <4>2. Finished(js[u]) /\ ~(n < 2)
        BY <4>1 DEF Removable, Rows
      <4>3. Has(audit'[u], js[u].status)
        BY <1>12, <4>2 DEF Untold
      <4>. QED  BY <1>7, <4>2, <4>3
    <3>2. CASE u \notin gone \cup half
      BY <1>6, <3>2 DEF Retained
    <3>. QED  BY <3>1, <3>2
  <2>2. Turns(journal[t], audit[t], js[t], audit'[t]) /\ Finished(js[t])
    BY <1>4, <1>5, <1>10 DEF Turns, Finished
  <2>3. \A u \in Txns : js[u].recovery => js[u].status \in {"committing", "reverting", "failed"}
    BY <1>4, <1>5, FlagsAre
  <2>. QED  BY <1>5, <1>8, <2>1, <2>2, <2>3, CloseSimulates
<1>. QED  BY <1>13, <1>14, <1>15, <1>16, <1>17, <1>18 DEF AInv, StepIsSafe

LEMMA StartupRetentionHolds ==
    ASSUME IInv, AInv, IInv', StartupRetention
    PROVE  StepIsSafe
<1>1. /\ stage = "startup" /\ scan = {} /\ stage' # "startup"
      /\ UNCHANGED <<lease, audit, born>>
  BY DEF StartupRetention
<1>2. PICK gone \in SUBSET Removable(journal, secret), half \in SUBSET Removable(journal, secret) :
          Retain(journal, gone, half)
  BY HalvesStep DEF StartupRetention
<1>3. TypeOK /\ journal \in [Txns -> JournalType] /\ Removable(journal, secret) \subseteq Txns
  BY DEF IInv, TypeOK, Removable, Rows
<1>4. Retained(journal, gone, half)
  BY <1>2, <1>3, RetainStep
<1>5. \A u \in Txns : journal'[u] \in {NoJournal, journal[u]}
  BY <1>4 DEF Retained
<1>6. \A u \in Txns : Untold(journal[u], audit[u]) => Refused(journal[u])
  BY <1>1 DEF AInv, ScannedIsTold
<1>7. AllTold'
  BY <1>1, <1>5, RetainedIsTold DEF AInv, AllTold
<1>8. UntoldHoldsLease' /\ ScannedIsTold'
  BY <1>1, <1>5, <1>6, RetainedIsTold DEF AInv, AllTold, UntoldHoldsLease, ScannedIsTold
<1>9. KeepsOutcomes
  BY <1>5 DEF KeepsOutcomes, Finished, NoJournal
<1>10. RemovesSafely
  <2>. SUFFICES ASSUME NEW u \in Txns, journal[u].status # "none", journal'[u].status = "none"
                PROVE  /\ IF Open(journal[u])
                          THEN Len(audit'[u]) > Len(audit[u])
                          ELSE Has(audit'[u], journal[u].status)
                       /\ ~secret[u].restoring
                       /\ Cardinality({v \in Txns : Finished(journal'[v]) /\ born[v] > born[u]})
                             >= MinimumPerTarget
    BY DEF RemovesSafely, Has
  <2>1. /\ u \in Removable(journal, secret) /\ ~secret[u].restoring
        /\ Cardinality({v \in Txns : Finished(journal'[v]) /\ born[v] > born[u]})
              >= MinimumPerTarget
    BY <1>2, <1>3, <1>4, RemovalIsSafe
  <2>2. Finished(journal[u]) /\ ~Refused(journal[u])
    BY <2>1 DEF Removable, Rows
  <2>. QED  BY <1>1, <1>6, <2>1, <2>2 DEF Open, Untold
<1>11. Simulates
  <2>1. ASSUME NEW u \in Txns
        PROVE  \/ journal'[u] = journal[u]
               \/ journal'[u] = NoJournal /\ Finished(journal[u])
                  /\ Has(audit'[u], journal[u].status)
    <3>1. CASE u \in gone \cup half
      BY <1>1, <1>5, <1>6, <3>1 DEF Removable, Rows, Untold
    <3>2. CASE u \notin gone \cup half
      BY <1>4, <3>2 DEF Retained
    <3>. QED  BY <3>1, <3>2
  <2>2. \A u \in Txns : Phase(journal[u], audit'[u]) = Phase(journal[u], audit[u])
    BY <1>1
  <2>3. \E gone2 \in SUBSET {u \in Txns : phases[u] \in Journal!Done} :
           phases' = Journal!Without(phases, gone2)
    <3>1. phases = [u \in Txns |-> Phase(journal[u], audit'[u])]
      BY <2>2, PhasesAre
    <3>. QED  BY <1>3, <2>1, <3>1, FlagsAre, CleanupForgets
  <2>4. Journal!Forget
    BY <2>3 DEF Journal!Forget, phases
  <2>. QED  BY <2>4 DEF Simulates, Journal!Next
<1>. QED  BY <1>7, <1>8, <1>9, <1>10, <1>11 DEF AInv, StepIsSafe

LEMMA ClosingHolds ==
    ASSUME IInv, AInv, IInv', NEW t \in Txns,
           CommitReceipt(t) \/ FailClean(t) \/ Abandon(t) \/ Rollback(t)
    PROVE  StepIsSafe
<1>1. journal[t] \in JournalType
  BY DEF IInv, TypeOK
<1>2. CASE CommitReceipt(t)
  <2>. DEFINE j == [journal[t] EXCEPT !.status = "committed", !.recovery = FALSE,
                                      !.received = TRUE]
  <2>1. PICK n \in 1..5 : Close(t, j, n)
    BY <1>2 DEF CommitReceipt
  <2>2. j \in JournalType /\ j.status = "committed" /\ ~j.recovery
    BY <1>1 DEF JournalType, Statuses, Outcomes
  <2>3. Open(journal[t]) /\ journal[t].status \in {"committing", "failed"}
    BY <1>2 DEF CommitReceipt, Open, Finished, Outcomes
  <2>. QED  BY <2>1, <2>2, <2>3, CloseHolds DEF Outcomes
<1>3. CASE FailClean(t)
  <2>. DEFINE j == [journal[t] EXCEPT !.status = "failed", !.recovery = FALSE]
  <2>1. PICK n \in 1..5 : Close(t, j, n)
    BY <1>3 DEF FailClean
  <2>2. j \in JournalType /\ j.status = "failed" /\ ~j.recovery
    BY <1>1 DEF JournalType, Statuses, Outcomes
  <2>3. Open(journal[t]) /\ journal[t].status \in {"preparing", "authorized", "committing"}
    BY <1>3 DEF FailClean, Open, Finished, Outcomes
  <2>. QED  BY <2>1, <2>2, <2>3, CloseHolds DEF Outcomes
<1>4. CASE Abandon(t)
  <2>. DEFINE j == Abandoned(journal[t])
  <2>1. PICK n \in 1..5 : Close(t, j, n)
    BY <1>4 DEF Abandon
  <2>2. j \in JournalType /\ j.status = "abandoned" /\ ~j.recovery
    BY <1>1 DEF JournalType, Statuses, Outcomes, Abandoned
  <2>3. Open(journal[t]) /\ journal[t].status \in {"preparing", "authorized"}
    BY <1>4 DEF Abandon, Open, Finished, Outcomes
  <2>. QED  BY <2>1, <2>2, <2>3, CloseHolds DEF Outcomes
<1>5. CASE Rollback(t)
  <2>. DEFINE j == [journal[t] EXCEPT !.status = "rolled_back", !.recovery = FALSE]
  <2>1. PICK n \in 1..5 : Close(t, j, n)
    BY <1>5 DEF Rollback
  <2>2. j \in JournalType /\ j.status = "rolled_back" /\ ~j.recovery
    BY <1>1 DEF JournalType, Statuses, Outcomes
  <2>3. Open(journal[t]) /\ journal[t].status \in {"committing", "reverting", "failed"}
    BY <1>5 DEF Rollback, Open, Finished, Outcomes
  <2>. QED  BY <2>1, <2>2, <2>3, CloseHolds DEF Outcomes
<1>. QED  BY <1>2, <1>3, <1>4, <1>5

-----------------------------------------------------------------------------
(* Taking the lease, and start-up. *)

LEMMA AcquireLeaseHolds ==
    ASSUME IInv, AInv, IInv', stage = "idle", NEW op \in {"prepare", "revert"}, NEW t,
           AcquireLease(op, t)
    PROVE  StepIsSafe
<1>. DEFINE o == lease.owner
<1>1. CASE AcquireFree(op, t)
  BY <1>1, QuietHolds DEF AcquireFree, LeaseAcquired
<1>2. CASE AcquireOrphaned(op, t)
  <2>1. /\ o \in Txns /\ journal[o].status = "none" /\ stage' = op
        /\ UNCHANGED <<journal, audit, born>>
    BY <1>2 DEF AcquireOrphaned, LeaseAcquired
  <2>2. \A u \in Txns : ~Untold(journal[u], audit[u])
    BY <2>1 DEF AInv, UntoldHoldsLease, Untold, Finished, Outcomes
  <2>3. AllTold' /\ UntoldHoldsLease' /\ ScannedIsTold'
    BY <2>1, <2>2 DEF AInv, AllTold, UntoldHoldsLease, ScannedIsTold
  <2>4. KeepsOutcomes /\ RemovesSafely
    BY <2>1 DEF KeepsOutcomes, RemovesSafely, Finished
  <2>5. Simulates
    BY <2>1, PhasesAre DEF Simulates
  <2>. QED  BY <2>3, <2>4, <2>5 DEF AInv, StepIsSafe
<1>3. CASE AcquireFinished(op, t)
  <2>. DEFINE all == IF journal[o].audited THEN 1 ELSE 3
              reach == Upto(~journal[o].audited /\ EnsureRaises(o, journal[o].status), 1, all)
  <2>1. /\ o \in Txns /\ Finished(journal[o]) /\ UNCHANGED born
        /\ \E n \in 0..reach :
              /\ IF journal[o].audited
                 THEN UNCHANGED <<audit, auditTorn>>
                 ELSE EnsureLine(o, journal[o].status, n, 1)
              /\ SaveManifest(o, [journal[o] EXCEPT !.audited = TRUE], n, 2)
              /\ Release(o, n, all)
              /\ IF n = all THEN LeaseAcquired(op, t) ELSE Stops(n, reach)
    BY <1>3 DEF AcquireFinished
  <2>2. all \in {1, 3}
    OBVIOUS
  <2>. HIDE DEF all, reach
  <2>3. PICK n \in 0..reach :
              /\ IF journal[o].audited
                 THEN UNCHANGED <<audit, auditTorn>>
                 ELSE EnsureLine(o, journal[o].status, n, 1)
              /\ SaveManifest(o, [journal[o] EXCEPT !.audited = TRUE], n, 2)
              /\ Release(o, n, all)
              /\ IF n = all THEN LeaseAcquired(op, t) ELSE Stops(n, reach)
    BY <2>1
  <2>4. stage' # "startup"
    BY <2>3, StopsStep DEF LeaseAcquired
  <2>. QED  BY <2>1, <2>2, <2>3, <2>4, CompletionHolds DEF all
<1>4. CASE AcquireStale(op, t)
  <2>. DEFINE reach == Upto(EnsureRaises(o, "abandoned"), 2, 4)
  <2>1. /\ o \in Txns /\ journal[o].status \in {"preparing", "authorized"} /\ UNCHANGED born
        /\ \E n \in 1..reach :
              /\ EnsureLine(o, "abandoned", n, 2)
              /\ SaveManifest(o, [Abandoned(journal[o]) EXCEPT !.audited = n >= 3], n, 1)
              /\ Release(o, n, 4)
              /\ IF n = 4 THEN LeaseAcquired(op, t) ELSE Stops(n, reach)
    BY <1>4 DEF AcquireStale
  <2>. HIDE DEF reach
  <2>2. PICK n \in 1..reach :
              /\ EnsureLine(o, "abandoned", n, 2)
              /\ SaveManifest(o, [Abandoned(journal[o]) EXCEPT !.audited = n >= 3], n, 1)
              /\ Release(o, n, 4)
              /\ IF n = 4 THEN LeaseAcquired(op, t) ELSE Stops(n, reach)
    BY <2>1
  <2>3. stage' # "startup"
    BY <2>2, StopsStep DEF LeaseAcquired
  <2>. QED  BY <2>1, <2>2, <2>3, AbandonmentHolds
<1>5. CASE AcquireRefused
  BY <1>5, MarkHolds DEF AcquireRefused
<1>. QED  BY <1>1, <1>2, <1>3, <1>4, <1>5 DEF AcquireLease

LEMMA RecoverEnvironmentHolds ==
    ASSUME IInv, AInv, IInv', NEW t \in Txns, RecoverEnvironment(t)
    PROVE  StepIsSafe
<1>1. stage = "startup" /\ t \in scan
  BY DEF RecoverEnvironment
<1>2. CASE ScanStaged(t)
  <2>. DEFINE reach == IF EnsureRaises(t, "abandoned") THEN 1 ELSE Upto(lease.owner = Torn, 4, 4)
  <2>1. /\ journal[t].status \in {"preparing", "authorized"} /\ UNCHANGED <<born, row>>
        /\ \E n \in 1..reach :
              /\ EnsureLine(t, "abandoned", n, 2)
              /\ SaveManifest(t, [Abandoned(journal[t]) EXCEPT !.audited = n >= 3], n, 1)
              /\ Release(t, n, 4)
              /\ Scanned(t, n, reach, 4)
    BY <1>2 DEF ScanStaged
  <2>. HIDE DEF reach
  <2>2. PICK n \in 1..reach :
              /\ EnsureLine(t, "abandoned", n, 2)
              /\ SaveManifest(t, [Abandoned(journal[t]) EXCEPT !.audited = n >= 3], n, 1)
              /\ Release(t, n, 4)
              /\ Scanned(t, n, reach, 4)
    BY <2>1
  <2>. QED  BY <1>1, <2>1, <2>2, AbandonmentHolds DEF Scanned
<1>3. CASE ScanInterrupted(t)
  <2>. DEFINE reach == Upto(auditTorn, 3, 3)
  <2>1. PICK n : SaveManifest(t, [journal[t] EXCEPT !.recovery = TRUE], n, 1) /\ Scanned(t, n, reach, 3)
    BY <1>3 DEF ScanInterrupted
  <2>2. UNCHANGED <<audit, born, row>> /\ Open(journal[t])
    BY <1>3 DEF ScanInterrupted, Interrupted, Open, Finished, Outcomes
  <2>. QED  BY <1>1, <2>1, <2>2, MarkHolds DEF Scanned
<1>4. CASE ScanFailed(t)
  <2>1. UNCHANGED <<journal, audit, born, row>> /\ Open(journal[t]) /\ Scanned(t, 1, 1, 1)
    BY <1>4 DEF ScanFailed, Open, Finished
  <2>2. Works(journal[t], audit[t], journal'[t], audit'[t])
    BY <2>1 DEF Works
  <2>. QED  BY <1>1, <2>1, <2>2, OpenStepHolds DEF Scanned, Open
<1>5. CASE ScanFinished(t)
  <2>. DEFINE all == IF journal[t].audited THEN 1 ELSE 3
              reach == IF ~journal[t].audited /\ EnsureRaises(t, journal[t].status)
                       THEN 0 ELSE Upto(lease.owner = Torn, all, all)
  <2>1. /\ Finished(journal[t]) /\ UNCHANGED <<born, row>>
        /\ \E n \in 0..reach :
              /\ IF journal[t].audited
                 THEN UNCHANGED <<audit, auditTorn>>
                 ELSE EnsureLine(t, journal[t].status, n, 1)
              /\ SaveManifest(t, [journal[t] EXCEPT !.audited = TRUE], n, 2)
              /\ Release(t, n, all)
              /\ Scanned(t, n, reach, all)
    BY <1>5 DEF ScanFinished
  <2>2. all \in {1, 3}
    OBVIOUS
  <2>. HIDE DEF all, reach
  <2>3. PICK n \in 0..reach :
              /\ IF journal[t].audited
                 THEN UNCHANGED <<audit, auditTorn>>
                 ELSE EnsureLine(t, journal[t].status, n, 1)
              /\ SaveManifest(t, [journal[t] EXCEPT !.audited = TRUE], n, 2)
              /\ Release(t, n, all)
              /\ Scanned(t, n, reach, all)
    BY <2>1
  <2>. QED  BY <1>1, <2>1, <2>2, <2>3, CompletionHolds DEF all, Scanned
<1>6. CASE ScanRefused(t) /\ Refused(journal[t])
  BY <1>1, <1>6, QuietHolds DEF ScanRefused
<1>. QED  BY <1>2, <1>3, <1>4, <1>5, <1>6 DEF RecoverEnvironment

-----------------------------------------------------------------------------
(* Every step. *)

LEMMA QuietWorkHolds ==
    ASSUME IInv, AInv, IInv', NEW t \in Txns,
           \/ Recover(t) \/ IssueRestoreToken(t) \/ RenewLease(t)
           \/ CredentialsLost(t) \/ RestoreExpires(t)
    PROVE  StepIsSafe
<1>1. CASE Recover(t)
  <2>1. UNCHANGED <<lease, journal, audit, born>> /\ stage' # "startup"
    BY <1>1, StopsStep DEF Recover
  <2>. QED  BY <2>1, QuietHolds
<1>2. CASE IssueRestoreToken(t)
  <2>1. UNCHANGED <<lease, journal, audit, born>> /\ stage' # "startup"
    BY <1>2, StopsStep DEF IssueRestoreToken
  <2>. QED  BY <2>1, QuietHolds
<1>3. CASE RenewLease(t)
  BY <1>3, QuietHolds DEF RenewLease, Renew
<1>4. CASE CredentialsLost(t) \/ RestoreExpires(t)
  BY <1>4, QuietHolds DEF CredentialsLost, RestoreExpires
<1>. QED  BY <1>1, <1>2, <1>3, <1>4

LEMMA WorkHolds ==
    ASSUME IInv, AInv, IInv', NEW t \in Txns, Work(t)
    PROVE  StepIsSafe
<1>1. CASE StartRevert(t)
  BY <1>1, AcquireLeaseHolds DEF StartRevert
<1>2. CASE RecoverEnvironment(t)
  BY <1>2, RecoverEnvironmentHolds
<1>3. CASE (\E plan \in Plans : Prepare(t, plan)) \/ BeginRevert(t)
  BY <1>3, PrepareHolds, BeginRevertHolds
<1>4. CASE \/ \E f \in Files : UploadBackup(t, f)
           \/ Authorize(t) \/ BeginCommit(t) \/ FailUnresolved(t)
  BY <1>4, UploadBackupHolds, AuthorizeHolds, BeginCommitHolds, FailUnresolvedHolds
<1>5. CASE CommitReceipt(t) \/ FailClean(t) \/ Abandon(t) \/ Rollback(t)
  BY <1>5, ClosingHolds
<1>6. CASE \/ Recover(t) \/ IssueRestoreToken(t) \/ RenewLease(t)
           \/ CredentialsLost(t) \/ RestoreExpires(t)
  BY <1>6, QuietWorkHolds
<1>. QED  BY <1>1, <1>2, <1>3, <1>4, <1>5, <1>6 DEF Work

LEMMA NextIsSafe == IInv /\ AInv /\ [Next]_vars => AInv' /\ [KeepsOutcomes /\ RemovesSafely /\ Simulates]_vars
<1>. SUFFICES ASSUME IInv, AInv, [Next]_vars
              PROVE  AInv' /\ [KeepsOutcomes /\ RemovesSafely /\ Simulates]_vars
  OBVIOUS
<1>0. IInv'
  BY NextIInv
<1>1. CASE StartPrepare
  BY <1>0, <1>1, AcquireLeaseHolds DEF StartPrepare, StepIsSafe
<1>2. CASE \E t \in Txns : Work(t)
  BY <1>0, <1>2, WorkHolds DEF StepIsSafe
<1>3. CASE StartupRetention
  BY <1>0, <1>3, StartupRetentionHolds DEF StepIsSafe
<1>4. CASE Rejected \/ Crash \/ Restart \/ LeaseExpires \/ MonthsPass \/ RowChanges \/ FailuresEnd
  <2>1. /\ UNCHANGED <<journal, audit, born>> /\ lease'.owner = lease.owner
        /\ stage' = "startup" => \/ stage = "startup" /\ scan' = scan /\ row' = row
                                 \/ {t \in Txns : journal[t].status # "none"} \subseteq scan'
    <3>1. CASE LeaseExpires
      BY <3>1 DEF LeaseExpires, IInv, TypeOK
    <3>2. CASE Rejected \/ Crash \/ Restart \/ MonthsPass \/ RowChanges \/ FailuresEnd
      BY <3>2 DEF Rejected, Crash, Restart, MonthsPass, RowChanges, FailuresEnd
    <3>. QED  BY <1>4, <3>1, <3>2
  <2>. QED  BY <1>0, <2>1, QuietHolds DEF StepIsSafe
<1>5. CASE UNCHANGED vars
  BY <1>5 DEF vars, AInv, AllTold, UntoldHoldsLease, ScannedIsTold, Refused
<1>. QED  BY <1>1, <1>2, <1>3, <1>4, <1>5 DEF Next

LEMMA InitIsTold == Init => AInv
<1>. SUFFICES ASSUME Init PROVE AInv
  OBVIOUS
<1>1. \A t \in Txns : journal[t] = NoJournal /\ audit[t] = <<>> /\ stage = "idle"
  BY DEF Init
<1>2. Told(NoJournal, <<>>, 0) /\ ~Untold(NoJournal, <<>>)
  BY DEF Told, Untold, Has, NoJournal, Finished, Outcomes
<1>. QED  BY <1>1, <1>2 DEF Init, AInv, AllTold, UntoldHoldsLease, ScannedIsTold

LEMMA AlwaysTold == Spec => [](IInv /\ AInv)
<1>1. Init => IInv /\ AInv
  BY InitIInv, InitIsTold
<1>2. (IInv /\ AInv) /\ [Next]_vars => (IInv /\ AInv)'
  BY NextIInv, NextIsSafe
<1>. QED  BY <1>1, <1>2, PTL DEF Spec

-----------------------------------------------------------------------------
(* The theorems. *)

\* However often an operation is cut short between its manifest and its line,
\* and completed by a later one or by start-up, the log tells each outcome once
\* and ends with the journal's (ensureTerminalAudit).
THEOREM AuditIsFaithful == Spec => []AuditMatchesOutcome
<1>1. IInv /\ AInv => AuditMatchesOutcome
  <2>. SUFFICES ASSUME AInv, NEW t \in Txns
                PROVE  /\ \A i, k \in DOMAIN audit[t] : audit[t][i] = audit[t][k] => i = k
                       /\ journal[t].status \in Outcomes /\ journal[t].audited =>
                             audit[t] # <<>> /\ audit[t][Len(audit[t])] = journal[t].status
    BY DEF AuditMatchesOutcome
  <2>1. Told(journal[t], audit[t], born[t])
    BY DEF AInv, AllTold
  <2>. QED  BY <2>1 DEF Told, Has
<1>. QED  BY <1>1, AlwaysTold, PTL

\* No step of any operation, start-up or cleanup gives a finished transaction
\* another outcome, but for the undo of a committed creation (beginRevert).
THEOREM OutcomesAreKept == Spec => OutcomeIsFinal
<1>1. IInv /\ AInv /\ [Next]_vars =>
          [\A t \in Txns :
              Finished(journal[t]) =>
                  \/ journal'[t].status \in {journal[t].status, "none"}
                        /\ ~journal'[t].recovery
                  \/ journal[t].status = "committed" /\ journal'[t].status = "reverting"]_vars
  BY NextIsSafe DEF KeepsOutcomes
<1>. QED  BY <1>1, AlwaysTold, PTL DEF Spec, OutcomeIsFinal

\* For any number of transactions and any minimum, retention deletes no journal
\* that is open or that the log lacks the outcome of, none with a live restore
\* credential, and none of the newest MinimumPerTarget (applyRetentionInternal).
THEOREM RetentionLosesNothing == Spec => RetentionIsSafe
<1>1. IInv /\ AInv /\ [Next]_vars =>
          [\A t \in Txns :
              journal[t].status # "none" /\ journal'[t].status = "none" =>
                  /\ IF Open(journal[t])
                     THEN Len(audit'[t]) > Len(audit[t])
                     ELSE \E i \in DOMAIN audit'[t] : audit'[t][i] = journal[t].status
                  /\ ~secret[t].restoring
                  /\ Cardinality({u \in Txns : Finished(journal'[u]) /\ born[u] > born[t]})
                        >= MinimumPerTarget]_vars
  BY NextIsSafe DEF RemovesSafely
<1>. QED  BY <1>1, AlwaysTold, PTL DEF Spec, RetentionIsSafe

\* At every crash point and with every retry the files implement SaveJournal:
\* one active save, only the legal steps of each, several removals at once, and
\* an outcome that nothing but cleanup or the undo of a creation replaces.
THEOREM StoreKeepsTheJournal == Spec => ImplementsSaveJournal
<1>1. Init => Journal!Init
  <2>. SUFFICES ASSUME Init PROVE Journal!Init
    OBVIOUS
  <2>1. \A t \in Txns : PhaseOf(t) = "new"
    BY DEF Init, PhaseOf, NoJournal
  <2>. QED  BY <2>1 DEF Journal!Init
<1>2. IInv /\ AInv /\ [Next]_vars => [Journal!Next]_([t \in Txns |-> PhaseOf(t)])
  <2>. SUFFICES ASSUME IInv, AInv, [Next]_vars
                PROVE  [Journal!Next]_([t \in Txns |-> PhaseOf(t)])
    OBVIOUS
  <2>1. CASE Simulates
    BY <2>1 DEF Simulates, phases
  <2>2. CASE UNCHANGED vars
    BY <2>2, PhasesAre DEF vars, phases
  <2>. QED  BY <2>1, <2>2, NextIsSafe
<1>. QED  BY <1>1, <1>2, AlwaysTold, PTL DEF Spec, ImplementsSaveJournal, Journal!Spec
=============================================================================
