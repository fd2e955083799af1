----------------------- MODULE StartupRecoveryProofs -----------------------
(***************************************************************************)
(* Proofs about StartupRecovery, for any number of environments, with and  *)
(* without files that are cut off and registry rows that change, and for   *)
(* any number of crashes.                                                  *)
(***************************************************************************)
EXTENDS StartupRecovery, TLAPS

Types ==
    /\ process \in {"down", "startup", "serving"}
    /\ next \in Nat \ {0}
    /\ status \in [Environments -> Statuses]
    /\ marked \in [Environments -> BOOLEAN]

\* Interrupted work that start-up must not leave as it is.
Unmarked(e) == e \notin refused /\ status[e] \in Writing /\ ~marked[e]

\* start-up has left none behind it.
BehindIsMarked == process = "startup" => \A i \in 1..(next - 1) : ~Unmarked(Order[i])

IInv == Types /\ BehindIsMarked

-----------------------------------------------------------------------------
LEMMA InitHolds == Init => IInv
BY DEF Init, IInv, Types, BehindIsMarked, Statuses

\* A request changes journals only while the server serves.
LEMMA MoveHolds ==
    ASSUME IInv, NEW e \in Environments, NEW s \in Statuses, Moves(e, s),
           NEW m \in BOOLEAN, marked' \in {marked, [marked EXCEPT ![e] = m]}
    PROVE  IInv'
BY DEF IInv, Types, BehindIsMarked, Moves

\* recoverEnvironment marks what it looks at, or raises, or passes it over.
LEMMA RecoverHolds == IInv /\ RecoverEnvironment => IInv'
<1>. SUFFICES ASSUME IInv, RecoverEnvironment PROVE IInv'
  OBVIOUS
<1>. DEFINE e == Order[next]
<1>1. /\ e \in Environments /\ process = "startup" /\ refused' = refused
      /\ next \in Nat \ {0}
  BY DEF RecoverEnvironment, Environments, IInv, Types
<1>2. CASE e \in refused
  <2>1. PassOver(e)
    BY <1>2 DEF RecoverEnvironment
  <2>2. \A i \in 1..(next' - 1) : i \in 1..(next - 1) \/ i = next
    BY <1>1, <2>1 DEF PassOver
  <2>3. \A i \in 1..(next' - 1) : ~Unmarked(Order[i])
    BY <1>1, <1>2, <2>2 DEF IInv, BehindIsMarked, Unmarked
  <2>. QED
    BY <1>1, <2>1, <2>3 DEF PassOver, IInv, Types, BehindIsMarked, Unmarked
<1>3. CASE e \notin refused
  <2>1. RecoverJournal(e)
    BY <1>3 DEF RecoverEnvironment
  <2>2. status' \in [Environments -> Statuses]
    BY <1>1, <2>1 DEF RecoverJournal, IInv, Types, Statuses
  <2>3. marked' \in [Environments -> BOOLEAN]
    <3>1. (marked[e] \/ Marks(status[e])) \in BOOLEAN
      OBVIOUS
    <3>. QED  BY <3>1, <1>1, <2>1 DEF RecoverJournal, IInv, Types
  <2>4. process' \in {"down", "startup"} /\ next' \in Nat \ {0}
    BY <1>1, <2>1 DEF RecoverJournal
  <2>5. \A f \in Environments : Unmarked(f)' => Unmarked(f) /\ f # e
    <3>. SUFFICES ASSUME NEW f \in Environments, Unmarked(f)' PROVE Unmarked(f) /\ f # e
      OBVIOUS
    <3>1. f # e
      <4>. SUFFICES ASSUME f = e PROVE FALSE
        OBVIOUS
      <4>1. status'[e] = status[e] /\ status[e] \in Writing
        BY <1>1, <2>1 DEF RecoverJournal, Unmarked, IInv, Types, Writing
      <4>2. marked'[e]
        BY <1>1, <2>1, <4>1 DEF RecoverJournal, Marks, IInv, Types
      <4>. QED  BY <4>2 DEF Unmarked
    <3>. QED  BY <1>1, <2>1, <3>1 DEF RecoverJournal, Unmarked, IInv, Types
  <2>6. BehindIsMarked'
    <3>1. DOMAIN Order = 1..Len(Order) /\ Len(Order) \in Nat /\ next \in DOMAIN Order
      BY StartupAssumption DEF StartupAssumption, RecoverEnvironment
    <3>2. ASSUME process' = "startup", NEW i \in 1..(next' - 1) PROVE ~Unmarked(Order[i])'
      <4>1. next' = next + 1
        BY <1>1, <2>1, <3>2 DEF RecoverJournal
      <4>2. i \in 1..(next - 1) \/ i = next
        BY <1>1, <4>1
      <4>3. Order[i] \in Environments
        BY <1>1, <3>1, <4>2 DEF Environments
      <4>4. Unmarked(Order[i])' => Unmarked(Order[i]) /\ Order[i] # e
        BY <2>5, <4>3
      <4>. QED  BY <1>1, <4>2, <4>4 DEF IInv, BehindIsMarked
    <3>. QED  BY <3>2 DEF BehindIsMarked
  <2>. QED  BY <2>2, <2>3, <2>4, <2>6 DEF IInv, Types
<1>. QED  BY <1>2, <1>3

LEMMA StepHolds == IInv /\ [Next]_vars => IInv'
<1>. SUFFICES ASSUME IInv, [Next]_vars PROVE IInv'
  OBVIOUS
<1>1. ASSUME NEW e \in Environments, Prepare(e) PROVE IInv'
  BY <1>1, MoveHolds DEF Prepare, Statuses
<1>2. ASSUME NEW e \in Environments, BeginRevert(e) PROVE IInv'
  BY <1>2, MoveHolds DEF BeginRevert, Statuses
<1>3. ASSUME NEW e \in Environments, Commit(e) \/ Fail(e) \/ Close(e) PROVE IInv'
  BY <1>3, MoveHolds DEF Commit, Fail, Close, Statuses
<1>4. ASSUME NEW e \in Environments, TearLease(e) \/ RefusePrepare(e) \/ RowChanges(e)
      PROVE  IInv'
  BY <1>4 DEF TearLease, RefusePrepare, RowChanges, IInv, Types, BehindIsMarked
<1>5. CASE Crash
  BY <1>5 DEF Crash, Down, IInv, Types, BehindIsMarked
<1>6. CASE Restart
  BY <1>6 DEF Restart, IInv, Types, BehindIsMarked
<1>7. CASE RecoverEnvironment
  BY <1>7, RecoverHolds
<1>8. CASE Serve
  BY <1>8 DEF Serve, IInv, Types, BehindIsMarked
<1>9. CASE UNCHANGED vars
  BY <1>9 DEF vars, IInv, Types, BehindIsMarked, Unmarked
<1>. QED
  BY <1>1, <1>2, <1>3, <1>4, <1>5, <1>6, <1>7, <1>8, <1>9 DEF Next

\* Every environment is behind start-up when it opens.
LEMMA OpeningHolds ==
    ASSUME IInv, [Next]_vars, process # "serving", process' = "serving"
    PROVE  \A e \in Environments \ refused : status[e] \in Writing => marked[e]
<1>1. Serve
  BY DEF Next, vars, Prepare, BeginRevert, TearLease, Commit, Fail, Close, Moves,
         RefusePrepare, RowChanges, Crash, Down, Restart, RecoverEnvironment,
         RecoverJournal, PassOver
<1>2. \A i \in DOMAIN Order : i \in 1..(next - 1)
  <2>1. DOMAIN Order = 1..Len(Order) /\ Len(Order) \in Nat
    BY StartupAssumption DEF StartupAssumption
  <2>. QED  BY <1>1, <2>1 DEF Serve, IInv, Types
<1>. QED  BY <1>1, <1>2 DEF Serve, IInv, BehindIsMarked, Unmarked, Environments

\* However many environments there are, wherever start-up died before and
\* whichever journals it passed over, the server does not open while a journal
\* that the registry accepts is in the middle of its writes and not offered for
\* recovery.
THEOREM OpeningImpliesMarked == Spec => OpensWithMarkedWork
<1>1. IInv /\ [Next]_vars =>
          [process # "serving" /\ process' = "serving" =>
              \A e \in Environments \ refused : status[e] \in Writing => marked[e]]_vars
  BY OpeningHolds
<1>. QED
  BY <1>1, InitHolds, StepHolds, PTL DEF Spec, OpensWithMarkedWork
=============================================================================
