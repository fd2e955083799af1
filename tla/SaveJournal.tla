---------------------------- MODULE SaveJournal ----------------------------
(***************************************************************************)
(* What a journal of saves promises, whatever it is stored in: the life of *)
(* each save, and that at most one of an environment's saves is active.    *)
(*                                                                         *)
(*    new -> staged -> writing -> committed -> removing -> undone          *)
(*              |         |                                                *)
(*              v         +-> undone                                       *)
(*           dropped <----+                                                *)
(*                                                                         *)
(* staged:   nothing may be written yet      writing: source may be changed *)
(* removing: a committed creation is undone  forgotten: removed by cleanup  *)
(*                                                                         *)
(* It abstracts the status and recoveryRequired fields of the manifests of *)
(* src/CitadelUI/server/transactions.mjs; TransactionStore implements it.  *)
(***************************************************************************)
CONSTANT Txns

VARIABLE phase

Active == {"staged", "writing", "removing"}
Done   == {"committed", "undone", "dropped"}
Phases == Active \cup Done \cup {"new", "forgotten"}

\* The steps that open a save, and the steps of an open one.
Opening == {<<"new", "staged">>, <<"committed", "removing">>}
Moving  == {<<"staged", "writing">>, <<"staged", "dropped">>,
            <<"writing", "committed">>, <<"writing", "undone">>,
            <<"writing", "dropped">>, <<"removing", "undone">>}

\* ph without the finished saves in gone.
Without(ph, gone) == [t \in Txns |-> IF t \in gone THEN "forgotten" ELSE ph[t]]

Init == phase = [t \in Txns |-> "new"]

\* A save or the undo of a creation opens, when no other is active.
Open(t) ==
    /\ \A u \in Txns : phase[u] \notin Active
    /\ \E p \in Phases :
          /\ <<phase[t], p>> \in Opening
          /\ phase' = [phase EXCEPT ![t] = p]

\* The active save moves on; closing it may be followed by cleanup.
Move(t) ==
    \E p \in Phases :
       /\ <<phase[t], p>> \in Moving
       /\ LET moved == [phase EXCEPT ![t] = p]
          IN  \E gone \in SUBSET {u \in Txns : moved[u] \in Done} :
                 phase' = Without(moved, gone)

\* Cleanup on its own.
Forget ==
    \E gone \in SUBSET {u \in Txns : phase[u] \in Done} :
       phase' = Without(phase, gone)

Next == Forget \/ \E t \in Txns : Open(t) \/ Move(t)

Spec == Init /\ [][Next]_phase
=============================================================================
