------------------------ MODULE MCTransactionStore ------------------------
(* Small instances of TransactionStore. *)
EXTENDS TransactionStore, TLC

CONSTANTS t1, t2, t3, f1, f2

Pair  == {t1, t2}
Three == {t1, t2, t3}

Edit       == [existed |-> Files, native |-> FALSE, creation |-> FALSE]
Contract   == [existed |-> {}, native |-> FALSE, creation |-> TRUE]
NativeFile == [existed |-> {}, native |-> TRUE, creation |-> TRUE]

OnlyContract == {Contract}
CrashPlans == {Edit, NativeFile}

\* The workspace is removed from the registry, and may be registered again.
Removals  == [r \in {"plain", "native"} |-> {"plain"} \ {r}]
AnyChange == [r \in {"plain", "native"} |-> {"plain", "native"} \ {r}]

Symmetry == Permutations(Txns)
=============================================================================
