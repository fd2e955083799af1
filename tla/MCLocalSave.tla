---------------------------- MODULE MCLocalSave ----------------------------
(* Small instances of LocalSave. *)
EXTENDS LocalSave, TLC

CONSTANTS b1, b2, t1, t2, f1, f2, e1

\* One save of two Bicep files, a late request and a foreign edit.
Bicep == {[native |-> FALSE, txns |-> {t}, files |-> {f1, f2}, late |-> 1, edits |-> Edits] :
              t \in {t1, t2}}

\* One save of a native file, a late request and a foreign edit.
Terraform == {[native |-> TRUE, txns |-> {t}, files |-> {f}, late |-> 1, edits |-> Edits] :
                  t \in {t1, t2}, f \in {f1, f2}}

\* Two saves of a native file.
Twice == {[native |-> TRUE, txns |-> {t1, t2}, files |-> {f}, late |-> 0, edits |-> {}] :
              f \in {f1, f2}}

AllKinds == Bicep \cup Terraform \cup Twice

Symmetry == Permutations(Tabs) \cup Permutations({t1, t2}) \cup Permutations({f1, f2})
=============================================================================
