--------------------------- MODULE MCConnections ---------------------------
(* Small instances of Connections. *)
EXTENDS Connections, TLC

CONSTANTS b1, b2, d1, p1, x1, x2, y1, A, B

Owners == (x1 :> A) @@ (x2 :> A) @@ (y1 :> B)

\* Two tabs whose requests overlap on the server, and a panel.  Connections are
\* created and reconnected with tokens of two accounts,
Overlapping(kinds, tokens) ==
    [tabs |-> {b1, b2}, managed |-> {}, panels |-> {d1}, kinds |-> kinds, tokens |-> tokens]

TwoAccounts == {Overlapping({"create", "reconnect"}, {x, y1}) : x \in {x1, x2}}

\* or reconnected and resumed with two tokens of one account.
TwoTokens == {Overlapping({"reconnect", "resume"}, {x1, x2})}

\* A connection is created while the session slots run out.
NoSlot == {[Overlapping({"bare", "create"}, {x}) EXCEPT !.panels = {}] : x \in {x1, x2}}

\* One tab and all that its session manager does.
Browser == {[tabs |-> {b}, managed |-> {b}, panels |-> {},
             kinds |-> {"bare", "resume"}, tokens |-> {x}] : b \in {b1, b2}, x \in {x1, x2}}

Everyone == TwoAccounts \cup TwoTokens \cup NoSlot \cup Browser

Symmetry == Permutations({b1, b2}) \cup Permutations({x1, x2})
=============================================================================
