---------------------------- MODULE MCGitHubSave ----------------------------
(* Small instances of GitHubSave. *)
EXTENDS GitHubSave, TLC

CONSTANTS t1, t2, dev, source, env, x, y, gone

MCTabs        == {t1, t2}
MCEnvironment == [t \in MCTabs |-> dev]
MCFiles       == {source, env}
MCBridge      == {env}
MCContents    == {x, y}
MCStart       == [f \in MCFiles |-> IF f = source THEN x ELSE gone]
Symmetry      == Permutations(MCTabs)
=============================================================================
