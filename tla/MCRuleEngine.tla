---------------------------- MODULE MCRuleEngine ----------------------------
(* Constants of the TLC runs of RuleEngine. *)
EXTENDS RuleEngine, TLC

f(u, h, e) == [uuid |-> u, http |-> h, egress |-> e]

mcTwoFiles == {f(1, "h1", "own"), f(NoUuid, "h2", "inherit")}
mcOneTable == {f(2, "h1", "inherit")}
mcIpFiles == {f(1, "h1", "own"), f(NoUuid, "h2", "inherit"), f(1, "invalid", "own")}
mcDefaultFiles == {f(2, "h1", "own"), f(2, "garbled", "own"), f(2, "invalid", "own")}
mcMinted == {f(NoUuid, "h1", "own"), f(1, "h2", "own")}
mcInherits == {f(1, "h1", "inherit")}
mcNoList == {f(NoUuid, "h1", "empty")}
mcThreads == Permutations(Thread)
mcOneNode == [t \in Thread |-> "n"]
=============================================================================
