--------------------------- MODULE MCCanaryRunner ---------------------------
(* Two launches that overlap or follow each other: enough for a lock loser, *)
(* an orphaned child and a restart after any interruption.  Two versions of *)
(* the inputs and two replacements: one may take the place of the other and *)
(* be put back.  The launches differ in nothing but their names.            *)
EXTENDS CanaryRunner, TLC

CONSTANTS l1, l2

MCLaunches == {l1, l2}
AlikeLaunches == Permutations(MCLaunches)
=============================================================================
