-------------------------- MODULE MCContamination --------------------------
(* Four samples over four repositories, two tasks and two patches: enough   *)
(* for two groups of two that a third text then joins.  The lengths put one *)
(* pair of texts on each edge of the comparison window: at threshold 4/5 a  *)
(* text of length 4 is compared with texts of length 2 to 6.                *)
EXTENDS Contamination, TLC

MCRepositories == 1..4
MCSamples == 1..4
MCTasks == {1, 2}
MCPatches == {3, 4}
MCLength == 1 :> 4 @@ 2 :> 6 @@ 3 :> 6 @@ 4 :> 4
MCRepositoryOf == {<<1, 2, 3, 4>>, <<2, 1, 1, 3>>}

MCTexts == {{t} \cup ps : t \in MCTasks, ps \in (SUBSET MCPatches) \ {{}}}

MCSampleRows ==
  {[s \in MCSamples |-> [repository |-> of[s], texts |-> texts[s]]] :
     of \in MCRepositoryOf, texts \in [MCSamples -> MCTexts]}

MCMatchings ==
  {[p \in (MCTasks \cup MCPatches) \X (MCTasks \cup MCPatches) |->
      CASE p[1] = p[2] -> MCLength[p[1]]
        [] {p[1], p[2]} = MCTasks -> t
        [] {p[1], p[2]} = MCPatches -> q
        [] OTHER -> 0] : t \in {3, 4}, q \in {3, 4}}
=============================================================================
