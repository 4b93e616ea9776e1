----------------------------- MODULE MCPipeline -----------------------------
EXTENDS Pipeline

\* Task rows: one valid row of every instance and payload that matters, a row that fails
\* two checks, and one without an instance.
MCTaskRows ==
    {[id |-> "i1", fails |-> {}, payload |-> p] : p \in {"p1", "p2"}} \cup
    {[id |-> "i2", fails |-> {}, payload |-> "p1"],
     [id |-> "i1", fails |-> {1, 5}, payload |-> "p1"],
     [id |-> "none", fails |-> {2}, payload |-> "p1"]}

MCLeaves == <<"leaf1", "leaf2">>
MCMaxTraceRows == <<3, 1>>

Plain == [inst |-> "i1", rollout |-> "r1", label |-> "resolved", states |-> "unstated",
          family |-> TRUE, clean |-> TRUE, reference |-> "metadata", shown |-> FALSE,
          tools |-> "valid"]

\* Raw rows: of one rollout that agree or disagree in the label, in being acceptable or in
\* what the review sees; of another instance with the same rollout; of another rollout; and
\* rows without a key.
MCTraceRows ==
    {Plain,
     [Plain EXCEPT !.label = "unresolved", !.states = "p1"],
     [Plain EXCEPT !.label = "unknown"],
     [Plain EXCEPT !.clean = FALSE],
     [Plain EXCEPT !.inst = "i2", !.reference = "both", !.tools = "gold"],
     [Plain EXCEPT !.rollout = "r2", !.shown = TRUE],
     [Plain EXCEPT !.rollout = "r2", !.reference = "missing", !.tools = "invalid"],
     [Plain EXCEPT !.rollout = "none"],
     [Plain EXCEPT !.family = FALSE]}

\* Rows of the recovery: two tasks, one patch, labels that agree or not, a language the
\* command was not given, a row of a foreign family and one without an identity.
Row == [inst |-> "t1", patch |-> "d1", language |-> "TypeScript", label |-> "unknown",
        rollout |-> "r1", family |-> TRUE, usable |-> TRUE]

MCLabeledRows ==
    {[Row EXCEPT !.label = "resolved"],
     [Row EXCEPT !.label = "unresolved", !.rollout = "r2"],
     [Row EXCEPT !.language = "JavaScript", !.label = "resolved"],
     [Row EXCEPT !.label = "resolved", !.usable = FALSE],
     [Row EXCEPT !.family = FALSE, !.label = "unknown"]}

MCTargetRows ==
    {Row,
     [Row EXCEPT !.rollout = "r3"],
     [Row EXCEPT !.label = "resolved"],
     [Row EXCEPT !.language = "JavaScript"],
     [Row EXCEPT !.inst = "t2", !.rollout = "r2"],
     [Row EXCEPT !.patch = "d2"],
     [Row EXCEPT !.inst = "t2", !.language = "Python"],
     [Row EXCEPT !.usable = FALSE]}

MCBounds == {<<1, 1>>, <<1, 2>>, <<2, 2>>}

MCTaskLanguages == [t1 |-> {"TypeScript"}, t2 |-> {"TypeScript"}]

\* The image the tag points to first or the one after it decides whether the patch resolves
\* the task; and of two tests with one name the patch fixes both, or one passes anyway.
MCTruths ==
    {[d1 |-> [baseline |-> {"p1"}, candidate |-> Tests],
      d2 |-> [baseline |-> {"p1"}, candidate |-> {"p1"}]],
     [d1 |-> [baseline |-> {"f1", "p1"}, candidate |-> {"f1", "p1"}],
      d2 |-> [baseline |-> {"p1"}, candidate |-> Tests]]}

MCNameOf == [f1 |-> "f", f2 |-> "f", p1 |-> "p"]

MCPilotSamples ==
    {[repo |-> r, task |-> 1, rank |-> 0, fit |-> TRUE] : r \in Repos} \cup
    {[repo |-> 1, task |-> 2, rank |-> 1, fit |-> TRUE],
     [repo |-> 2, task |-> 1, rank |-> 0, fit |-> FALSE]}

MCAuthorizedPilots == {<<"given", "given">>}
=============================================================================
