--------------------------- MODULE CanarySelection ---------------------------
(***************************************************************************)
(* datasets build-resolution-canary-workset, on a published recovery: a    *)
(* bounded cover of the strata is chosen from the candidates and from the  *)
(* requests; the target rows of the chosen candidates are replayed from    *)
(* the snapshot; every chosen instance is given its private task; the      *)
(* cases are published, and then their manifest.                           *)
(*                                                                         *)
(* Ids of candidates and requests are digests: which item comes first is   *)
(* an arbitrary order, not related to anything in the item.                *)
(***************************************************************************)
EXTENDS ResolutionRecovery, SequencesExt

CONSTANTS Supported,          \* the languages a replayed row may have
          TaskLanguages,      \* the languages of the task rows an instance has
          Bounds              \* the pairs of --minimum-per-kind and --maximum-per-kind

ASSUME CanaryAssumption ==
    /\ Languages \subseteq Supported
    /\ \A b \in Bounds : b[1] \in Nat \ {0} /\ b[2] \in Nat /\ b[1] <= b[2]

VARIABLES canaryPhase,
          bounds,                  \* of this command
          controls, evaluations,   \* the chosen candidates and requests
          replayed,                \* how many target rows have been replayed
          recovered                \* the chosen candidates found again

canaryVars == <<canaryPhase, bounds, controls, evaluations, replayed, recovered>>

-----------------------------------------------------------------------------
CandidateFeatures(c) ==
    {<<"language", c.language>>, <<"partition", c.ref.partition>>, <<"label", c.label>>}

RequestFeatures(r) ==
    {<<"language", r.language>>} \cup {<<"partition", t.partition>> : t \in r.refs}

\* _bounded_cover, on items in the order of their ids: the first item of every feature,
\* then the first items of all until there are enough.
Chosen(items, features) ==
    {items[n] : n \in {m \in DOMAIN items :
        \E f \in features[items[m]] : \A l \in 1 .. m - 1 : f \notin features[items[l]]}}

Filled(items, chosen, n) == chosen \cup {items[m] : m \in 1 .. n}

\* Mutant: the strata are forgotten.
BoundedPrefix(items, features, minimum, maximum) ==
    IF Len(items) < minimum THEN {} ELSE {items[n] : n \in 1 .. minimum}

\* Items are only filled in from as many first ones as the maximum.
BoundedCover(items, features, minimum, maximum) ==
    LET chosen == Chosen(items, features)
        enough == {n \in 0 .. Len(items) : /\ n <= maximum
                                           /\ Cardinality(Filled(items, chosen, n)) >= minimum}
    IN  IF items = <<>> \/ Cardinality(chosen) > maximum \/ enough = {}
        THEN {}
        ELSE Filled(items, chosen, Min(enough))

-----------------------------------------------------------------------------
CanaryInit ==
    /\ canaryPhase = "waiting" /\ bounds = <<0, 0>>
    /\ controls = {} /\ evaluations = {}
    /\ replayed = 0 /\ recovered = {}

\* select_resolution_canary_sources, for the ids as they fall
SelectSources(candidateOrder, requestOrder, b) ==
    /\ recPhase = "published" /\ canaryPhase = "waiting"
    /\ bounds' = b
    /\ LET c == BoundedCover(candidateOrder, [x \in candidates |-> CandidateFeatures(x)], b[1], b[2])
           r == BoundedCover(requestOrder, [x \in requests |-> RequestFeatures(x)], b[1], b[2])
       IN  IF c = {} \/ r = {}
           THEN canaryPhase' = "unselected" /\ UNCHANGED <<controls, evaluations>>
           ELSE canaryPhase' = "replaying" /\ controls' = c /\ evaluations' = r
    /\ UNCHANGED <<replayed, recovered>>

\* evaluation_request_from_target_row raises for such a row.
NotReplayable(row) ==
    row.label # "unknown" \/ row.language \notin Supported \/ ~row.usable

SelectedRollouts == {<<c.ref.partition, c.ref.rollout>> : c \in controls}

\* recover_transfer_control_requests, the next target row: one of a chosen rollout has to
\* be replayable, even when it is not the chosen row.
ReplayRow ==
    /\ canaryPhase = "replaying" /\ replayed < Len(targetRead)
    /\ LET p == targetRead[replayed + 1][1]
           row == targetRead[replayed + 1][2]
           matching == {c \in controls : c.ref = Reference(p, row)}
           skipped == <<p, row.rollout>> \notin SelectedRollouts
           raises == ~skipped /\ (NotReplayable(row) \/ matching \cap recovered # {})
       IN  /\ canaryPhase' = IF raises THEN "unreplayable" ELSE "replaying"
           /\ recovered' = IF raises THEN recovered ELSE recovered \cup matching
    /\ replayed' = replayed + 1
    /\ UNCHANGED <<bounds, controls, evaluations>>

SelectedInstances == {c.ref.row.inst : c \in controls} \cup {r.key[1] : r \in evaluations}

\* Nothing is missing, every instance has one task (rows that differ are refused), and the
\* task is in the language of the case.
MaterializeCases ==
    /\ canaryPhase = "replaying" /\ replayed = Len(targetRead)
    /\ LET complete == recovered = controls
           tasksFit == /\ \A i \in SelectedInstances : Cardinality(TaskLanguages[i]) = 1
                       /\ \A c \in controls : TaskLanguages[c.ref.row.inst] = {c.language}
                       /\ \A r \in evaluations : TaskLanguages[r.key[1]] = {r.language}
       IN  canaryPhase' = IF ~complete THEN "unrecovered"
                          ELSE IF ~tasksFit THEN "untasked" ELSE "materialized"
    /\ UNCHANGED <<bounds, controls, evaluations, replayed, recovered>>

\* verify_workset_accounting, after the workset itself was published
WorksetAccounting ==
    /\ Cardinality(controls) \in bounds[1] .. bounds[2]
    /\ Cardinality(evaluations) \in bounds[1] .. bounds[2]

PublishCanaryWorkset ==
    /\ canaryPhase = "materialized"
    /\ canaryPhase' = IF WorksetAccounting THEN "workset" ELSE "strandedWorkset"
    /\ UNCHANGED <<bounds, controls, evaluations, replayed, recovered>>

CanaryNext ==
    \/ \E c \in SetToSeqs(candidates), r \in SetToSeqs(requests), b \in Bounds :
          SelectSources(c, r, b)
    \/ ReplayRow \/ MaterializeCases \/ PublishCanaryWorkset

-----------------------------------------------------------------------------
CanaryTypeOK ==
    /\ canaryPhase \in {"waiting", "unselected", "replaying", "unreplayable", "unrecovered",
                        "untasked", "materialized", "workset", "strandedWorkset"}
    /\ controls \subseteq candidates /\ evaluations \subseteq requests
    /\ recovered \subseteq controls /\ replayed \in 0 .. Len(targetRead)

\* Whatever order the ids fall in, a published workset has, within its bounds, a control of
\* every language, partition and label among the candidates and a request of every language
\* and partition among the requests.  Its replay finds every chosen control again, exactly
\* once; it gives up only when another target row of the same partition claims the rollout of
\* a chosen one, and no longer is an open row that could have been queued.
WorksetIsWhole ==
    /\ canaryPhase = "workset" =>
          /\ UNION {CandidateFeatures(c) : c \in controls}
                = UNION {CandidateFeatures(c) : c \in candidates}
          /\ UNION {RequestFeatures(r) : r \in evaluations}
                = UNION {RequestFeatures(r) : r \in requests}
          /\ Cardinality(controls) \in bounds[1] .. bounds[2]
          /\ Cardinality(evaluations) \in bounds[1] .. bounds[2]
    /\ canaryPhase # "unrecovered"
    /\ canaryPhase = "unreplayable" =>
          \E c \in controls, n \in DOMAIN targetRead :
              /\ <<targetRead[n][1], targetRead[n][2].rollout>> = <<c.ref.partition, c.ref.rollout>>
              /\ targetRead[n][2] # c.ref.row
              /\ NotReplayable(targetRead[n][2])
    /\ canaryPhase \in {"materialized", "workset"} =>
          \A c \in controls :
              Cardinality({n \in DOMAIN targetRead : targetRead[n] = <<c.ref.partition, c.ref.row>>}) = 1
=============================================================================
