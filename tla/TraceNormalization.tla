------------------------- MODULE TraceNormalization -------------------------
(***************************************************************************)
(* datasets normalize, leaf after leaf as run_full_normalization.sh calls  *)
(* it: the raw rows of a leaf are joined with the task provenance and      *)
(* classified one by one; the finished projection then decides, rollout by *)
(* rollout, which row is admitted; the normalized artifact, the rejections *)
(* and the manifest are published in that order.                           *)
(*                                                                         *)
(* A raw row names an instance and a rollout, carries a resolution label,  *)
(* may state the task metadata itself (states), names the task family of   *)
(* its leaf or not, and is otherwise acceptable (clean: license, gold-free *)
(* trajectory, sample schema) or not.  What the oracle review looks at     *)
(* (reference, shown, tools) is part of the row.  The digest of a row is   *)
(* the row.                                                                *)
(***************************************************************************)
EXTENDS TaskProjection, FiniteSets, FiniteSetsExt

CONSTANTS Leaves,         \* the partitions of the run, in the order of LEAVES
          Rollouts, NoRollout,
          Unstated,       \* the row leaves the task metadata to the join
          TraceRows, MaxTraceRows

ASSUME TraceRowsAssumption ==
    /\ \A row \in TraceRows :
          /\ DOMAIN row = {"inst", "rollout", "label", "states", "family", "clean",
                           "reference", "shown", "tools"}
          /\ row.inst \in Ids \cup {NoId}
          /\ row.rollout \in Rollouts \cup {NoRollout}
          /\ row.label \in {"resolved", "unresolved", "unknown", "malformed"}
          /\ row.states \in Payloads \cup {Unstated}
          /\ row.reference \in {"metadata", "missing", "both"}
          /\ row.tools \in {"valid", "gold", "invalid"}
    /\ NoRollout \notin Rollouts
    /\ Len(Leaves) \in Nat \ {0} /\ DOMAIN Leaves = 1 .. Len(Leaves)
    /\ \A i, j \in DOMAIN Leaves : Leaves[i] = Leaves[j] => i = j

\* The bound of the model on the rows of a leaf
ASSUME TraceBounds == MaxTraceRows \in [DOMAIN Leaves -> Nat]

VARIABLES provenance,   \* the published task provenance: a record for every admitted instance
          leaf,         \* the number of the leaf being normalized
          normPhase,    \* how far it is
          rawRows,      \* the materialized rows, by leaf
          decisions,    \* the finalized projection, by leaf
          normStatus    \* the status of the published manifest, by leaf

leafVars == <<leaf, normPhase, rawRows, decisions, normStatus>>
normVars == <<provenance, leafVars>>

NoKey == <<>>
ConflictingRollout == "conflicting_rollout_identity"
DuplicateRow == "duplicate_trace_row"
Published == {"PASS", "FAIL"}

-----------------------------------------------------------------------------
\* trace_rollout_key: the repository in the key is that of the instance.
RolloutKey(p, row) ==
    IF row.family /\ row.inst \in DOMAIN provenance /\ row.rollout # NoRollout
    THEN <<p, row.inst, row.rollout>> ELSE NoKey

\* What normalize_trace_sample raises NormalizationError for besides the label: the task
\* family, the instance, the join with its four fields, the rollout id and the sample schema.
Acceptable(row) ==
    /\ row.family /\ row.clean /\ row.rollout # NoRollout
    /\ row.inst \in DOMAIN provenance
    /\ row.states \in {Unstated, provenance[row.inst]}

\* The label is looked at before the join and after the family and the instance.
Unlabelled(row) == row.family /\ row.inst # NoId /\ row.label = "unknown"
Normalizes(row) == Acceptable(row) /\ row.label \in {"resolved", "unresolved"}
OriginalReason(row) == IF Unlabelled(row) THEN "unknown_resolution" ELSE "normalization_error"

\* The sample id covers the leaf and the digest of the raw row (its lineage).
SampleId(p, row) == <<p, row>>

-----------------------------------------------------------------------------
\* TraceNormalizationProjection.finalize over the rows of a leaf
KeyAt(p, n) == RolloutKey(p, rawRows[p][n])
RowNumbers(p) == DOMAIN rawRows[p]
KeysOf(p) == {KeyAt(p, n) : n \in RowNumbers(p)} \ {NoKey}
RowsWith(p, k) == {n \in RowNumbers(p) : KeyAt(p, n) = k}
ValidWith(p, k) == {n \in RowsWith(p, k) : Normalizes(rawRows[p][n])}
DigestsOf(p, k) == {rawRows[p][n] : n \in RowsWith(p, k)}
SampleIdsOf(p, k) == {SampleId(p, rawRows[p][n]) : n \in ValidWith(p, k)}

\* finalize raises: a normalized row without a key, a sample id of two keys, or one
\* rollout with several sample ids although its rows are the same.
ProjectionRaises(p) ==
    \/ \E n \in RowNumbers(p) : KeyAt(p, n) = NoKey /\ Normalizes(rawRows[p][n])
    \/ \E k, l \in KeysOf(p) : k # l /\ SampleIdsOf(p, k) \cap SampleIdsOf(p, l) # {}
    \/ \E k \in KeysOf(p) : /\ ValidWith(p, k) = RowsWith(p, k)
                            /\ Cardinality(DigestsOf(p, k)) = 1
                            /\ Cardinality(SampleIdsOf(p, k)) # 1

\* Mutant: rows that all normalize are not compared.
InConflictByOutcome(p, k) == ValidWith(p, k) \notin {{}, RowsWith(p, k)}

InConflict(p, k) ==
    \/ Cardinality(DigestsOf(p, k)) > 1
    \/ ValidWith(p, k) \notin {{}, RowsWith(p, k)}

ConflictingKeys(p) == {k \in KeysOf(p) : InConflict(p, k)}

Admit == [admitted |-> TRUE, code |-> None, cause |-> None]
Refuse(code, cause) == [admitted |-> FALSE, code |-> code, cause |-> cause]
OriginalCode(p, n) == IF Normalizes(rawRows[p][n]) THEN None ELSE OriginalReason(rawRows[p][n])

Decision(p, n) ==
    LET k == KeyAt(p, n)
    IN  CASE k = NoKey                       -> Refuse(OriginalCode(p, n), None)
          [] k # NoKey /\ InConflict(p, k)   -> Refuse(ConflictingRollout, OriginalCode(p, n))
          [] k # NoKey /\ ~InConflict(p, k) /\ ValidWith(p, k) = {}
                                             -> Refuse(OriginalCode(p, n), None)
          [] OTHER -> IF n = Min(RowsWith(p, k)) THEN Admit ELSE Refuse(DuplicateRow, None)

AdmittedRows(p) == {n \in DOMAIN decisions[p] : decisions[p][n].admitted}
RefusedFor(p, code) == {n \in DOMAIN decisions[p] : decisions[p][n].code = code}

\* The aggregates of the projection
NormalizationCounts(p) ==
    LET refused == DOMAIN decisions[p] \ AdmittedRows(p)
        codes == {decisions[p][n].code : n \in refused}
    IN  [input |-> Len(rawRows[p]),
         accepted |-> Cardinality(AdmittedRows(p)),
         rejected |-> Cardinality(refused),
         by_code |-> [c \in codes |-> Cardinality(RefusedFor(p, c))],
         unique_keys |-> Cardinality(KeysOf(p)),
         duplicates |-> Cardinality(RefusedFor(p, DuplicateRow)),
         conflicting_keys |-> Cardinality(ConflictingKeys(p)),
         conflicting_rows |-> Cardinality(RefusedFor(p, ConflictingRollout))]

\* NormalizationManifestV2.verify_normalization_accounting
CodeCount(n, code) == IF code \in DOMAIN n.by_code THEN n.by_code[code] ELSE 0
NormalizationManifestHolds(n) ==
    /\ n.accepted + n.rejected = n.input
    /\ MapThenSumSet(LAMBDA c : n.by_code[c], DOMAIN n.by_code) = n.rejected
    /\ n.duplicates = CodeCount(n, DuplicateRow)
    /\ n.conflicting_rows = CodeCount(n, ConflictingRollout)
    /\ n.unique_keys <= n.input
    /\ n.accepted + n.conflicting_keys <= n.unique_keys
    /\ n.conflicting_rows >= 2 * n.conflicting_keys
    /\ n.duplicates > 0 => n.accepted > 0

-----------------------------------------------------------------------------
NormalizationInit ==
    /\ provenance = <<>>
    /\ leaf = 1 /\ normPhase = "waiting"
    /\ rawRows = [p \in 1 .. Len(Leaves) |-> <<>>]
    /\ decisions = [p \in 1 .. Len(Leaves) |-> <<>>]
    /\ normStatus = [p \in 1 .. Len(Leaves) |-> "none"]

\* The leaves are normalized against the provenance the projection published.
StartNormalization(admitted) ==
    /\ normPhase = "waiting" /\ admitted # <<>>
    /\ provenance' = admitted /\ normPhase' = "reading"
    /\ UNCHANGED <<leaf, rawRows, decisions, normStatus>>

\* add_row, for the next row of the materialized input
ReadTraceRow(row) ==
    /\ normPhase = "reading" /\ Len(rawRows[leaf]) < MaxTraceRows[leaf]
    /\ rawRows' = [rawRows EXCEPT ![leaf] = Append(@, row)]
    /\ UNCHANGED <<provenance, leaf, normPhase, decisions, normStatus>>

\* The input has ended; an empty materialization is not PASS and stops the run.
Finalize ==
    /\ normPhase = "reading"
    /\ IF rawRows[leaf] = <<>> \/ ProjectionRaises(leaf)
       THEN normPhase' = "failed" /\ UNCHANGED decisions
       ELSE /\ normPhase' = "classified"
            /\ decisions' = [decisions EXCEPT ![leaf] =
                                [n \in RowNumbers(leaf) |-> Decision(leaf, n)]]
    /\ UNCHANGED <<provenance, leaf, rawRows, normStatus>>

\* The row accounting is checked, then the normalized artifact and the rejections appear.
PublishDerived ==
    /\ normPhase = "classified"
    /\ LET n == NormalizationCounts(leaf)
       IN  normPhase' = IF n.input = n.accepted + n.rejected THEN "derived" ELSE "failed"
    /\ UNCHANGED <<provenance, leaf, rawRows, decisions, normStatus>>

\* The manifest is validated when both artifacts are there, and published last; the next
\* leaf follows also after a FAIL.
PublishNormalization ==
    /\ normPhase = "derived"
    /\ LET n == NormalizationCounts(leaf)
       IN  IF ~NormalizationManifestHolds(n)
           THEN normPhase' = "stranded" /\ UNCHANGED <<leaf, normStatus>>
           ELSE /\ normStatus' = [normStatus EXCEPT ![leaf] =
                                    IF n.accepted > 0 THEN "PASS" ELSE "FAIL"]
                /\ leaf' = IF leaf < Len(Leaves) THEN leaf + 1 ELSE leaf
                /\ normPhase' = IF leaf < Len(Leaves) THEN "reading" ELSE "complete"
    /\ UNCHANGED <<provenance, rawRows, decisions>>

NormalizationNext ==
    \/ \E row \in TraceRows : ReadTraceRow(row)
    \/ Finalize \/ PublishDerived \/ PublishNormalization

-----------------------------------------------------------------------------
NormalizationTypeOK ==
    /\ DOMAIN provenance \subseteq Ids
    /\ leaf \in DOMAIN Leaves
    /\ \A p \in DOMAIN Leaves : /\ Len(rawRows[p]) <= MaxTraceRows[p]
                                /\ normStatus[p] \in Published \cup {"none"}
                                /\ decisions[p] # <<>> => DOMAIN decisions[p] = RowNumbers(p)

Classified(p) == decisions[p] # <<>>

\* The rows of a leaf that say they are of one rollout, whether or not they normalize
Claimants(p, inst, rollout) ==
    {n \in RowNumbers(p) : /\ rawRows[p][n].family
                           /\ rawRows[p][n].inst = inst /\ rawRows[p][n].rollout = rollout}

\* Of every rollout exactly one row is admitted when all of its rows are the same and
\* normalize, and none otherwise: rows that disagree in anything, in whatever order they
\* come, take each other out, and a repetition never adds a second sample.
OneSamplePerHonestRollout ==
    \A p \in DOMAIN Leaves : Classified(p) =>
        \A inst \in Ids, rollout \in Rollouts :
            LET rows == Claimants(p, inst, rollout)
                honest == \A n, m \in rows : /\ Normalizes(rawRows[p][n])
                                             /\ rawRows[p][n] = rawRows[p][m]
            IN  Cardinality(rows \cap AdmittedRows(p)) = IF rows # {} /\ honest THEN 1 ELSE 0
=============================================================================
