------------------------- MODULE ResolutionRecovery -------------------------
(***************************************************************************)
(* datasets build-resolution-recovery: rows of the labelled partitions are *)
(* indexed as observations, rows of the target partitions that carry no    *)
(* label as targets, and every target is given the unanimous label of its  *)
(* task and model patch, or is queued for evaluation.  Label conflicts and *)
(* an accounting that does not add up refuse the publication.              *)
(*                                                                         *)
(* A row is what the projected columns tell: its task, its model patch, a  *)
(* language, a label and a rollout; whether it names the task family of    *)
(* its partition; and whether the identifying fields are usable at all.    *)
(* The digest of a row is the row; revisions are fixed for the command.    *)
(***************************************************************************)
EXTENDS Integers, Sequences, FiniteSets

CONSTANTS LabeledPartitions, TargetPartitions,   \* numbers, in the order of their names
          LabeledRows, TargetRows,   \* the rows a labelled and a target partition may hold
          Languages,           \* the languages the command was given
          MaxLabeled, MaxTargets

Labels == {"resolved", "unresolved"}

ASSUME RecoveryAssumption ==
    /\ LabeledPartitions \cup TargetPartitions \subseteq Nat
    /\ LabeledPartitions \cap TargetPartitions = {}
    /\ \A row \in LabeledRows \cup TargetRows :
          /\ DOMAIN row = {"inst", "patch", "language", "label", "rollout", "family", "usable"}
          /\ row.label \in Labels \cup {"unknown"}
          /\ row.family \in BOOLEAN /\ row.usable \in BOOLEAN

\* The bound of the model on the rows of the target partitions
ASSUME RecoveryBounds == MaxTargets \in Nat

VARIABLES recPhase,       \* how far the command is
          labeledRead,    \* the labelled rows read, with their partitions
          targetRead,     \* the target rows read, with their partitions
          observations,   \* table label_observations
          targets,        \* table targets
          accounting,     \* table partition_accounting, summed over the target partitions
          candidates, requests, conflicts  \* the output tables

inputVars == <<labeledRead, targetRead, observations, targets, accounting>>
outputVars == <<candidates, requests, conflicts>>
recVars == <<recPhase, inputVars, outputVars>>

-----------------------------------------------------------------------------
\* resolution_key_sha256 at fixed revisions
Key(row) == <<row.inst, row.patch>>

\* _row_reference: the digest covers the whole projected row.
Reference(p, row) == [partition |-> p, rollout |-> row.rollout, row |-> row]

Eligible(row) == row.language \in Languages

\* partitioned_rows goes through the partitions in their order.
InOrder(read, p) == \A n \in DOMAIN read : read[n][1] <= p

\* What raises ResolutionRecoveryError while rows are indexed: a row of another task
\* family, or an unusable identity in a row that is needed.
Unreadable(row, needed) == ~row.family \/ (needed /\ ~row.usable)

ObservationsOf(k) == {o \in observations : o.key = k}
LabelsOf(k) == {o.label : o \in ObservationsOf(k)}
TargetsOf(k) == {t \in targets : t.key = k}
TargetKeys == {t.key : t \in targets}

-----------------------------------------------------------------------------
RecoveryInit ==
    /\ recPhase = "labeled"
    /\ labeledRead = <<>> /\ targetRead = <<>>
    /\ observations = {} /\ targets = {}
    /\ accounting = [total |-> 0, ineligible |-> 0, known |-> 0]
    /\ candidates = {} /\ requests = {} /\ conflicts = {}

\* _index_labeled_rows; INSERT OR IGNORE makes the observations a set.
IndexLabeled(p, row) ==
    /\ recPhase = "labeled" /\ Len(labeledRead) < MaxLabeled
    /\ InOrder(labeledRead, p)
    /\ labeledRead' = Append(labeledRead, <<p, row>>)
    /\ LET needed == Eligible(row) /\ row.label # "unknown"
       IN  IF Unreadable(row, needed)
           THEN recPhase' = "failed" /\ UNCHANGED observations
           ELSE /\ UNCHANGED recPhase
                /\ observations' = observations \cup
                      IF needed THEN {[key |-> Key(row), label |-> row.label,
                                       ref |-> Reference(p, row), language |-> row.language]}
                                ELSE {}
    /\ UNCHANGED <<targetRead, targets, accounting, outputVars>>

LabeledDone ==
    /\ recPhase = "labeled"
    /\ recPhase' = "targets"
    /\ UNCHANGED <<inputVars, outputVars>>

\* _index_target_rows: a row is accounted for before it is looked at.
IndexTarget(p, row) ==
    /\ recPhase = "targets" /\ Len(targetRead) < MaxTargets
    /\ InOrder(targetRead, p)
    /\ targetRead' = Append(targetRead, <<p, row>>)
    /\ LET ineligible == ~Eligible(row)
           known == Eligible(row) /\ row.label # "unknown"
           needed == ~ineligible /\ ~known
       IN  IF Unreadable(row, needed)
           THEN recPhase' = "failed" /\ UNCHANGED <<targets, accounting>>
           ELSE /\ UNCHANGED recPhase
                /\ accounting' = [total |-> accounting.total + 1,
                                  ineligible |-> accounting.ineligible + (IF ineligible THEN 1 ELSE 0),
                                  known |-> accounting.known + (IF known THEN 1 ELSE 0)]
                /\ targets' = targets \cup
                      IF needed THEN {[key |-> Key(row), ref |-> Reference(p, row),
                                       language |-> row.language]}
                                ELSE {}
    /\ UNCHANGED <<labeledRead, observations, outputVars>>

-----------------------------------------------------------------------------
\* Mutant: one label is enough.
HasSomeLabel(k, language) == \E o \in ObservationsOf(k) : o.language = language

\* _unanimous_label: one label in all languages, and at least one of the observations
\* in the language of the target.
HasUnanimousLabel(k, language) ==
    /\ Cardinality(LabelsOf(k)) = 1
    /\ \E o \in ObservationsOf(k) : o.language = language

LanguagesOf(k) == {t.language : t \in TargetsOf(k)}

\* _target_groups refuses a key whose targets are in two languages.
GroupsClash == \E k \in TargetKeys : Cardinality(LanguagesOf(k)) > 1

LanguageOf(k) == CHOOSE language \in LanguagesOf(k) : TRUE
TransferredKeys == {k \in TargetKeys : HasUnanimousLabel(k, LanguageOf(k))}

CandidatesFor(k) ==
    {[key |-> k, label |-> CHOOSE l \in LabelsOf(k) : TRUE, language |-> t.language, ref |-> t.ref,
      evidence |-> {o.ref : o \in {x \in ObservationsOf(k) : x.language = t.language}}]
       : t \in TargetsOf(k)}

RequestFor(k) == [key |-> k, language |-> LanguageOf(k), refs |-> {t.ref : t \in TargetsOf(k)}]

\* _materialize_outputs, with the conflicts of _materialize_conflicts first
MaterializeOutputs ==
    /\ recPhase = "targets"
    /\ conflicts' = {k \in TargetKeys : Cardinality(LabelsOf(k)) > 1}
    /\ IF GroupsClash
       THEN recPhase' = "failed" /\ UNCHANGED <<candidates, requests>>
       ELSE /\ recPhase' = "built"
            /\ candidates' = UNION {CandidatesFor(k) : k \in TransferredKeys}
            /\ requests' = {RequestFor(k) : k \in TargetKeys \ TransferredKeys}
    /\ UNCHANGED inputVars

\* queued_target_count: SUM(target_count) counts a target in every request that holds it.
QueuedTargets == Cardinality(UNION {{r} \X r.refs : r \in requests})
CandidatesWith(label) == Cardinality({c \in candidates : c.label = label})

\* The counts the manifest is written with
RecoveryCounts ==
    [target_row_count |-> accounting.total,
     ineligible |-> accounting.ineligible,
     already_known |-> accounting.known,
     candidate_rows |-> Cardinality(candidates),
     candidate_unique |-> Cardinality({c.key : c \in candidates}),
     resolved |-> CandidatesWith("resolved"),
     unresolved |-> CandidatesWith("unresolved"),
     queued |-> QueuedTargets,
     queue_unique |-> Cardinality(requests),
     conflicts |-> Cardinality(conflicts)]

\* The counts add up: what the command checks before it publishes, and what
\* verify_recovery_contract checks again in the manifest.
Accounted(n) == n.ineligible + n.already_known + n.candidate_rows + n.queued = n.target_row_count
OutcomesAddUp(n) ==
    /\ n.resolved + n.unresolved = n.candidate_rows
    /\ n.candidate_unique <= n.candidate_rows
    /\ (n.candidate_unique = 0) <=> (n.candidate_rows = 0)
    /\ n.queue_unique <= n.queued
    /\ (n.queue_unique = 0) <=> (n.queued = 0)

ManifestHolds(n) == Accounted(n) /\ OutcomesAddUp(n) /\ n.conflicts = 0

\* Mutant: the accounting is left to the manifest.
CheckConflicts ==
    /\ recPhase = "built"
    /\ recPhase' = IF conflicts = {} THEN "checked" ELSE "refused"
    /\ UNCHANGED <<inputVars, outputVars>>

\* The checks between the recovery and the first artifact
CheckOutputs ==
    /\ recPhase = "built"
    /\ recPhase' = IF conflicts = {} /\ Accounted(RecoveryCounts) /\ OutcomesAddUp(RecoveryCounts)
                   THEN "checked" ELSE "refused"
    /\ UNCHANGED <<inputVars, outputVars>>

\* Candidates and queue are published, then the manifest if it validates.
PublishRecovery ==
    /\ recPhase = "checked"
    /\ recPhase' = IF ManifestHolds(RecoveryCounts) THEN "published" ELSE "stranded"
    /\ UNCHANGED <<inputVars, outputVars>>

RecoveryNext ==
    \/ \E p \in LabeledPartitions, row \in LabeledRows : IndexLabeled(p, row)
    \/ \E p \in TargetPartitions, row \in TargetRows : IndexTarget(p, row)
    \/ LabeledDone \/ MaterializeOutputs \/ CheckOutputs \/ PublishRecovery

RecoverySpec == RecoveryInit /\ [][RecoveryNext]_recVars

-----------------------------------------------------------------------------
RecoveryTypeOK ==
    /\ recPhase \in {"labeled", "targets", "built", "checked", "published",
                     "refused", "failed", "stranded"}
    /\ accounting \in [{"total", "ineligible", "known"} -> 0 .. MaxTargets]
    /\ \A o \in observations : o.label \in Labels
    /\ conflicts \subseteq TargetKeys

Built == recPhase \in {"built", "checked", "published", "refused", "stranded"}

\* The unlabelled rows of the target partitions that the command is about
OpenTargets == {Reference(targetRead[n][1], targetRead[n][2]) :
                   n \in {m \in DOMAIN targetRead : /\ Eligible(targetRead[m][2])
                                                    /\ targetRead[m][2].label = "unknown"}}

\* A label is transferred only when every labelled row of the same task and patch, in
\* whatever partition, order and supported language it came, carries that label, and one
\* of them is in the language of the target.
TransferIsUnanimous ==
    \A c \in candidates :
        LET witnesses == {n \in DOMAIN labeledRead : /\ Key(labeledRead[n][2]) = c.key
                                                     /\ Eligible(labeledRead[n][2])
                                                     /\ labeledRead[n][2].label \in Labels}
        IN  /\ \A n \in witnesses : labeledRead[n][2].label = c.label
            /\ \E n \in witnesses : labeledRead[n][2].language = c.ref.row.language

\* Every open target is settled in one way and once: by one candidate, or by its place in
\* one request; nothing else is ever proposed or queued.  And the publication is refused for
\* two reasons only: a target whose task and patch carry both labels, or an open target row
\* that its partition repeats byte for byte.
TargetsAreSettledOnce ==
    /\ Built =>
          /\ {c.ref : c \in candidates} \cup UNION {r.refs : r \in requests} = OpenTargets
          /\ \A t \in OpenTargets :
                Cardinality({c \in candidates : c.ref = t})
                    + Cardinality({r \in requests : t \in r.refs}) = 1
    /\ Built /\ recPhase # "built" =>
          (recPhase = "refused" <=>
              \/ conflicts # {}
              \/ \E n, m \in DOMAIN targetRead :
                    /\ n # m /\ targetRead[n] = targetRead[m]
                    /\ Reference(targetRead[n][1], targetRead[n][2]) \in OpenTargets)

\* What the recovery proposes, what it queues and when it refuses to publish, together
RecoveryIsSound == TransferIsUnanimous /\ TargetsAreSettledOnce
=============================================================================
