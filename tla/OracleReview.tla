---------------------------- MODULE OracleReview ----------------------------
(***************************************************************************)
(* What is concluded from normalized leaves: the oracle-isolation review   *)
(* (datasets review-oracle-isolation) claims the normalized samples of a   *)
(* leaf with its raw rows and attests PASS or FAIL; the gold-exposure      *)
(* audit combines the attestation with its own scan; and a normalization   *)
(* cohort binds the samples of several leaves.  Each concludes from the    *)
(* artifacts that TraceNormalization published.                            *)
(***************************************************************************)
EXTENDS TraceNormalization

CONSTANTS ReviewedLeaves,   \* AUTHORIZED_UPSTREAM_ORACLE_REVIEWS, as leaf numbers
          TrustedLeaves     \* whose attestation a commit has put into the trust root

ASSUME ReviewAssumption == ReviewedLeaves \cup TrustedLeaves \subseteq DOMAIN Leaves

VARIABLES reviewed,      \* the leaf under review, 0 if none
          unclaimed,     \* samples not seen yet, by the digest of their raw row
          scan,          \* the counters of _scan_raw_population
          attested,      \* the attestation of every leaf
          audits,        \* the gold-exposure audit of every leaf
          cohort         \* the members of the cohort that was built, and what became of it

reviewVars == <<reviewed, unclaimed, scan, attested, audits, cohort>>

-----------------------------------------------------------------------------
ReferencePresent(row) == row.reference # "missing"

\* Mutant: the prompt is not searched.
InspectionWithoutPrompt(row) ==
    (IF row.tools = "invalid" THEN {"invalid_recorded_model_context"} ELSE {})
    \cup (IF row.tools = "gold" THEN {"gold_field_in_recorded_model_context"} ELSE {})
    \cup (IF row.reference # "metadata" THEN {"unsupported_reference_patch_location"} ELSE {})

\* inspect_recorded_model_context, for a row that was normalized (its trajectory is free
\* of gold): the tools may be unusable or hold gold, the reference patch must be there, in
\* metadata.reference_patch and nowhere else, and no step may show it.
Inspection(row) ==
    (IF row.tools = "invalid" THEN {"invalid_recorded_model_context"} ELSE {})
    \cup (IF row.tools = "gold" THEN {"gold_field_in_recorded_model_context"} ELSE {})
    \cup (IF row.reference # "metadata" THEN {"unsupported_reference_patch_location"} ELSE {})
    \cup (IF ReferencePresent(row) /\ row.shown THEN {"reference_patch_in_initial_prompt"} ELSE {})

BindingReasons == {"raw_normalized_binding_mismatch", "population_binding_mismatch"}
ContextReasons == {"invalid_recorded_model_context", "gold_field_in_recorded_model_context",
                   "unsupported_reference_patch_location"}
PromptReasons == {"reference_patch_in_initial_prompt"}

\* What the manifest of a leaf says, and the samples its artifact holds
AcceptedCount(p) == Cardinality(AdmittedRows(p))
SamplesOf(p) == {SampleId(p, rawRows[p][n]) : n \in AdmittedRows(p)}
DigestsAdmitted(p) == {rawRows[p][n] : n \in AdmittedRows(p)}
NormalizedPass(p) == normStatus[p] = "PASS"

NoScan == [at |-> 0, covered |-> 0, references |-> 0, reasons |-> {}]

-----------------------------------------------------------------------------
ReviewInit ==
    /\ reviewed = 0 /\ unclaimed = {} /\ scan = NoScan
    /\ attested = [p \in DOMAIN Leaves |-> "none"]
    /\ audits = [p \in DOMAIN Leaves |-> "none"]
    /\ cohort = [members |-> {}, samples |-> {}, outcome |-> "none"]

\* The leaf is bound and its samples are indexed; a leaf without a PASS or without an
\* upstream review, and two samples of one raw row, are refused.
OpenReview(p) ==
    /\ normPhase = "complete" /\ reviewed = 0 /\ attested[p] = "none"
    /\ IF /\ NormalizedPass(p) /\ p \in ReviewedLeaves
          /\ Cardinality(DigestsAdmitted(p)) = AcceptedCount(p)
       THEN /\ reviewed' = p /\ unclaimed' = DigestsAdmitted(p) /\ scan' = NoScan
            /\ UNCHANGED attested
       ELSE /\ attested' = [attested EXCEPT ![p] = "refused"]
            /\ UNCHANGED <<reviewed, unclaimed, scan>>
    /\ UNCHANGED <<audits, cohort>>

\* One raw row: it claims the sample of its digest, once, and only then is it inspected.  The
\* sample was normalized from this very row, so that the further comparison of their fields
\* cannot fail; it would only add a finding.
ScanRow ==
    /\ reviewed # 0 /\ scan.at < Len(rawRows[reviewed])
    /\ LET row == rawRows[reviewed][scan.at + 1]
       IN  IF row \notin unclaimed
           THEN scan' = [scan EXCEPT !.at = @ + 1] /\ UNCHANGED unclaimed
           ELSE /\ unclaimed' = unclaimed \ {row}
                /\ scan' = [at |-> scan.at + 1, covered |-> scan.covered + 1,
                            references |-> scan.references
                                              + (IF ReferencePresent(row) THEN 1 ELSE 0),
                            reasons |-> scan.reasons \cup Inspection(row)]
    /\ UNCHANGED <<reviewed, attested, audits, cohort>>

\* The findings with which the scan ends, and the five checks of the attestation
FinalReasons(p) ==
    scan.reasons \cup IF scan.covered # AcceptedCount(p)
                      THEN {"population_binding_mismatch"} ELSE {}

ChecksPass(p) ==
    /\ FinalReasons(p) \cap (BindingReasons \cup ContextReasons \cup PromptReasons) = {}
    /\ scan.references = scan.at /\ scan.references = scan.covered

\* OracleIsolationAttestation.require_complete_pass_evidence
AttestationHolds(p, status) ==
    /\ status = "PASS" => /\ ChecksPass(p) /\ FinalReasons(p) = {}
                          /\ scan.covered = AcceptedCount(p)
                          /\ scan.references = scan.at /\ scan.references = scan.covered
    /\ status = "FAIL" => ~ChecksPass(p)
    /\ scan.covered <= scan.at /\ scan.references <= scan.at

\* The findings are published, then the attestation, if it validates.
Attest ==
    /\ reviewed # 0 /\ scan.at = Len(rawRows[reviewed])
    /\ LET status == IF ChecksPass(reviewed) THEN "PASS" ELSE "FAIL"
       IN  attested' = [attested EXCEPT ![reviewed] =
                          IF AttestationHolds(reviewed, status) THEN status ELSE "stranded"]
    /\ reviewed' = 0 /\ unclaimed' = {} /\ scan' = NoScan
    /\ UNCHANGED <<audits, cohort>>

-----------------------------------------------------------------------------
\* Mutant: the attestation does not count.
GoldStatusOfScan(p, trusted) ==
    IF ~NormalizedPass(p) \/ AcceptedCount(p) = 0 THEN "FAIL" ELSE "PASS"

\* datasets audit-gold-exposure of a leaf, with its attestation or without: an
\* attestation that is not PASS is refused.  The samples were validated when they were
\* normalized, so the structural scan counts them and finds nothing.
GoldStatus(p, trusted) ==
    IF ~NormalizedPass(p) \/ AcceptedCount(p) = 0 THEN "FAIL"
    ELSE IF ~trusted THEN "BLOCKED" ELSE "PASS"

AuditGold(p, given) ==
    /\ normPhase = "complete" /\ audits[p] \in {"none", "refused"}
    /\ given => attested[p] # "none"
    /\ audits' = [audits EXCEPT ![p] =
                    IF given /\ attested[p] # "PASS" THEN "refused"
                    ELSE GoldStatus(p, given /\ p \in TrustedLeaves)]
    /\ UNCHANGED <<reviewed, unclaimed, scan, attested, cohort>>

\* The rows of the members that were admitted, each of them with its leaf
RowsOfMembers(members) == UNION {{p} \X AdmittedRows(p) : p \in members}
IdOf(sample) == SampleId(sample[1], rawRows[sample[1]][sample[2]])

\* build_normalization_cohort: at least two different leaves, each PASS; the ids of their
\* samples go into one table, whose primary key refuses an id that is there already.
BuildCohort(members) ==
    /\ normPhase = "complete" /\ cohort.outcome = "none"
    /\ cohort' =
        IF Cardinality(members) < 2 \/ \E p \in members : ~NormalizedPass(p)
        THEN [members |-> members, samples |-> {}, outcome |-> "refused"]
        ELSE IF \E s, t \in RowsOfMembers(members) : s # t /\ IdOf(s) = IdOf(t)
        THEN [members |-> members, samples |-> {}, outcome |-> "duplicate"]
        ELSE [members |-> members, samples |-> UNION {SamplesOf(p) : p \in members},
              outcome |-> "published"]
    /\ UNCHANGED <<reviewed, unclaimed, scan, attested, audits>>

ReviewNext ==
    \/ \E p \in DOMAIN Leaves : \/ OpenReview(p)
                                \/ \E given \in BOOLEAN : AuditGold(p, given)
    \/ ScanRow \/ Attest
    \/ \E members \in SUBSET DOMAIN Leaves : BuildCohort(members)

-----------------------------------------------------------------------------
ReviewTypeOK ==
    /\ reviewed \in DOMAIN Leaves \cup {0}
    /\ \A p \in DOMAIN Leaves :
          /\ attested[p] \in {"none", "refused", "PASS", "FAIL", "stranded"}
          /\ audits[p] \in {"none", "refused", "PASS", "FAIL", "BLOCKED"}
    /\ reviewed # 0 => scan.at <= Len(rawRows[reviewed])

\* Nothing of the row contradicts that the model never saw the reference patch.
Isolated(row) == row.reference = "metadata" /\ ~row.shown /\ row.tools = "valid"

\* A leaf is attested PASS exactly when all of its raw rows were admitted and isolated:
\* one row that was refused, for whatever reason, or that repeats another makes it FAIL,
\* because only rows that claim a sample are counted.
PassMeansEveryRawRow ==
    \A p \in DOMAIN Leaves :
        attested[p] = "PASS" <=>
            /\ attested[p] \notin {"none", "refused"}
            /\ \A n \in RowNumbers(p) : n \in AdmittedRows(p) /\ Isolated(rawRows[p][n])

\* The audit of a leaf passes only behind a PASS attestation in the trust root.  And leaves
\* may hold the same raw row: their samples stay apart, so that a cohort is refused only for
\* being of fewer than two leaves or for one that did not pass, and counts every sample once.
ConclusionsAreEarned ==
    /\ \A p \in DOMAIN Leaves :
          audits[p] = "PASS" => attested[p] = "PASS" /\ p \in TrustedLeaves /\ NormalizedPass(p)
    /\ cohort.outcome # "none" =>
          (cohort.outcome = "published" <=> /\ Cardinality(cohort.members) >= 2
                                            /\ \A p \in cohort.members : NormalizedPass(p))
    /\ cohort.outcome = "published" =>
          Cardinality(cohort.samples) = Cardinality(RowsOfMembers(cohort.members))
=============================================================================
