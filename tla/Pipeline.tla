------------------------------ MODULE Pipeline ------------------------------
(***************************************************************************)
(* The data pipeline, one command after the other: the task provenance is  *)
(* projected and handed to the normalization of the leaves, and the        *)
(* normalized leaves go to the reviews or to a cohort; the resolution      *)
(* recovery hands its candidates and queue to the canary workset; a case   *)
(* of a workset is evaluated; a normalized population is split and the     *)
(* pilot drawn from it; launches train on a reviewed pilot; a teacher is   *)
(* asked for rollouts; one of the scripts runs the commands over all       *)
(* leaves.                                                                 *)
(*                                                                         *)
(* Commands of different jobs share no state, so a behaviour is of one     *)
(* job, and every other component stays as it is at the beginning.         *)
(***************************************************************************)
EXTENDS OracleReview, CanarySelection, CanarySandbox, PilotSplit, TrainingLifecycle,
        TeacherRollout, EvidenceRunners

VARIABLE job

modelVars == <<podmanVars, trainingVars, rolloutVars, runnerVars>>
dataVars == <<taskVars, normVars, reviewVars, recVars, canaryVars, evalVars, splitVars>>
jobVars == <<dataVars, modelVars>>
pipelineVars == <<job, jobVars>>

Reviews == {<<"review", p>> : p \in DOMAIN Leaves}
Jobs == {<<"normalize">>, <<"cohort">>, <<"recover">>, <<"evaluate">>, <<"split">>,
         <<"train">>, <<"teach">>, <<"run">>} \cup Reviews

\* The case of a behaviour in which no case is evaluated
NoSandboxWork ==
    <<CHOOSE t \in Truths : TRUE, "rootless-podman", "none", CHOOSE d \in ImageDigests : TRUE>>

PipelineInit ==
    /\ ProjectionInit /\ NormalizationInit /\ ReviewInit
    /\ RecoveryInit /\ CanaryInit /\ SandboxInit /\ SplitInit
    /\ PodmanInit /\ TrainingInit /\ TeacherInit /\ RunnersInit
    /\ job \in {<<"normalize">>, <<"recover">>, <<"evaluate">>, <<"split">>, <<"train">>,
               <<"teach">>, <<"run">>}
    /\ job # <<"evaluate">> => <<truth, runtime, expectedLabel, tag>> = NoSandboxWork
    /\ job # <<"teach">> => seeds = 1 /\ ~withRunner
    /\ job # <<"run">> => script = "recovery" /\ passing = Editions

-----------------------------------------------------------------------------
\* The admitted records are published; the database of the projection goes away.
HandOverProvenance ==
    /\ StartNormalization(Admitted)
    /\ taskRead' = <<>> /\ tasks' = [i \in Ids |-> 0]
    /\ taskConflicts' = {} /\ taskRejections' = <<>>
    /\ UNCHANGED reviewVars

Normalize ==
    /\ job = <<"normalize">>
    /\ \/ normPhase = "waiting" /\ ProjectionNext /\ UNCHANGED <<normVars, reviewVars>>
       \/ HandOverProvenance
       \/ NormalizationNext /\ UNCHANGED <<taskVars, reviewVars>>
    /\ UNCHANGED <<job, recVars, canaryVars, evalVars, splitVars, modelVars>>

\* One of the commands that read normalized leaves is looked at.
Conclude ==
    /\ job = <<"normalize">> /\ normPhase = "complete"
    /\ job' \in Reviews \cup {<<"cohort">>}
    /\ UNCHANGED jobVars

Review ==
    /\ job \in Reviews
    /\ \/ OpenReview(job[2]) \/ ScanRow \/ Attest
       \/ \E given \in BOOLEAN : AuditGold(job[2], given)
    /\ UNCHANGED <<job, taskVars, normVars, recVars, canaryVars, evalVars, splitVars, modelVars>>

Cohort ==
    /\ job = <<"cohort">>
    /\ \E members \in SUBSET DOMAIN Leaves : BuildCohort(members)
    /\ UNCHANGED <<job, taskVars, normVars, recVars, canaryVars, evalVars, splitVars, modelVars>>

Recover ==
    /\ job = <<"recover">>
    /\ \/ RecoveryNext /\ UNCHANGED canaryVars
       \/ CanaryNext /\ UNCHANGED recVars
    /\ UNCHANGED <<job, taskVars, normVars, reviewVars, evalVars, splitVars, modelVars>>

SplitAndDraw ==
    /\ job = <<"split">>
    /\ SplitNext
    /\ UNCHANGED <<job, taskVars, normVars, reviewVars, recVars, canaryVars, evalVars, modelVars>>

EvaluateCase ==
    /\ job = <<"evaluate">>
    /\ EvaluationNext
    /\ UNCHANGED <<job, taskVars, normVars, reviewVars, recVars, canaryVars, splitVars, modelVars>>

Train ==
    /\ job = <<"train">>
    /\ TrainingNext
    /\ UNCHANGED <<job, dataVars, rolloutVars, runnerVars>>

Teach ==
    /\ job = <<"teach">>
    /\ TeacherNext
    /\ UNCHANGED <<job, dataVars, trainingVars, runnerVars>>

RunScript ==
    /\ job = <<"run">>
    /\ RunnersNext
    /\ UNCHANGED <<job, dataVars, podmanVars, trainingVars, rolloutVars>>

PipelineNext ==
    \/ Normalize \/ Conclude \/ Review \/ Cohort \/ Recover \/ EvaluateCase \/ SplitAndDraw
    \/ Train \/ Teach \/ RunScript

PipelineSpec == PipelineInit /\ [][PipelineNext]_pipelineVars

-----------------------------------------------------------------------------
\* The types of the variables of the components at work, and that every other component is
\* as it was at the beginning.
PipelineTypeOK ==
    /\ job \in Jobs
    /\ IF job \in {<<"normalize">>, <<"cohort">>} \cup Reviews
       THEN ProjectionTypeOK /\ NormalizationTypeOK /\ ReviewTypeOK
       ELSE ProjectionInit /\ NormalizationInit /\ ReviewInit
    /\ IF job = <<"recover">> THEN RecoveryTypeOK /\ CanaryTypeOK ELSE RecoveryInit /\ CanaryInit
    /\ IF job = <<"evaluate">> THEN SandboxTypeOK ELSE SandboxInit
    /\ IF job = <<"split">> THEN SplitTypeOK ELSE SplitInit
    /\ IF job = <<"train">> THEN TrainingTypeOK ELSE TrainingInit
    /\ IF job = <<"teach">> THEN TeacherTypeOK ELSE TeacherInit
    /\ IF job = <<"run">> THEN RunnersTypeOK ELSE RunnersInit
    /\ IF job \in {<<"train">>, <<"teach">>} THEN PodmanTypeOK ELSE PodmanInit

\* The commands publish their artifacts before they validate the manifest over them.  That
\* validation never fails, in any of them, and a normalization that gave up earlier had no
\* rows at all: no artifact is left without a manifest because of what its rows are.  Kills,
\* and inputs that change before the manifest is linked, are EvidenceChain's.
NothingIsStranded ==
    /\ normPhase = "failed" => rawRows[leaf] = <<>>
    /\ normPhase # "stranded"
    /\ \A p \in DOMAIN Leaves : attested[p] # "stranded"
    /\ recPhase # "stranded"
    /\ canaryPhase # "strandedWorkset"

\* What is claimed for the code of a model was executed: a training report that says PASS
\* (ReportTellsTruth), the records of a teacher's rollouts (RolloutsTellTruth), and, under
\* both, that a run of tests whose outcome is believed has no container left.
ClaimsWereExecuted ==
    /\ ReportTellsTruth
    /\ RolloutsTellTruth
    /\ \A l \in Launches : NoContainerIsLeft(l)
=============================================================================
