-------------------------- MODULE TrainingLifecycle --------------------------
(***************************************************************************)
(* training run-lifecycle: the pinned model is loaded, makes one step on a *)
(* batch of the reviewed pilot, is written to a checkpoint, read again and *)
(* makes a second step; what it then answers is applied as a patch to the  *)
(* fixture, whose tests have to fail before and to pass after; and one     *)
(* report is published over all of it.                                     *)
(*                                                                         *)
(* Launches share their inputs, which somebody may overwrite and put back, *)
(* the checkpoint directory and the path of the report.  A launch that is  *)
(* killed takes no further step.  What a step computes is not modelled:    *)
(* weights are known by the launch whose steps they are, and their number. *)
(***************************************************************************)
EXTENDS Naturals, FiniteSets, PodmanRun

CONSTANTS Versions, Given,   \* of each file; Given is the fixture's identity in the code
          AuthorizedPilots,  \* the reviewed pairs of samples and pilot manifest
          MaxTouches         \* how often somebody overwrites an input

Inputs == {"config", "samples", "pilot", "fixture"}
Named == Inputs \ {"fixture"}

ASSUME TrainingAssumption ==
    /\ Given \in Versions /\ AuthorizedPilots \subseteq Versions \X Versions
    /\ MaxTouches \in Nat

VARIABLES input, touches,
          step,          \* where each launch is
          named,         \* the versions it has identified
          model,         \* its backend
          answer,        \* the patch of its inference
          status,        \* of its report
          checkpoint,    \* the directory both launches were given
          report         \* the published one

trainingVars == <<input, touches, step, named, model, answer, status, checkpoint, report>>

NoVersion == "none"
NoWeights == [of |-> "nobody", steps |-> 0]
Unloaded == [weights |-> NoWeights, optimizer |-> NoWeights, batch |-> NoVersion,
             steps |-> 0, resumed |-> 0, reloaded |-> FALSE]
NoCheckpoint == [made |-> FALSE, model |-> NoWeights, optimizer |-> NoWeights]
NoReport == [by |-> "nobody"]

\* What a model may answer: nothing usable or a patch outside of src/math.js; a patch that
\* does not apply or leads to other bytes than the approved; one that repairs the fixture
Answers == {"unusable", "different", "repair"}

TrainingInit ==
    /\ input = [f \in Inputs |-> Given] /\ touches = 0
    /\ step = [l \in Launches |-> "start"]
    /\ named = [l \in Launches |-> [f \in Named |-> NoVersion]]
    /\ model = [l \in Launches |-> Unloaded]
    /\ answer = [l \in Launches |-> "unusable"]
    /\ status = [l \in Launches |-> "none"]
    /\ checkpoint = NoCheckpoint /\ report = NoReport

Goto(l, s) == step' = [step EXCEPT ![l] = s]

\* The launch ends without a report.
RefuseLaunch(l) == Goto(l, "refused")

-----------------------------------------------------------------------------
ReadConfig(l) ==
    /\ step[l] = "start"
    /\ named' = [named EXCEPT ![l].config = input.config]
    /\ Goto(l, "configured")
    /\ UNCHANGED <<input, touches, model, answer, status, checkpoint, report, podmanVars>>

\* The config is still the one that was parsed, there is no checkpoint yet, and the samples
\* and the pilot manifest are identified.
IdentifyInputs(l) ==
    /\ step[l] = "configured"
    /\ IF input.config = named[l].config /\ ~checkpoint.made
       THEN /\ named' = [named EXCEPT ![l].samples = input.samples, ![l].pilot = input.pilot]
            /\ Goto(l, "identified")
       ELSE RefuseLaunch(l) /\ UNCHANGED named
    /\ UNCHANGED <<input, touches, model, answer, status, checkpoint, report, podmanVars>>

\* _validate_pilot_manifest: the trust root knows the pair that was identified.
PilotIsAuthorized(l) == <<named[l].samples, named[l].pilot>> \in AuthorizedPilots

\* Private copies of what was identified, checked against the trust root; the fixture
StageTraining(l) ==
    /\ step[l] = "identified"
    /\ IF /\ \A f \in {"samples", "pilot"} : input[f] = named[l][f]
          /\ PilotIsAuthorized(l)
          /\ input.fixture = Given
       THEN Goto(l, "load") ELSE RefuseLaunch(l)
    /\ UNCHANGED <<input, touches, named, model, answer, status, checkpoint, report, podmanVars>>

-----------------------------------------------------------------------------
\* run_training_lifecycle: one stage after the other
Stages == {"load", "tokenize", "train_step", "save_checkpoint", "save_optimizer",
           "reload_checkpoint", "resume_train_step", "infer"}

After(s) ==
    CASE s = "load" -> "tokenize"
      [] s = "tokenize" -> "train_step"
      [] s = "train_step" -> "save_checkpoint"
      [] s = "save_checkpoint" -> "save_optimizer"
      [] s = "save_optimizer" -> "reload_checkpoint"
      [] s = "reload_checkpoint" -> "resume_train_step"
      [] s = "resume_train_step" -> "infer"
      [] s = "infer" -> "boundary"

Stage(l, s) ==
    /\ step[l] = s /\ Goto(l, After(s))
    /\ UNCHANGED <<input, touches, named, report, podmanVars>>

\* A stage that raises, or whose precondition does not hold, ends the lifecycle: it may
\* have made the directory already, and a reload begins by dropping what is loaded.
StageFails(l) ==
    /\ step[l] \in Stages
    /\ status' = [status EXCEPT ![l] = "FAIL"] /\ Goto(l, "boundary")
    /\ checkpoint' \in {checkpoint} \cup
          {[checkpoint EXCEPT !.made = TRUE] : s \in {step[l]} \cap {"save_checkpoint"}}
    /\ model' = IF step[l] # "reload_checkpoint" THEN model
                ELSE [model EXCEPT ![l].weights = NoWeights, ![l].optimizer = NoWeights]
    /\ UNCHANGED <<input, touches, named, answer, report, podmanVars>>

Load(l) ==
    /\ Stage(l, "load")
    /\ model' = [model EXCEPT ![l] = [Unloaded EXCEPT !.weights = [of |-> l, steps |-> 0]]]
    /\ UNCHANGED <<answer, status, checkpoint>>

Tokenize(l) ==
    /\ Stage(l, "tokenize")
    /\ model' = [model EXCEPT ![l].batch = named[l].samples]
    /\ UNCHANGED <<answer, status, checkpoint>>

\* _run_optimizer_step, on the weights and the optimizer that are loaded
Stepped(m) == [m EXCEPT !.weights.steps = @ + 1, !.optimizer.steps = @ + 1, !.steps = @ + 1]

TrainStep(l) ==
    /\ Stage(l, "train_step")
    /\ model[l].steps = 0 /\ model[l].optimizer = NoWeights
    /\ model' = [model EXCEPT ![l] =
                    Stepped([@ EXCEPT !.optimizer = [of |-> l, steps |-> 0]])]
    /\ UNCHANGED <<answer, status, checkpoint>>

\* save_checkpoint makes the directory, which must not be there, and writes the model ...
SaveModel(l) ==
    /\ Stage(l, "save_checkpoint")
    /\ model[l].steps = 1
    /\ ~checkpoint.made
    /\ checkpoint' = [checkpoint EXCEPT !.made = TRUE, !.model = model[l].weights]
    /\ UNCHANGED <<model, answer, status>>

\* ... and then the state of the optimizer.
SaveOptimizer(l) ==
    /\ Stage(l, "save_optimizer")
    /\ checkpoint' = [checkpoint EXCEPT !.optimizer = model[l].optimizer]
    /\ UNCHANGED <<model, answer, status>>

ReloadCheckpoint(l) ==
    /\ Stage(l, "reload_checkpoint")
    /\ checkpoint.model # NoWeights /\ checkpoint.optimizer # NoWeights
    /\ model' = [model EXCEPT ![l].weights = checkpoint.model,
                              ![l].optimizer = checkpoint.optimizer,
                              ![l].reloaded = TRUE]
    /\ UNCHANGED <<answer, status, checkpoint>>

ResumeTrainStep(l) ==
    /\ Stage(l, "resume_train_step")
    /\ model[l].reloaded /\ model[l].resumed = 0 /\ model[l].steps = 1
    /\ model' = [model EXCEPT ![l] = [Stepped(@) EXCEPT !.resumed = model[l].resumed + 1]]
    /\ UNCHANGED <<answer, status, checkpoint>>

Infer(l) ==
    /\ Stage(l, "infer")
    /\ \E a \in Answers : answer' = [answer EXCEPT ![l] = a]
    /\ status' = [status EXCEPT ![l] = "PASS"]
    /\ UNCHANGED <<model, checkpoint>>

RunStage(l) ==
    \/ Load(l) \/ Tokenize(l) \/ TrainStep(l) \/ SaveModel(l) \/ SaveOptimizer(l)
    \/ ReloadCheckpoint(l) \/ ResumeTrainStep(l) \/ Infer(l) \/ StageFails(l)

-----------------------------------------------------------------------------
\* verify_completion_boundary
Unchanged(l) == input.fixture = Given /\ \A f \in Named : input[f] = named[l][f]

\* resume_evidence_passes
ResumeEvidence(m) == m.steps = 2 /\ m.resumed = 1 /\ m.reloaded

ReportAs(l, s) == status' = [status EXCEPT ![l] = s] /\ Goto(l, "publish")

CompletionBoundary(l) ==
    /\ step[l] = "boundary"
    /\ IF ~Unchanged(l) THEN RefuseLaunch(l) /\ UNCHANGED status
       ELSE IF status[l] = "PASS" /\ ResumeEvidence(model[l]) THEN Goto(l, "evaluate") /\ UNCHANGED status
       ELSE ReportAs(l, "FAIL")
    /\ UNCHANGED <<input, touches, named, model, answer, checkpoint, report, podmanVars>>

\* evaluate_model_patch_fixture on a private copy of the fixture: what the patch says of
\* itself, and the tests without it
EvaluateFixture(l) ==
    /\ step[l] = "evaluate"
    /\ IF input.fixture # Given THEN RefuseLaunch(l) /\ UNCHANGED <<status, box>>
       ELSE IF answer[l] = "unusable" THEN ReportAs(l, "FAIL") /\ UNCHANGED box
       ELSE Goto(l, "baseline") /\ box' = Called(l, TRUE) /\ UNCHANGED status
    /\ UNCHANGED <<input, touches, named, model, answer, checkpoint, report, imageHeld, executed>>

\* The tests as the fixture has them fail, and those of the repaired one pass.
RunFixtureTests(l) ==
    /\ \/ step[l] = "baseline" /\ TestsEnd(l, "fixture", FALSE)
       \/ step[l] = "final" /\ TestsEnd(l, "repaired", TRUE)
       \/ PodmanStep(l)
    /\ UNCHANGED trainingVars

\* The baseline has to fail by its tests; the patch is checked, applied, and the tree is
\* compared with the protected and with the approved one before the tests are run again.
ApplyModelPatch(l) ==
    /\ step[l] = "baseline" /\ box[l].phase \in {"unavailable", "returned"}
    /\ \E gitWorks \in BOOLEAN :
          IF box[l].phase = "unavailable" THEN ReportAs(l, "BLOCKED") /\ UNCHANGED box
          ELSE IF /\ box[l].outcome = "TEST_FAILURE" /\ box[l].counted
                  /\ gitWorks /\ answer[l] = "repair"
          THEN Goto(l, "final") /\ box' = Called(l, FALSE) /\ UNCHANGED status
          ELSE ReportAs(l, "FAIL") /\ UNCHANGED box
    /\ UNCHANGED <<input, touches, named, model, answer, checkpoint, report, imageHeld, executed>>

ConcludeFixture(l) ==
    /\ step[l] = "final" /\ box[l].phase \in {"unavailable", "returned"}
    /\ ReportAs(l, IF box[l].phase = "unavailable" THEN "BLOCKED"
                    ELSE IF box[l].outcome = "SUCCESS" /\ box[l].counted THEN "PASS" ELSE "FAIL")
    /\ UNCHANGED <<input, touches, named, model, answer, checkpoint, report, podmanVars>>

\* write_immutable_json with the boundary as its hook; two reports are never the same.
PublishReport(l) ==
    /\ step[l] = "publish"
    /\ IF Unchanged(l) /\ report = NoReport
       THEN report' = [by |-> l, status |-> status[l], named |-> named[l]] /\ Goto(l, "reported")
       ELSE RefuseLaunch(l) /\ UNCHANGED report
    /\ UNCHANGED <<input, touches, named, model, answer, status, checkpoint, podmanVars>>

TouchInput ==
    /\ touches < MaxTouches /\ touches' = touches + 1
    /\ \E f \in Inputs, v \in Versions : v # input[f] /\ input' = [input EXCEPT ![f] = v]
    /\ UNCHANGED <<step, named, model, answer, status, checkpoint, report, podmanVars>>

TrainingNext ==
    \/ \E l \in Launches :
          \/ ReadConfig(l) \/ IdentifyInputs(l) \/ StageTraining(l) \/ RunStage(l)
          \/ CompletionBoundary(l) \/ EvaluateFixture(l) \/ RunFixtureTests(l)
          \/ ApplyModelPatch(l) \/ ConcludeFixture(l) \/ PublishReport(l)
    \/ TouchInput
    \/ PruneHeldImage /\ UNCHANGED trainingVars

TrainingSpec == TrainingInit /\ PodmanInit /\ [][TrainingNext]_<<trainingVars, podmanVars>>

-----------------------------------------------------------------------------
TrainingTypeOK ==
    /\ input \in [Inputs -> Versions] /\ touches \in 0 .. MaxTouches
    /\ \A l \in Launches :
          /\ step[l] \in Stages \cup {"start", "configured", "identified", "boundary", "evaluate",
                                      "baseline", "final", "publish", "reported", "refused"}
          /\ status[l] \in {"none", "PASS", "FAIL", "BLOCKED"}
          /\ model[l].weights.steps \in 0 .. 2 /\ model[l].optimizer.steps \in 0 .. 2

\* A PASS that was published over a checkpoint directory, a report path and inputs that
\* others use as well: the launch trained on reviewed samples, which the report names; it
\* resumed weights and optimizer from the checkpoint that it had written itself, and these
\* weights gave the answer; and the fixture's tests failed without the answer and passed with
\* it, to their end.  Whatever else is reported, a run whose cleanup was not verified is FAIL.
ReportTellsTruth ==
    report # NoReport =>
        LET l == report.by
        IN  /\ report.status = "PASS" =>
                  /\ <<report.named.samples, report.named.pilot>> \in AuthorizedPilots
                  /\ model[l].batch = report.named.samples
                  /\ model[l].weights = [of |-> l, steps |-> 2]
                  /\ model[l].optimizer = [of |-> l, steps |-> 2]
                  /\ checkpoint.model = [of |-> l, steps |-> 1]
                  /\ {<<"fixture", FALSE>>, <<"repaired", TRUE>>} \subseteq executed[l]
            /\ report.status # "FAIL" => box[l].container = "none"
=============================================================================
