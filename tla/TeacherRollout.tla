--------------------------- MODULE TeacherRollout ---------------------------
(***************************************************************************)
(* run_teacher_rollouts and LocalGitTeacherRunner.execute: for every seed  *)
(* a teacher proposes a patch; the base commit is restored from a local    *)
(* checkout that others may be working in, the patch applied there and the *)
(* repository's tests run in a container; the records of all seeds are     *)
(* published together.                                                     *)
(*                                                                         *)
(* A teacher says what it likes about its own patch.  Without a runner a   *)
(* claim of execution is an error; with one it is thrown away.             *)
(***************************************************************************)
EXTENDS Naturals, Sequences, PodmanRun

CONSTANT MaxSeeds

ASSUME TeacherAssumption == MaxSeeds \in Nat \ {0} /\ Launches # {}

\* The executor that the rollouts use
Teacher == CHOOSE l \in Launches : TRUE

VARIABLES rolloutPhase,
          seeds, withRunner,
          workspace,         \* what is in the attempt's clone
          rollouts,          \* the records so far
          rolloutArtifact    \* the published ones

rolloutVars == <<rolloutPhase, seeds, withRunner, workspace, rollouts, rolloutArtifact>>

TeacherInit ==
    /\ rolloutPhase = "solving"
    /\ seeds \in 1 .. MaxSeeds /\ withRunner \in BOOLEAN
    /\ workspace = "none" /\ rollouts = <<>> /\ rolloutArtifact = <<>>

\* The tests of one attempt are told apart from those of another by the number of the seed.
Attempt(tree) == <<Len(rollouts) + 1, tree>>

\* Mutant: every attempt is made in the tree that the one before has left.
RecordInPlace(s, tests) ==
    /\ rollouts' = Append(rollouts, [status |-> s, tests |-> tests])
    /\ rolloutPhase' = "solving"
    /\ UNCHANGED workspace

Record(s, tests) ==
    /\ rollouts' = Append(rollouts, [status |-> s, tests |-> tests])
    /\ rolloutPhase' = "solving"
    /\ workspace' = "none"

\* The adapter's answer for the next seed: whether its generation passed and its patch is a
\* text patch, the status it gives itself, and whether it claims to have run the tests.  Only
\* a claim of all the checks can go with PASS.
Solve ==
    /\ rolloutPhase = "solving" /\ Len(rollouts) < seeds
    /\ \E generated, textPatch, claims \in BOOLEAN, own \in {"PASS", "UNVERIFIED", "FAIL"} :
          /\ own = "PASS" => generated /\ claims
          /\ IF ~withRunner
             THEN IF claims
                  THEN rolloutPhase' = "raised" /\ UNCHANGED <<workspace, rollouts>>
                  ELSE Record(own, "none")
             ELSE IF generated /\ textPatch
             THEN rolloutPhase' = "restoring" /\ UNCHANGED <<workspace, rollouts>>
             ELSE Record("FAIL", "none")
    /\ UNCHANGED <<seeds, withRunner, rolloutArtifact, podmanVars>>

\* Clone without checkout, check out, ask for HEAD: the clone's HEAD may be the base commit
\* already when the checkout fails and leaves nothing, or half of it.
RestoreBase ==
    /\ rolloutPhase = "restoring" /\ workspace = "none"
    /\ \E cloned, checkedOut, atBase \in BOOLEAN :
          IF cloned /\ checkedOut /\ atBase
          THEN workspace' = "base" /\ UNCHANGED <<rollouts, rolloutPhase>>
          ELSE Record("FAIL", "none")
    /\ UNCHANGED <<seeds, withRunner, rolloutArtifact, podmanVars>>

\* The protected tests are there, the patch applies, and they are as they were.
ApplyTeacherPatch ==
    /\ rolloutPhase = "restoring" /\ workspace # "none"
    /\ \E protectedThere, applied, protectedSame \in BOOLEAN :
          IF protectedThere /\ applied /\ protectedSame
          THEN /\ workspace' = IF workspace = "base" THEN "patched base" ELSE "other"
               /\ rolloutPhase' = "testing" /\ box' = Called(Teacher, TRUE)
               /\ UNCHANGED rollouts
          ELSE Record("FAIL", "none") /\ UNCHANGED box
    /\ UNCHANGED <<seeds, withRunner, rolloutArtifact, imageHeld, executed>>

\* Whether the repository's tests pass is not known beforehand, and a patch may have changed
\* what they run.
RunRepositoryTests ==
    /\ rolloutPhase = "testing"
    /\ \/ PodmanStep(Teacher)
       \/ \E passed \in BOOLEAN : TestsEnd(Teacher, Attempt(workspace), passed)
    /\ UNCHANGED rolloutVars

\* A generic test command is no oracle: its success is UNVERIFIED, and nothing is said of
\* the task.
ConcludeAttempt ==
    /\ rolloutPhase = "testing" /\ box[Teacher].phase \in {"unavailable", "returned"}
    /\ IF box[Teacher].phase = "unavailable" THEN Record("BLOCKED", "none")
       ELSE IF box[Teacher].outcome = "SUCCESS" THEN Record("UNVERIFIED", "passed")
       ELSE Record("FAIL", "failed")
    /\ UNCHANGED <<seeds, withRunner, rolloutArtifact, podmanVars>>

\* write_teacher_rollouts
WriteRollouts ==
    /\ rolloutPhase = "solving" /\ Len(rollouts) = seeds
    /\ rolloutArtifact' = rollouts /\ rolloutPhase' = "written"
    /\ UNCHANGED <<seeds, withRunner, workspace, rollouts, podmanVars>>

TeacherNext ==
    \/ Solve \/ RestoreBase \/ ApplyTeacherPatch \/ RunRepositoryTests \/ ConcludeAttempt
    \/ WriteRollouts
    \/ PruneHeldImage /\ UNCHANGED rolloutVars

TeacherSpec == TeacherInit /\ PodmanInit /\ [][TeacherNext]_<<rolloutVars, podmanVars>>

-----------------------------------------------------------------------------
TeacherTypeOK ==
    /\ rolloutPhase \in {"solving", "restoring", "testing", "written", "raised"}
    /\ seeds \in 1 .. MaxSeeds /\ Len(rollouts) \in 0 .. seeds
    /\ rolloutPhase = "testing" => workspace \in {"patched base", "other"}

\* The published records are those of all seeds, and none of them is stronger than what was
\* executed: nobody's word makes a PASS; with a runner a rollout is UNVERIFIED only when the
\* tests of the patched base commit of its own seed ran to their end and passed; without
\* one no record speaks of tests.
RolloutsTellTruth ==
    rolloutArtifact # <<>> =>
        /\ Len(rolloutArtifact) = seeds
        /\ \A n \in DOMAIN rolloutArtifact :
              LET r == rolloutArtifact[n]
              IN  /\ r.status # "PASS"
                  /\ withRunner /\ r.status = "UNVERIFIED" =>
                        <<<<n, "patched base">>, TRUE>> \in executed[Teacher]
                  /\ ~withRunner => r.tests = "none"
=============================================================================
