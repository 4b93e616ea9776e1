--------------------------- MODULE ExecutionProofs ---------------------------
(***************************************************************************)
(* Proofs about what is executed.  First the evaluation of a case: whatever *)
(* the images, the tests and the number of stops and of moves of others, a *)
(* verdict is true of the image that the lock names.  Then the runs of code *)
(* that a model has written: for any number of launches, seeds and changes *)
(* of the inputs, what is claimed of them was executed, and no container of *)
(* a run that is believed is left.  Then the pipeline as a whole: what is   *)
(* proved of its components one by one holds of all of them together, and  *)
(* the ones that a job has no part in stay as they were at the beginning.  *)
(***************************************************************************)
EXTENDS ProvenanceProofs, EvidenceRunnersProofs

Phases == {"unlocked", "inspected", "copied", "locked", "probed", "ready", "running"}
Outcomes == {"NOT RUN", "started", "TIMEOUT", "TEST_FAILURE", "SUCCESS", "INTERNAL_FAILURE"}
Images == ImageDigests \cup {NoImage}

SandboxTypes ==
    /\ runtime \in {"seccomp-chroot", "rootless-podman"}
    /\ evalPhase \in Phases /\ mixed \in BOOLEAN
    /\ tag \in ImageDigests /\ {layout, pin} \subseteq Images
    /\ bundle \in [marker : Images, content : Images]
    /\ imageLock \in [digest : Images, manifest : Images]
    /\ ran = [a \in Attempts |-> ran[a]] /\ \A a \in Attempts : ran[a].outcome \in Outcomes
    /\ left \subseteq Attempts

\* Which image is pinned in which phase
PinnedInPhase ==
    /\ evalPhase \in {"inspected", "copied"} => pin \in ImageDigests
    /\ evalPhase \in {"inspected", "probed"} => runtime = "seccomp-chroot"
    /\ evalPhase \in {"unlocked", "inspected", "copied"} <=> imageLock = NoLock
    /\ imageLock # NoLock => imageLock.digest \in ImageDigests
    /\ imageLock = NoLock => \A a \in Attempts : ran[a] = NotRun

\* The chain from the digest that was pinned to the bundle the tests run in
ImageChain ==
    /\ bundle.marker = bundle.content
    /\ runtime = "seccomp-chroot" =>
         /\ evalPhase = "copied" => layout = pin
         /\ imageLock.manifest = imageLock.digest
         /\ evalPhase = "probed" => layout = imageLock.manifest
         /\ evalPhase \in {"ready", "running"} => bundle.marker = imageLock.manifest

\* What a parse says about tests of which those in passes pass
TellsOf(parsed, passes) ==
    \A n \in DOMAIN parsed : \E t \in Tests : NameOf[t] = n /\ parsed[n] = (t \in passes)

\* The results of an attempt are those of its tests in the image of the lock.
ResultIsOf(result, passes) ==
    /\ result.outcome = "SUCCESS" => passes = Tests
    /\ result.outcome \in {"SUCCESS", "TEST_FAILURE"} => TellsOf(result.parsed, passes)

ResultsAreTrue ==
    \A a \in Attempts : ResultIsOf(ran[a], truth[imageLock.digest][a])

\* A sandbox is only there while its attempt runs, and after a cleanup that failed.
LeftIsMarked ==
    \A a \in left : ran[a].outcome \in {"started", "INTERNAL_FAILURE"}

VerdictIsLast == verdict # NoVerdict => evalPhase = "locked"

SandboxInv ==
    /\ SandboxTypes /\ PinnedInPhase /\ LeftIsMarked /\ VerdictIsLast
    /\ ~mixed => ImageChain /\ ResultsAreTrue
    /\ VerdictIsTheTasksOwn

-----------------------------------------------------------------------------
LEMMA ResultsTell ==
    ASSUME NEW passes, NEW result \in Results(passes)
    PROVE  /\ result.outcome \in {"TIMEOUT", "TEST_FAILURE", "SUCCESS"}
           /\ ResultIsOf(result, passes) /\ "outcome" \in DOMAIN result
  <1>1. CASE result = [outcome |-> "TIMEOUT", truncated |-> FALSE, parsed |-> <<>>]
    BY <1>1 DEF ResultIsOf
  <1>2. ASSUME NEW o \in {"TEST_FAILURE"} \cup (IF passes = Tests THEN {"SUCCESS"} ELSE {}),
               NEW t \in BOOLEAN, NEW printed \in SUBSET Tests, NEW p \in Parses(printed, passes),
               result = [outcome |-> o, truncated |-> t, parsed |-> p]
        PROVE  /\ result.outcome \in {"TIMEOUT", "TEST_FAILURE", "SUCCESS"}
               /\ ResultIsOf(result, passes) /\ "outcome" \in DOMAIN result
    <2>1. TellsOf(p, passes)
      BY DEF Parses, TellsOf
    <2> QED BY <1>2, <2>1 DEF ResultIsOf
  <1>3. \/ result = [outcome |-> "TIMEOUT", truncated |-> FALSE, parsed |-> <<>>]
        \/ \E o \in {"TEST_FAILURE"} \cup (IF passes = Tests THEN {"SUCCESS"} ELSE {}),
              t \in BOOLEAN, p \in UNION {Parses(printed, passes) : printed \in SUBSET Tests} :
             result = [outcome |-> o, truncated |-> t, parsed |-> p]
    BY DEF Results
  <1> QED BY <1>1, <1>2, <1>3

\* The image a sandbox starts from is that of the lock.
LEMMA ImageIsLocked ==
    ASSUME SandboxInv, ~mixed, evalPhase = "running"
    PROVE  Image \in {imageLock.digest, NoImage}
  <1>1. CASE runtime = "seccomp-chroot"
    BY <1>1 DEF SandboxInv, ImageChain, Image
  <1>2. CASE runtime = "rootless-podman"
    BY <1>2 DEF Image
  <1> QED BY <1>1, <1>2 DEF SandboxInv, SandboxTypes

-----------------------------------------------------------------------------
LEMMA SandboxInvInit == ASSUME SandboxInit PROVE SandboxInv
  BY SandboxAssumption
  DEF SandboxInit, SandboxInv, SandboxTypes, PinnedInPhase, ImageChain, ResultsAreTrue, ResultIsOf,
      LeftIsMarked, VerdictIsLast, VerdictIsTheTasksOwn, NoBundle, NoLock, NotRun,
            NoVerdict, Phases,
      Outcomes, Images, Attempts

\* A verdict is not disturbed by a step that leaves it, the truth and the lock alone.
LEMMA VerdictStays ==
    ASSUME SandboxInv, UNCHANGED <<truth, imageLock, verdict, left>>, mixed => mixed'
    PROVE  VerdictIsTheTasksOwn'
  BY DEF SandboxInv, VerdictIsTheTasksOwn

LEMMA InspectImageKeeps == ASSUME SandboxInv, InspectImage PROVE SandboxInv'
  <1>1. VerdictIsTheTasksOwn'
    BY VerdictStays DEF InspectImage, hostVars
  <1> QED BY <1>1, SandboxAssumption DEF InspectImage, hostVars, SandboxInv, SandboxTypes,
        PinnedInPhase, ImageChain, ResultsAreTrue, LeftIsMarked,
             VerdictIsLast, Phases, Images, NoLock, NoBundle

LEMMA CopyImageKeeps == ASSUME SandboxInv, CopyImage PROVE SandboxInv'
  <1>1. VerdictIsTheTasksOwn'
    BY VerdictStays DEF CopyImage, hostVars
  <1> QED BY <1>1, SandboxAssumption DEF CopyImage, hostVars, SandboxInv, SandboxTypes,
        PinnedInPhase, ImageChain, ResultsAreTrue, LeftIsMarked,
             VerdictIsLast, Phases, Images, NoLock, NoBundle

LEMMA ProbeLayoutKeeps == ASSUME SandboxInv, ProbeLayout PROVE SandboxInv'
  <1>1. VerdictIsTheTasksOwn'
    BY VerdictStays DEF ProbeLayout, hostVars
  <1> QED BY <1>1, SandboxAssumption DEF ProbeLayout, hostVars, SandboxInv, SandboxTypes,
        PinnedInPhase, ImageChain, ResultsAreTrue, LeftIsMarked,
             VerdictIsLast, Phases, Images, NoLock, NoBundle

LEMMA UnpackKeeps == ASSUME SandboxInv, Unpack PROVE SandboxInv'
  <1>1. VerdictIsTheTasksOwn'
    BY VerdictStays DEF Unpack, hostVars
  <1> QED BY <1>1, SandboxAssumption DEF Unpack, hostVars, SandboxInv, SandboxTypes,
        PinnedInPhase, ImageChain, ResultsAreTrue, LeftIsMarked,
             VerdictIsLast, Phases, Images, NoLock, NoBundle

LEMMA ProbeStoreKeeps == ASSUME SandboxInv, ProbeStore PROVE SandboxInv'
  <1>1. VerdictIsTheTasksOwn'
    BY VerdictStays DEF ProbeStore, hostVars
  <1> QED BY <1>1, SandboxAssumption DEF ProbeStore, hostVars, SandboxInv, SandboxTypes,
        PinnedInPhase, ImageChain, ResultsAreTrue, LeftIsMarked,
             VerdictIsLast, Phases, Images, NoLock, NoBundle

LEMMA MoveTagKeeps == ASSUME SandboxInv, MoveTag PROVE SandboxInv'
  <1>1. VerdictIsTheTasksOwn'
    BY VerdictStays DEF MoveTag, hostVars, Elsewhere
  <1> QED BY <1>1, SandboxAssumption DEF MoveTag, hostVars, Elsewhere, SandboxInv,
        SandboxTypes, PinnedInPhase, ImageChain, ResultsAreTrue, LeftIsMarked,
             VerdictIsLast, Phases, Images, NoLock, NoBundle

\* Another run's lock moves the layout or adds to the store; what is at stake is the chain
\* of images, and a layout replaced under a check is what `mixed` records.
LEMMA LockElsewhereKeeps == ASSUME SandboxInv, LockElsewhere PROVE SandboxInv'
  <1>1. VerdictIsTheTasksOwn'
    BY VerdictStays DEF LockElsewhere, hostVars, Elsewhere
  <1>2. /\ UNCHANGED <<truth, runtime, imageLock, evalPhase, pin, ran, left, verdict, tag, bundle>>
        /\ layout' \in {layout, tag} /\ mixed' \in BOOLEAN /\ (mixed => mixed')
        /\ runtime = "rootless-podman" \/ layout' = tag
        /\ (runtime # "rootless-podman" /\ ~mixed' /\ evalPhase \in {"copied", "probed"}
               => layout' = layout)
    BY DEF LockElsewhere, Elsewhere, SandboxInv, SandboxTypes
  <1>3. SandboxTypes'
    BY <1>2 DEF SandboxInv, SandboxTypes, Images
  <1>4. PinnedInPhase' /\ LeftIsMarked' /\ VerdictIsLast'
    BY <1>2 DEF SandboxInv, PinnedInPhase, LeftIsMarked, VerdictIsLast
  <1>5. ASSUME ~mixed' PROVE ImageChain' /\ ResultsAreTrue'
    <2>1. ImageChain /\ ResultsAreTrue
      BY <1>2, <1>5 DEF SandboxInv
    <2>2. ResultsAreTrue'
      BY <1>2, <2>1 DEF ResultsAreTrue
    <2>3. ImageChain'
      BY <1>2, <1>5, <2>1 DEF ImageChain
    <2> QED BY <2>2, <2>3
  <1> QED BY <1>1, <1>3, <1>4, <1>5 DEF SandboxInv

LEMMA UnpackElsewhereKeeps == ASSUME SandboxInv, UnpackElsewhere PROVE SandboxInv'
  <1>1. VerdictIsTheTasksOwn'
    BY VerdictStays DEF UnpackElsewhere, hostVars, Elsewhere
  <1> QED BY <1>1, SandboxAssumption DEF UnpackElsewhere, hostVars, Elsewhere, SandboxInv,
        SandboxTypes, PinnedInPhase, ImageChain, ResultsAreTrue, LeftIsMarked,
             VerdictIsLast, Phases, Images, NoLock, NoBundle

LEMMA PruneImageKeeps == ASSUME SandboxInv, PruneImage PROVE SandboxInv'
  <1>1. VerdictIsTheTasksOwn'
    BY VerdictStays DEF PruneImage, hostVars, Elsewhere
  <1> QED BY <1>1, SandboxAssumption DEF PruneImage, hostVars, Elsewhere, SandboxInv,
        SandboxTypes, PinnedInPhase, ImageChain, ResultsAreTrue, LeftIsMarked,
             VerdictIsLast, Phases, Images, NoLock, NoBundle

LEMMA PublishLockKeeps == ASSUME SandboxInv, PublishLock PROVE SandboxInv'
  <1>1. verdict = NoVerdict
    BY DEF PublishLock, SandboxInv, VerdictIsLast
  <1>2. VerdictIsTheTasksOwn'
    BY <1>1 DEF PublishLock, VerdictIsTheTasksOwn, NoVerdict
  <1>3. \A a \in Attempts : ran[a] = NotRun
    BY DEF PublishLock, SandboxInv, PinnedInPhase
  <1>4. ResultsAreTrue'
    <2>1. ran' = ran
      BY DEF PublishLock
    <2>2. \A a \in Attempts : ran'[a].outcome = "NOT RUN"
      <3>1. NotRun.outcome = "NOT RUN"
        BY DEF NotRun
      <3> QED BY <1>3, <2>1, <3>1
    <2> QED BY <2>2 DEF ResultsAreTrue, ResultIsOf
  <1>5. imageLock'.digest \in ImageDigests /\ imageLock' # NoLock
        /\ imageLock' \in [digest : Images, manifest : Images]
    <2>1. pin \in ImageDigests /\ layout \in Images
      BY DEF PublishLock, SandboxInv, PinnedInPhase, SandboxTypes
    <2>2. imageLock'.digest = pin /\ imageLock'.manifest \in {NoImage, layout}
          /\ imageLock' = [digest |-> pin, manifest |-> imageLock'.manifest]
      BY DEF PublishLock
    <2>3. pin # NoImage
      BY <2>1, SandboxAssumption
    <2> QED BY <2>1, <2>2, <2>3 DEF NoLock, Images
  <1>6. ~mixed /\ runtime = "seccomp-chroot" => imageLock'.manifest = imageLock'.digest
    BY DEF PublishLock, SandboxInv, ImageChain
  <1> QED BY <1>1, <1>2, <1>3, <1>4, <1>5, <1>6
          DEF PublishLock, hostVars, SandboxInv, SandboxTypes, PinnedInPhase, ImageChain, LeftIsMarked,
              VerdictIsLast, Phases, Images

LEMMA StartAttemptKeeps ==
    ASSUME SandboxInv, NEW a \in Attempts, StartAttempt(a) PROVE SandboxInv'
  <1>1. verdict = NoVerdict
    BY DEF StartAttempt, SandboxInv, VerdictIsLast
  <1>2. VerdictIsTheTasksOwn'
    BY <1>1 DEF StartAttempt, VerdictIsTheTasksOwn, NoVerdict
  <1>3. /\ ran'[a] = [outcome |-> "started"]
        /\ \A b \in Attempts \ {a} : ran'[b] = ran[b]
        /\ ran' = [b \in Attempts |-> ran'[b]]
    BY DEF StartAttempt, SandboxInv, SandboxTypes
  <1>4. ASSUME ~mixed PROVE ResultsAreTrue'
    BY <1>3, <1>4 DEF StartAttempt, hostVars, SandboxInv, ResultsAreTrue, ResultIsOf
  <1>5. LeftIsMarked'
    BY <1>3 DEF StartAttempt, SandboxInv, LeftIsMarked, SandboxTypes
  <1>6. imageLock # NoLock
    BY DEF StartAttempt, SandboxInv, PinnedInPhase
  <1> QED BY <1>1, <1>2, <1>3, <1>4, <1>5, <1>6
          DEF StartAttempt, hostVars, SandboxInv, SandboxTypes, PinnedInPhase, ImageChain,
              VerdictIsLast, Phases, Outcomes

LEMMA EndAttemptKeeps ==
    ASSUME SandboxInv, NEW a \in Attempts, EndAttempt(a) PROVE SandboxInv'
  <1>1. verdict = NoVerdict
    BY DEF EndAttempt, SandboxInv, VerdictIsLast
  <1>2. VerdictIsTheTasksOwn'
    BY <1>1 DEF EndAttempt, VerdictIsTheTasksOwn, NoVerdict
  <1>3. PICK result : /\ result.outcome \in {"TIMEOUT", "TEST_FAILURE", "SUCCESS"}
                      /\ "outcome" \in DOMAIN result
                      /\ ~mixed => ResultIsOf(result, truth[imageLock.digest][a])
                      /\ \/ left' = left \ {a} /\ ran' = [ran EXCEPT ![a] = result]
                         \/ /\ UNCHANGED left
                            /\ ran' = [ran EXCEPT ![a] = [result EXCEPT !.outcome = "INTERNAL_FAILURE"]]
    <2> DEFINE empty == [outcome |-> "TEST_FAILURE", truncated |-> FALSE, parsed |-> <<>>]
    <2>1. /\ \A passes : ResultIsOf(empty, passes)
          /\ empty.outcome = "TEST_FAILURE" /\ "outcome" \in DOMAIN empty
      BY DEF ResultIsOf, TellsOf
    <2>2. PICK result \in IF Image = NoImage THEN {empty} ELSE Results(truth[Image][a]) :
             \/ left' = left \ {a} /\ ran' = [ran EXCEPT ![a] = result]
             \/ /\ UNCHANGED left
                /\ ran' = [ran EXCEPT ![a] = [result EXCEPT !.outcome = "INTERNAL_FAILURE"]]
      BY DEF EndAttempt
    <2> HIDE DEF empty
    <2>3. CASE Image = NoImage
      <3>1. result = empty
        BY <2>2, <2>3
      <3> QED BY <2>1, <2>2, <3>1
    <2>4. CASE Image # NoImage
      <3>1. result \in Results(truth[Image][a])
        BY <2>2, <2>4
      <3>2. ~mixed => Image = imageLock.digest
        BY <2>4, ImageIsLocked DEF EndAttempt
      <3>3. result.outcome \in {"TIMEOUT", "TEST_FAILURE", "SUCCESS"}
            /\ ResultIsOf(result, truth[Image][a]) /\ "outcome" \in DOMAIN result
        BY <3>1, ResultsTell
      <3> QED BY <2>2, <3>2, <3>3
    <2> QED BY <2>3, <2>4
  <1>4. /\ ran' = [b \in Attempts |-> ran'[b]]
        /\ \A b \in Attempts \ {a} : ran'[b] = ran[b]
        /\ \/ ran'[a] = result /\ left' = left \ {a}
           \/ ran'[a].outcome = "INTERNAL_FAILURE" /\ left' = left
    <2>1. [result EXCEPT !.outcome = "INTERNAL_FAILURE"].outcome = "INTERNAL_FAILURE"
      BY <1>3
    <2> QED BY <1>3, <2>1 DEF SandboxInv, SandboxTypes
  <1>5. ASSUME ~mixed PROVE ResultsAreTrue'
    BY <1>3, <1>4, <1>5 DEF EndAttempt, hostVars, SandboxInv, ResultsAreTrue, ResultIsOf
  <1>6. LeftIsMarked'
    BY <1>4 DEF SandboxInv, LeftIsMarked, SandboxTypes
  <1>7. imageLock # NoLock
    BY DEF EndAttempt, SandboxInv, PinnedInPhase
  <1> QED BY <1>1, <1>2, <1>3, <1>4, <1>5, <1>6, <1>7
          DEF EndAttempt, hostVars, SandboxInv, SandboxTypes, PinnedInPhase, ImageChain,
              VerdictIsLast, Phases, Outcomes

LEMMA StopEvaluationKeeps == ASSUME SandboxInv, StopEvaluation PROVE SandboxInv'
  <1>1. verdict = NoVerdict
    BY DEF StopEvaluation, SandboxInv, VerdictIsLast
  <1>2. VerdictIsTheTasksOwn'
    BY <1>1 DEF StopEvaluation, VerdictIsTheTasksOwn, NoVerdict
  <1>3. ResultsAreTrue'
    BY DEF StopEvaluation, ResultsAreTrue, ResultIsOf, NotRun
  <1> QED BY <1>1, <1>2, <1>3, SandboxAssumption
          DEF StopEvaluation, SandboxInv, SandboxTypes, PinnedInPhase, ImageChain, LeftIsMarked,
              VerdictIsLast, Phases, Outcomes, Images, NotRun, NoLock

\* What a conclusive pair of attempts says is true of the tests.
LEMMA ConclusionIsTrue ==
    ASSUME SandboxInv, ~mixed, Conclusive
    PROVE  /\ Resolves <=> truth[imageLock.digest]["candidate"] = Tests
           /\ \A n \in Fixed : \E t \in Tests :
                 NameOf[t] = n /\ t \notin truth[imageLock.digest]["baseline"]
           /\ left = {}
  <1> DEFINE passes == truth[imageLock.digest]
  <1> HIDE DEF passes
  <1>1. /\ ran["baseline"].outcome \in {"SUCCESS", "TEST_FAILURE"}
        /\ ran["candidate"].outcome \in {"SUCCESS", "TEST_FAILURE"}
        /\ Fixed \cup Kept \subseteq DOMAIN ran["baseline"].parsed
        /\ Fixed \cup Kept \subseteq DOMAIN ran["candidate"].parsed
    BY DEF Conclusive, Attempts, Evaluated, Observed
  <1>2. /\ TellsOf(ran["baseline"].parsed, passes["baseline"])
        /\ TellsOf(ran["candidate"].parsed, passes["candidate"])
        /\ ran["candidate"].outcome = "SUCCESS" => passes["candidate"] = Tests
    BY <1>1 DEF SandboxInv, ResultsAreTrue, ResultIsOf, Attempts, passes
  <1>3. Resolves => passes["candidate"] = Tests
    BY <1>2 DEF Conclusive, Contradicted
  <1>4. ASSUME passes["candidate"] = Tests PROVE Resolves
    BY <1>1, <1>2, <1>4 DEF Resolves, TellsOf
  <1>5. \A n \in Fixed : \E t \in Tests : NameOf[t] = n /\ t \notin passes["baseline"]
    <2>1. \A n \in Fixed : ~ran["baseline"].parsed[n]
      BY DEF Conclusive, Reproduced
    <2>2. ASSUME NEW n \in Fixed
          PROVE  \E t \in Tests : NameOf[t] = n
                                /\ ran["baseline"].parsed[n] = (t \in passes["baseline"])
      BY <1>1, <1>2 DEF TellsOf
    <2> QED BY <2>1, <2>2
  <1>6. left = {}
    BY <1>1 DEF SandboxInv, SandboxTypes, LeftIsMarked, Attempts
  <1> QED BY <1>3, <1>4, <1>5, <1>6 DEF passes

LEMMA EvaluateKeeps == ASSUME SandboxInv, Evaluate PROVE SandboxInv'
  <1>1. verdict'.resolved = IF ~Conclusive THEN "none" ELSE IF Resolves THEN "yes" ELSE "no"
    BY DEF Evaluate, Resolved
  <1>2. VerdictIsTheTasksOwn'
    <2>1. CASE mixed \/ ~Conclusive
      BY <1>1, <2>1 DEF Evaluate, hostVars, VerdictIsTheTasksOwn
    <2>2. CASE ~mixed /\ Conclusive
      BY <1>1, <2>2, ConclusionIsTrue DEF Evaluate, hostVars, VerdictIsTheTasksOwn, Fixed
    <2> QED BY <2>1, <2>2
  <1>3. imageLock # NoLock
    BY DEF Evaluate, SandboxInv, PinnedInPhase
  <1> QED BY <1>2, <1>3
          DEF Evaluate, hostVars, SandboxInv, SandboxTypes, PinnedInPhase, ImageChain, ResultsAreTrue,
              LeftIsMarked, VerdictIsLast, Phases

-----------------------------------------------------------------------------
LEMMA SandboxInvNext == ASSUME SandboxInv, [EvaluationNext]_evalVars PROVE SandboxInv'
  <1>1. CASE UNCHANGED evalVars
    BY <1>1 DEF evalVars, SandboxInv, SandboxTypes, PinnedInPhase, ImageChain,
          ResultsAreTrue,
                LeftIsMarked, VerdictIsLast, VerdictIsTheTasksOwn
  <1>2. ASSUME NEW a \in Attempts, StartAttempt(a) \/ EndAttempt(a) PROVE SandboxInv'
    BY <1>2, StartAttemptKeeps, EndAttemptKeeps
  <1> QED BY <1>1, <1>2, InspectImageKeeps, CopyImageKeeps, PublishLockKeeps,
        ProbeLayoutKeeps,
             UnpackKeeps, ProbeStoreKeeps, EvaluateKeeps, StopEvaluationKeeps, MoveTagKeeps,
             LockElsewhereKeeps, UnpackElsewhereKeeps, PruneImageKeeps DEF EvaluationNext

\* A verdict of the canary is true of the locked image, for every image, every set of tests,
\* any aliasing of their names and any number of kills and of moves of other runs.
THEOREM VerdictsAreTrue == EvaluationSpec => []VerdictIsTheTasksOwn
  <1>1. SandboxInv => VerdictIsTheTasksOwn
    BY DEF SandboxInv
  <1> QED BY <1>1, SandboxInvInit, SandboxInvNext, PTL DEF EvaluationSpec

--------------------------------------------------------------------------
(* Runs of tests in a container *)

BoxPhases == {"idle", "asked", "unavailable", "client", "removing", "returned"}
Boxes == [phase : BoxPhases, ready : BOOLEAN, container : {"none", "running", "stopped"},
          outcome : {"none", "SUCCESS", "TEST_FAILURE", "TIMEOUT", "INTERNAL_FAILURE"},
          counted : BOOLEAN]

\* A container is there only from its creation on, and it is gone when the call returns with
\* what it believes of the tests.
BoxRight(b) ==
    /\ b.container # "none" => b.phase \in {"client", "removing", "returned"}
    /\ b.phase = "returned" /\ b.outcome # "INTERNAL_FAILURE" => b.container = "none"

BoxesInv ==
    /\ imageHeld \in BOOLEAN
    /\ box \in [Launches -> Boxes]
    /\ executed = [l \in Launches |-> executed[l]]
    /\ \A l \in Launches : BoxRight(box[l])

-----------------------------------------------------------------------------
(* Training *)

Steps == Stages \cup {"start", "configured", "identified", "boundary", "evaluate",
                      "baseline", "final", "publish", "reported", "refused"}
Statuses == {"none", "PASS", "FAIL", "BLOCKED"}
Weights == [of : Launches \cup {"nobody"}, steps : 0 .. 2]
NamedVersions == [Named -> Versions \cup {NoVersion}]
Models == [weights : Weights, optimizer : Weights, batch : Versions \cup {NoVersion},
           steps : 0 .. 2, resumed : 0 .. 1, reloaded : BOOLEAN]

Shape ==
    /\ step = [l \in Launches |-> step[l]] /\ named = [l \in Launches |-> named[l]]
    /\ model = [l \in Launches |-> model[l]] /\ answer = [l \in Launches |-> answer[l]]
    /\ status = [l \in Launches |-> status[l]]

TypesOf(l) ==
    /\ step[l] \in Steps /\ named[l] \in NamedVersions /\ model[l] \in Models
    /\ answer[l] \in Answers /\ status[l] \in Statuses

SharedTypes ==
    /\ input \in [Inputs -> Versions] /\ touches \in 0 .. MaxTouches
    /\ checkpoint \in [made : BOOLEAN, model : Weights, optimizer : Weights]
    /\ ~checkpoint.made => checkpoint = NoCheckpoint

At(l, n) == [of |-> l, steps |-> n]

\* What the backend of a launch holds, stage by stage
Fresh(l) ==
    /\ model[l].weights = At(l, 0) /\ model[l].optimizer = NoWeights
    /\ model[l].steps = 0 /\ model[l].resumed = 0 /\ ~model[l].reloaded
SteppedOnce(l) ==
    /\ model[l].weights = At(l, 1) /\ model[l].optimizer = At(l, 1)
    /\ model[l].steps = 1 /\ model[l].resumed = 0
Trained(l) ==
    /\ model[l].weights = At(l, 2) /\ model[l].optimizer = At(l, 2)
    /\ ResumeEvidence(model[l]) /\ model[l].batch = named[l].samples
    /\ checkpoint.model = At(l, 1)

\* A checkpoint is of the launch that is past making its directory.
Trainer(l) ==
    /\ step[l] \in {"save_optimizer", "reload_checkpoint", "resume_train_step", "infer"} =>
         checkpoint.made /\ checkpoint.model = At(l, 1)
    /\ step[l] = "reload_checkpoint" => checkpoint.optimizer = At(l, 1)
    /\ step[l] \in {"tokenize", "train_step"} => Fresh(l)
    /\ step[l] \in {"save_checkpoint", "save_optimizer", "reload_checkpoint", "resume_train_step"} =>
         SteppedOnce(l)
    /\ step[l] \in {"train_step", "save_checkpoint", "save_optimizer", "reload_checkpoint",
                    "resume_train_step"} => model[l].batch = named[l].samples
    /\ step[l] = "infer" => Trained(l)
    /\ step[l] = "resume_train_step" => model[l].reloaded

\* A status is there when the lifecycle has ended, and PASS only of a launch that trained on
\* what the trust root knows.
Authorized(l) == <<named[l].samples, named[l].pilot>> \in AuthorizedPilots

StatusEarned(l) ==
    /\ step[l] \in Stages \cup {"start", "configured", "identified"} => status[l] = "none"
    /\ step[l] \in Steps \ {"start", "configured", "identified", "refused"} => Authorized(l)
    /\ status[l] = "PASS" => Trained(l) /\ checkpoint.made
    /\ step[l] \in {"evaluate", "baseline", "final"} => status[l] = "PASS"
    /\ status[l] = "BLOCKED" => step[l] \in {"publish", "reported", "refused"}

\* What the two runs of the fixture's tests have shown, and what is left of them
Baseline == <<"fixture", FALSE>>
Repaired == <<"repaired", TRUE>>

TestsShown(l) ==
    /\ step[l] \notin {"baseline", "final"} => box[l].phase \in {"idle", "unavailable", "returned"}
    /\ step[l] = "baseline" /\ box[l].outcome = "TEST_FAILURE" /\ box[l].counted =>
         Baseline \in executed[l]
    /\ step[l] = "final" =>
         /\ Baseline \in executed[l]
         /\ box[l].outcome = "SUCCESS" => Repaired \in executed[l]
    /\ step[l] \in {"publish", "reported"} =>
         /\ status[l] = "PASS" => {Baseline, Repaired} \subseteq executed[l]
         /\ status[l] # "FAIL" => box[l].container = "none" /\ status[l] \in {"PASS", "BLOCKED"}

\* A report is that of the launch that published it.
ReportOfOne ==
    report # NoReport =>
      \E l \in Launches :
        /\ report = [by |-> l, status |-> status[l], named |-> named[l]]
        /\ step[l] = "reported"

LaunchInv(l) == TypesOf(l) /\ Trainer(l) /\ StatusEarned(l) /\ TestsShown(l)

TrainingInv == Shape /\ SharedTypes /\ ReportOfOne /\ \A l \in Launches : LaunchInv(l)

-----------------------------------------------------------------------------
(* Teacher *)
Records == [status : {"UNVERIFIED", "FAIL", "BLOCKED"}, tests : {"none", "passed", "failed"}]

RolloutTypes ==
    /\ rolloutPhase \in {"solving", "restoring", "testing", "written", "raised"}
    /\ seeds \in 1 .. MaxSeeds /\ withRunner \in BOOLEAN
    /\ workspace \in {"none", "base", "patched base"}
    /\ rollouts \in Seq(Records) /\ Len(rollouts) \in 0 .. seeds

\* The tests of the patched base commit ran to their end and passed, for the n-th seed.
Shown(n) == <<<<n, "patched base">>, TRUE>> \in executed[Teacher]

\* Every attempt has a clone of its own.
CloneOfAttempt ==
    /\ rolloutPhase = "solving" => workspace = "none"
    /\ rolloutPhase = "restoring" => workspace \in {"none", "base"}
    /\ rolloutPhase \in {"restoring", "testing"} => withRunner /\ Len(rollouts) < seeds
    /\ rolloutPhase = "testing" =>
         /\ workspace = "patched base"
         /\ box[Teacher].outcome = "SUCCESS" => Shown(Len(rollouts) + 1)

RecordsEarned ==
    \A n \in DOMAIN rollouts :
        /\ withRunner /\ rollouts[n].status = "UNVERIFIED" => Shown(n)
        /\ ~withRunner => rollouts[n].tests = "none"

ArtifactWhole ==
    rolloutArtifact # <<>> => rolloutArtifact = rollouts /\ Len(rollouts) = seeds /\ rolloutPhase = "written"

TeacherInv == RolloutTypes /\ CloneOfAttempt /\ RecordsEarned /\ ArtifactWhole

-----------------------------------------------------------------------------
LEMMA BoxesInitially == PodmanInit => BoxesInv
BY DEF PodmanInit, BoxesInv, NoBox, Boxes, BoxPhases, BoxRight

\* What run changes when it is called
CallOf(l) ==
    /\ \A o \in Launches \ {l} : box'[o] = box[o]
    /\ box'[l].phase = "asked" /\ box'[l].outcome = "none"
    /\ UNCHANGED <<imageHeld, executed>>

LEMMA CallStep ==
  ASSUME BoxesInv, NEW l \in Launches, NEW w \in BOOLEAN,
         box' = Called(l, w), UNCHANGED <<imageHeld, executed>>
  PROVE  BoxesInv' /\ CallOf(l)
<1>1. Called(l, w)[l] \in Boxes /\ BoxRight(Called(l, w)[l])
  BY DEF BoxesInv, Called, Boxes, BoxPhases, NoBox, BoxRight
<1>2. Called(l, w)[l].phase = "asked" /\ Called(l, w)[l].outcome = "none"
  BY DEF BoxesInv, Called, NoBox
<1>3. box' = [box EXCEPT ![l] = Called(l, w)[l]]
  BY DEF BoxesInv, Called
<1> QED
  BY <1>1, <1>2, <1>3 DEF BoxesInv, CallOf

\* What a step of the container or of its client changes: the outcome is that of tests that
\* went to their end, or it is none that anything is believed of.
BoxStep(l) ==
    /\ \A o \in Launches \ {l} : box'[o] = box[o]
    /\ box[l].phase \in {"asked", "client", "removing"}
    /\ UNCHANGED imageHeld

Believed(b) == b.outcome = "SUCCESS" \/ (b.outcome = "TEST_FAILURE" /\ b.counted)

Disbelieved(l) ==
    /\ UNCHANGED executed
    /\ \/ box'[l].outcome = box[l].outcome /\ box'[l].counted = box[l].counted
       \/ ~Believed(box'[l])

LEMMA BoxChanges ==
  ASSUME BoxesInv, NEW l \in Launches, NEW b \in Boxes, BoxRight(b),
         box' = [o \in Launches |-> box'[o]], box'[l] = b,
         \A o \in Launches \ {l} : box'[o] = box[o], imageHeld' \in BOOLEAN,
         executed' = [o \in Launches |-> executed'[o]]
  PROVE  BoxesInv'
BY DEF BoxesInv

LEMMA PodmanStepEffect ==
  ASSUME BoxesInv, NEW l \in Launches, PodmanStep(l)
  PROVE  BoxesInv' /\ BoxStep(l) /\ Disbelieved(l)
<1>0. box \in [Launches -> Boxes] /\ box[l] \in Boxes /\ BoxRight(box[l])
      /\ imageHeld \in BOOLEAN /\ executed = [o \in Launches |-> executed[o]]
  BY DEF BoxesInv
<1> DEFINE Becomes(b) ==
      /\ box' = [o \in Launches |-> box'[o]]
      /\ box'[l] = b /\ \A o \in Launches \ {l} : box'[o] = box[o]
      /\ box[l].phase \in {"asked", "client", "removing"}
      /\ UNCHANGED <<imageHeld, executed>>
    Good(b) ==
      /\ b \in Boxes /\ BoxRight(b)
      /\ \/ b.outcome = box[l].outcome /\ b.counted = box[l].counted
         \/ ~Believed(b)
<1>1. ASSUME EnsureReady(l) PROVE \E b : Becomes(b) /\ Good(b)
  <2>1. PICK available \in BOOLEAN :
               box' = [box EXCEPT ![l].phase = IF available THEN "client" ELSE "unavailable",
                                  ![l].ready = available]
    BY <1>0, <1>1 DEF EnsureReady, Boxes
  <2> DEFINE b == [box[l] EXCEPT !.phase = IF available THEN "client" ELSE "unavailable",
                                 !.ready = available]
  <2>2. Becomes(b)
    BY <1>0, <1>1, <2>1 DEF EnsureReady
  <2>3. Good(b)
    <3>1. box[l].phase = "asked"
      BY <1>1 DEF EnsureReady
    <3> QED
      BY <1>0, <3>1 DEF Boxes, BoxPhases, BoxRight
  <2> QED
    BY <2>2, <2>3
<1>2. ASSUME CreateContainer(l) PROVE \E b : Becomes(b) /\ Good(b)
  <2> DEFINE b == [box[l] EXCEPT !.container = "running"]
  <2>1. Becomes(b)
    BY <1>0, <1>2 DEF CreateContainer
  <2>2. Good(b)
    <3>1. box[l].phase = "client"
      BY <1>2 DEF CreateContainer
    <3> QED
      BY <1>0, <3>1 DEF Boxes, BoxPhases, BoxRight, Believed
  <2> QED
    BY <2>1, <2>2
<1>3. ASSUME ContainerFails(l) PROVE \E b : Becomes(b) /\ Good(b)
  <2> DEFINE b == [box[l] EXCEPT !.phase = "removing", !.outcome = "TEST_FAILURE",
                          !.counted = FALSE, !.container = "none"]
  <2>1. Becomes(b)
    BY <1>0, <1>3 DEF ContainerFails, Ended
  <2>2. Good(b)
    <3>1. box[l].phase = "client"
      BY <1>3 DEF ContainerFails
    <3> QED
      BY <1>0, <3>1 DEF Boxes, BoxPhases, BoxRight, Believed
  <2> QED
    BY <2>1, <2>2
<1>4. ASSUME ClientTimesOut(l) PROVE \E b : Becomes(b) /\ Good(b)
  <2> DEFINE b == [box[l] EXCEPT !.phase = "removing", !.outcome = "TIMEOUT",
                          !.counted = FALSE, !.container = box[l].container]
  <2>1. Becomes(b)
    BY <1>0, <1>4 DEF ClientTimesOut, Ended
  <2>2. Good(b)
    <3>1. box[l].phase = "client"
      BY <1>4 DEF ClientTimesOut
    <3> QED
      BY <1>0, <3>1 DEF Boxes, BoxPhases, BoxRight, Believed
  <2> QED
    BY <2>1, <2>2
<1>5. ASSUME ForceRemove(l) PROVE \E b : Becomes(b) /\ Good(b)
  <2> DEFINE b1 == [box[l] EXCEPT !.phase = "returned", !.container = "none"]
             b2 == [box[l] EXCEPT !.phase = "returned", !.outcome = "INTERNAL_FAILURE"]
  <2>1. Becomes(b1) \/ Becomes(b2)
    BY <1>0, <1>5 DEF ForceRemove
  <2>2. Good(b1) /\ Good(b2)
    BY <1>0 DEF Boxes, BoxPhases, BoxRight, Believed
  <2> QED
    BY <2>1, <2>2
<1>6. PICK b : Becomes(b) /\ Good(b)
  BY <1>1, <1>2, <1>3, <1>4, <1>5 DEF PodmanStep
<1>7. BoxesInv'
  BY <1>0, <1>6, BoxChanges
<1> QED
  BY <1>6, <1>7 DEF BoxStep, Disbelieved

Ran(l, tree, passed) ==
    /\ executed'[l] = executed[l] \cup {<<tree, passed>>}
    /\ \A o \in Launches \ {l} : executed'[o] = executed[o]
    /\ box'[l].outcome = IF passed THEN "SUCCESS" ELSE "TEST_FAILURE"

LEMMA TestsEndEffect ==
  ASSUME BoxesInv, NEW l \in Launches, NEW w, NEW passed \in BOOLEAN, TestsEnd(l, w, passed)
  PROVE  BoxesInv' /\ BoxStep(l) /\ Ran(l, w, passed)
<1>1. box \in [Launches -> Boxes] /\ box[l] \in Boxes /\ BoxRight(box[l]) /\ imageHeld \in BOOLEAN
      /\ executed = [o \in Launches |-> executed[o]]
  BY DEF BoxesInv
<1>2. PICK counted \in BOOLEAN, container \in {"none", "stopped"} :
             Ended(l, IF passed THEN "SUCCESS" ELSE "TEST_FAILURE", counted, container)
  BY DEF TestsEnd
<1> DEFINE b == [box[l] EXCEPT !.phase = "removing",
                               !.outcome = IF passed THEN "SUCCESS" ELSE "TEST_FAILURE",
                               !.counted = counted, !.container = container]
<1>3. b \in Boxes /\ BoxRight(b) /\ b.outcome = IF passed THEN "SUCCESS" ELSE "TEST_FAILURE"
  BY <1>1 DEF Boxes, BoxPhases, BoxRight
<1>4. /\ box' = [o \in Launches |-> box'[o]]
      /\ box'[l] = b /\ \A o \in Launches \ {l} : box'[o] = box[o]
  BY <1>1, <1>2 DEF Ended
<1>5. /\ box[l].phase = "client" /\ imageHeld' = imageHeld
      /\ executed' = [executed EXCEPT ![l] = @ \cup {<<w, passed>>}]
  BY DEF TestsEnd
<1>6. executed' = [o \in Launches |-> executed'[o]]
  BY <1>1, <1>5
<1>7. BoxesInv'
  BY <1>1, <1>3, <1>4, <1>5, <1>6, BoxChanges
<1> QED
  BY <1>1, <1>3, <1>4, <1>5, <1>7 DEF BoxStep, Ran

LEMMA PruneEffect ==
  ASSUME BoxesInv, PruneHeldImage
  PROVE  BoxesInv'
BY DEF BoxesInv, PruneHeldImage, BoxRight
-----------------------------------------------------------------------------
\* What a step of one launch leaves alone: the other launches, and the checkpoint of one that
\* has it.
Moves(l) ==
    /\ step' = [o \in Launches |-> step'[o]] /\ named' = [o \in Launches |-> named'[o]]
    /\ model' = [o \in Launches |-> model'[o]] /\ answer' = [o \in Launches |-> answer'[o]]
    /\ status' = [o \in Launches |-> status'[o]]
    /\ \A o \in Launches \ {l} :
          /\ step'[o] = step[o] /\ named'[o] = named[o] /\ model'[o] = model[o]
          /\ answer'[o] = answer[o] /\ status'[o] = status[o]
          /\ box'[o] = box[o] /\ executed'[o] = executed[o]

CheckpointKept(l) ==
    /\ checkpoint.made => checkpoint'.made /\ checkpoint'.model = checkpoint.model
    /\ \A o \in Launches \ {l} :
          step[o] = "reload_checkpoint" => checkpoint'.optimizer = checkpoint.optimizer

LEMMA BystandersKept ==
  ASSUME TrainingInv, NEW l \in Launches, Moves(l), CheckpointKept(l)
  PROVE  \A o \in Launches \ {l} : LaunchInv(o)'
<1> SUFFICES ASSUME NEW o \in Launches, o # l PROVE LaunchInv(o)'
  OBVIOUS
<1>1. LaunchInv(o)
  BY DEF TrainingInv
<1>2. /\ step'[o] = step[o] /\ named'[o] = named[o] /\ model'[o] = model[o]
      /\ answer'[o] = answer[o] /\ status'[o] = status[o]
      /\ box'[o] = box[o] /\ executed'[o] = executed[o]
  BY DEF Moves
<1>3. TypesOf(o)'
  BY <1>1, <1>2 DEF LaunchInv, TypesOf
<1>4. Trained(o) /\ checkpoint.made => Trained(o)'
  BY <1>2 DEF CheckpointKept, Trained
<1>5. step[o] = "infer" \/ status[o] = "PASS" => checkpoint.made
  BY <1>1 DEF LaunchInv, Trainer, StatusEarned
<1>6. Trainer(o)'
  BY <1>1, <1>2, <1>4, <1>5 DEF LaunchInv, Trainer, CheckpointKept, Fresh, SteppedOnce
<1>7. StatusEarned(o)'
  BY <1>1, <1>2, <1>4, <1>5 DEF LaunchInv, StatusEarned, CheckpointKept, Authorized
<1>8. TestsShown(o)'
  BY <1>1, <1>2 DEF LaunchInv, TestsShown
<1> QED
  BY <1>3, <1>6, <1>7, <1>8 DEF LaunchInv

LEMMA ReportKept ==
  ASSUME TrainingInv, NEW l \in Launches, Moves(l), UNCHANGED report,
         \/ step[l] # "reported"
         \/ step'[l] = step[l] /\ status'[l] = status[l] /\ named'[l] = named[l]
  PROVE  ReportOfOne'
<1> SUFFICES ASSUME report # NoReport PROVE ReportOfOne'
  BY DEF ReportOfOne, NoReport
<1>1. PICK o \in Launches :
            /\ report = [by |-> o, status |-> status[o], named |-> named[o]]
            /\ step[o] = "reported"
  BY DEF TrainingInv, ReportOfOne
<1>2. step'[o] = step[o] /\ status'[o] = status[o] /\ named'[o] = named[o]
  BY <1>1 DEF Moves
<1> QED
  BY <1>1, <1>2 DEF ReportOfOne

LEMMA StepJoins ==
  ASSUME TrainingInv, NEW l \in Launches, Moves(l), CheckpointKept(l), SharedTypes',
         ReportOfOne', LaunchInv(l)'
  PROVE  TrainingInv'
<1>1. Shape'
  BY DEF Moves, Shape
<1>2. \A o \in Launches : LaunchInv(o)'
  BY BystandersKept
<1> QED
  BY <1>1, <1>2 DEF TrainingInv

LEMMA TrainingInitially == TrainingInit /\ PodmanInit => TrainingInv
<1> SUFFICES ASSUME TrainingInit, PodmanInit PROVE TrainingInv
  OBVIOUS
<1>1. Shape /\ ReportOfOne
  BY DEF TrainingInit, Shape, ReportOfOne
<1>2. SharedTypes
  BY TrainingAssumption DEF TrainingInit, SharedTypes, NoCheckpoint, NoWeights, Weights
<1>3. ASSUME NEW l \in Launches PROVE LaunchInv(l)
  <2>1. /\ step[l] = "start" /\ named[l] = [f \in Named |-> NoVersion] /\ model[l] = Unloaded
        /\ answer[l] = "unusable" /\ status[l] = "none"
    BY DEF TrainingInit
  <2>2. box[l] = NoBox
    BY DEF PodmanInit
  <2>3. Unloaded \in Models
    BY DEF Unloaded, Models, NoWeights, Weights
  <2>4. TypesOf(l)
    BY <2>1, <2>3 DEF TypesOf, Steps, NamedVersions, Answers, Statuses
  <2>5. Trainer(l) /\ StatusEarned(l) /\ TestsShown(l)
    BY <2>1, <2>2 DEF Trainer, StatusEarned, TestsShown, NoBox
  <2> QED
    BY <2>4, <2>5 DEF LaunchInv
<1> QED
  BY <1>1, <1>2, <1>3 DEF TrainingInv

\* What is known of a launch that is anywhere
LEMMA InvOf ==
  ASSUME TrainingInv, NEW l \in Launches
  PROVE  /\ TypesOf(l) /\ Trainer(l) /\ StatusEarned(l) /\ TestsShown(l) /\ SharedTypes
         /\ step \in [Launches -> Steps] /\ named \in [Launches -> NamedVersions]
         /\ model \in [Launches -> Models] /\ answer \in [Launches -> Answers]
         /\ status \in [Launches -> Statuses]
BY DEF TrainingInv, Shape, LaunchInv, TypesOf

-----------------------------------------------------------------------------
(* The steps before the lifecycle: identities, and the trust root *)

Prepares(l) == ReadConfig(l) \/ IdentifyInputs(l) \/ StageTraining(l)

LEMMA PrepareStep ==
  ASSUME TrainingInv, NEW l \in Launches, Prepares(l)
  PROVE  TrainingInv'
<1>1. /\ TypesOf(l) /\ Trainer(l) /\ StatusEarned(l) /\ TestsShown(l) /\ SharedTypes
      /\ step \in [Launches -> Steps] /\ named \in [Launches -> NamedVersions]
      /\ model \in [Launches -> Models] /\ answer \in [Launches -> Answers]
      /\ status \in [Launches -> Statuses]
  BY InvOf
<1>2. /\ step[l] \in {"start", "configured", "identified"}
      /\ UNCHANGED <<input, touches, model, answer, status, checkpoint, report, box, executed>>
  BY DEF Prepares, ReadConfig, IdentifyInputs, StageTraining, podmanVars
<1>3. /\ step' = [step EXCEPT ![l] = step'[l]]
      /\ \/ step'[l] \in {"configured", "identified", "refused"}
         \/ step'[l] = "load" /\ Authorized(l) /\ named' = named
  <2>1. CASE ReadConfig(l)
    BY <1>1, <2>1 DEF ReadConfig, Goto
  <2>2. CASE IdentifyInputs(l)
    BY <1>1, <2>2 DEF IdentifyInputs, Goto, RefuseLaunch
  <2>3. CASE StageTraining(l)
    BY <1>1, <2>3 DEF StageTraining, Goto, RefuseLaunch, PilotIsAuthorized, Authorized
  <2> QED
    BY <2>1, <2>2, <2>3 DEF Prepares
<1>4. /\ named' = [o \in Launches |-> named'[o]] /\ named'[l] \in NamedVersions
      /\ \A o \in Launches \ {l} : named'[o] = named[o]
  <2>1. input \in [Inputs -> Versions]
    BY <1>1 DEF SharedTypes
  <2>2. CASE ReadConfig(l)
    BY <1>1, <2>1, <2>2 DEF ReadConfig, NamedVersions, Named, Inputs
  <2>3. CASE IdentifyInputs(l)
    BY <1>1, <2>1, <2>3 DEF IdentifyInputs, NamedVersions, Named, Inputs
  <2>4. CASE StageTraining(l)
    BY <1>1, <2>4 DEF StageTraining
  <2> QED
    BY <2>2, <2>3, <2>4 DEF Prepares
<1>5. Moves(l)
  BY <1>1, <1>2, <1>3, <1>4 DEF Moves
<1>6. CheckpointKept(l) /\ SharedTypes'
  BY <1>1, <1>2 DEF CheckpointKept, SharedTypes
<1>7. ReportOfOne'
  BY <1>2, <1>5, ReportKept
<1>8. TypesOf(l)'
  BY <1>1, <1>2, <1>3, <1>4 DEF TypesOf, Steps, Stages
<1>9. Trainer(l)'
  BY <1>2, <1>3 DEF Trainer
<1>10. status[l] = "none"
  BY <1>1, <1>2 DEF StatusEarned
<1>11. StatusEarned(l)'
  BY <1>2, <1>3, <1>10 DEF StatusEarned, Authorized
<1>12. TestsShown(l)'
  BY <1>1, <1>2, <1>3 DEF TestsShown
<1> QED
  BY <1>5, <1>6, <1>7, <1>8, <1>9, <1>11, <1>12, StepJoins DEF LaunchInv

-----------------------------------------------------------------------------
(* The stages of the lifecycle *)

StageMoves(l) ==
    /\ step[l] \in Stages /\ step'[l] \in Stages \cup {"boundary"}
    /\ step' = [step EXCEPT ![l] = step'[l]]
    /\ model' = [model EXCEPT ![l] = model'[l]]
    /\ answer' = [answer EXCEPT ![l] = answer'[l]]
    /\ status' = [status EXCEPT ![l] = status'[l]]
    /\ UNCHANGED <<input, touches, named, report, box, executed>>

LEMMA StageJoins ==
  ASSUME TrainingInv, NEW l \in Launches, StageMoves(l), CheckpointKept(l), SharedTypes',
         model'[l] \in Models, answer'[l] \in Answers, status'[l] \in Statuses,
         Trainer(l)', StatusEarned(l)'
  PROVE  TrainingInv'
<1>1. /\ TypesOf(l) /\ TestsShown(l)
      /\ step \in [Launches -> Steps] /\ named \in [Launches -> NamedVersions]
      /\ model \in [Launches -> Models] /\ answer \in [Launches -> Answers]
      /\ status \in [Launches -> Statuses]
  BY InvOf
<1>2. Moves(l)
  BY <1>1 DEF StageMoves, Moves
<1>3. ReportOfOne'
  BY <1>2, ReportKept DEF StageMoves, Stages
<1>4. TypesOf(l)'
  BY <1>1 DEF StageMoves, TypesOf, Steps
<1>5. TestsShown(l)'
  BY <1>1 DEF StageMoves, TestsShown, Stages
<1> QED
  BY <1>2, <1>3, <1>4, <1>5, StepJoins DEF LaunchInv

\* What each stage finds, and what a launch without a status is
LEMMA InStage ==
  ASSUME TrainingInv, NEW l \in Launches, step[l] \in Stages
  PROVE  /\ TypesOf(l) /\ Trainer(l) /\ SharedTypes /\ status[l] = "none" /\ Authorized(l)
         /\ step \in [Launches -> Steps] /\ model \in [Launches -> Models]
         /\ answer \in [Launches -> Answers] /\ status \in [Launches -> Statuses]
         /\ model = [model EXCEPT ![l] = model[l]] /\ answer = [answer EXCEPT ![l] = answer[l]]
         /\ status = [status EXCEPT ![l] = status[l]]
         /\ model[l] \in Models /\ answer[l] \in Answers /\ status[l] \in Statuses
<1>1. /\ TypesOf(l) /\ Trainer(l) /\ StatusEarned(l) /\ SharedTypes
      /\ step \in [Launches -> Steps] /\ model \in [Launches -> Models]
      /\ answer \in [Launches -> Answers] /\ status \in [Launches -> Statuses]
  BY InvOf
<1>2. status[l] = "none" /\ Authorized(l)
  BY <1>1 DEF StatusEarned, Steps, Stages
<1> QED
  BY <1>1, <1>2

\* A stage that leaves the checkpoint and the status alone, and goes on
LEMMA QuietStage ==
  ASSUME TrainingInv, NEW l \in Launches, NEW s \in Stages \ {"infer"}, Stage(l, s),
         UNCHANGED <<answer, status, checkpoint>>,
         model' = [model EXCEPT ![l] = model'[l]], model'[l] \in Models, Trainer(l)'
  PROVE  TrainingInv'
<1>1. step[l] \in Stages
  BY DEF Stage
<1>2. /\ SharedTypes /\ status[l] = "none" /\ Authorized(l)
      /\ step \in [Launches -> Steps] /\ answer[l] \in Answers /\ status[l] \in Statuses
      /\ answer = [answer EXCEPT ![l] = answer[l]] /\ status = [status EXCEPT ![l] = status[l]]
  BY <1>1, InStage
<1>3. After(s) \in Stages
  BY DEF After, Stages
<1>4. /\ step'[l] = After(s) /\ step' = [step EXCEPT ![l] = step'[l]]
      /\ UNCHANGED <<input, touches, named, report, box, executed>>
  BY <1>2 DEF Stage, Goto, podmanVars
<1>5. StageMoves(l)
  BY <1>1, <1>2, <1>3, <1>4 DEF StageMoves
<1>6. CheckpointKept(l) /\ SharedTypes'
  BY <1>2, <1>4 DEF CheckpointKept, SharedTypes
<1>7. StatusEarned(l)'
  BY <1>2, <1>3, <1>4 DEF StatusEarned, Authorized, Stages
<1> QED
  BY <1>2, <1>5, <1>6, <1>7, StageJoins

LEMMA LoadStep ==
  ASSUME TrainingInv, NEW l \in Launches, Load(l)
  PROVE  TrainingInv'
<1>1. step[l] \in Stages /\ step'[l] = "tokenize" /\ Stage(l, "load")
  BY InvOf DEF Load, Stage, Stages, Goto, After
<1>2. model \in [Launches -> Models]
  BY InvOf
<1>3. model'[l] = [Unloaded EXCEPT !.weights = At(l, 0)]
  BY <1>2 DEF Load, At
<1>4. model' = [model EXCEPT ![l] = model'[l]]
  BY <1>2 DEF Load
<1>5. model'[l] \in Models
  <2>1. At(l, 0) \in Weights /\ NoWeights \in Weights
    BY DEF At, Weights, NoWeights
  <2>2. model'[l] = [weights |-> At(l, 0), optimizer |-> NoWeights, batch |-> NoVersion,
                     steps |-> 0, resumed |-> 0, reloaded |-> FALSE]
    BY <1>3 DEF Unloaded
  <2> QED
    BY <2>1, <2>2 DEF Models
<1>6. Trainer(l)'
  BY <1>1, <1>3 DEF Trainer, Fresh, Unloaded, At, NoWeights
<1> QED
  BY <1>1, <1>4, <1>5, <1>6, QuietStage DEF Load, Stages

LEMMA TokenizeStep ==
  ASSUME TrainingInv, NEW l \in Launches, Tokenize(l)
  PROVE  TrainingInv'
<1>1. /\ step[l] = "tokenize" /\ step'[l] = "train_step" /\ Stage(l, "tokenize")
      /\ UNCHANGED named
  BY InvOf DEF Tokenize, Stage, Goto, After
<1>2. model \in [Launches -> Models] /\ named \in [Launches -> NamedVersions] /\ Trainer(l)
  BY InvOf
<1>3. model'[l] = [model[l] EXCEPT !.batch = named[l].samples]
  BY <1>2 DEF Tokenize
<1>4. model' = [model EXCEPT ![l] = model'[l]]
  BY <1>2 DEF Tokenize
<1>5. named[l].samples \in Versions \cup {NoVersion}
  BY <1>2 DEF NamedVersions, Named, Inputs
<1>6. model'[l] \in Models
  BY <1>2, <1>3, <1>5 DEF Models
<1>7. Trainer(l)'
  BY <1>1, <1>2, <1>3 DEF Trainer, Fresh, Models
<1> QED
  BY <1>1, <1>4, <1>6, <1>7, QuietStage DEF Tokenize, Stages

\* _run_optimizer_step, on weights and an optimizer of the launch's own
LEMMA NextAt ==
  ASSUME NEW l, NEW n, NEW k
  PROVE  [At(l, n) EXCEPT !.steps = k] = At(l, k)
BY DEF At

LEMMA SteppedModel ==
  ASSUME NEW l \in Launches, NEW n \in 0 .. 1, NEW m \in Models,
         m.weights = At(l, n), m.optimizer = At(l, n), m.steps = n
  PROVE  /\ Stepped(m) \in Models
         /\ Stepped(m).weights = At(l, n + 1) /\ Stepped(m).optimizer = At(l, n + 1)
         /\ Stepped(m).steps = n + 1 /\ Stepped(m).batch = m.batch
         /\ Stepped(m).resumed = m.resumed /\ Stepped(m).reloaded = m.reloaded
<1>1. Stepped(m) = [m EXCEPT !.weights = [m.weights EXCEPT !.steps = @ + 1],
                             !.optimizer = [m.optimizer EXCEPT !.steps = @ + 1],
                             !.steps = m.steps + 1]
  BY DEF Models, Stepped
<1>2. [At(l, n) EXCEPT !.steps = n + 1] = At(l, n + 1) /\ At(l, n).steps = n
  BY NextAt DEF At
<1>3. [At(l, n) EXCEPT !.steps = @ + 1] = At(l, n + 1)
  BY <1>2
<1>4. Stepped(m) = [m EXCEPT !.weights = At(l, n + 1), !.optimizer = At(l, n + 1),
                             !.steps = n + 1]
  BY <1>1, <1>3
<1>5. At(l, n + 1) \in Weights
  BY DEF At, Weights
<1>6. n + 1 \in 0 .. 2
  OBVIOUS
<1>7. Stepped(m) \in Models
  BY <1>4, <1>5, <1>6 DEF Models
<1> QED
  BY <1>4, <1>7 DEF Models

LEMMA TrainStepStep ==
  ASSUME TrainingInv, NEW l \in Launches, TrainStep(l)
  PROVE  TrainingInv'
<1>1. /\ step[l] = "train_step" /\ step'[l] = "save_checkpoint" /\ Stage(l, "train_step")
      /\ UNCHANGED named
  BY InvOf DEF TrainStep, Stage, Goto, After
<1>2. model \in [Launches -> Models] /\ Trainer(l)
  BY InvOf
<1>3. Fresh(l) /\ model[l].batch = named[l].samples
  BY <1>1, <1>2 DEF Trainer
<1>4. model'[l] = Stepped([model[l] EXCEPT !.optimizer = [of |-> l, steps |-> 0]])
  BY <1>2 DEF TrainStep
<1>5. model' = [model EXCEPT ![l] = model'[l]]
  BY <1>2 DEF TrainStep
<1> DEFINE m == [model[l] EXCEPT !.optimizer = At(l, 0)]
<1>6. m \in Models /\ m.weights = At(l, 0) /\ m.optimizer = At(l, 0) /\ m.steps = 0
      /\ m.batch = model[l].batch /\ m.resumed = 0
  <2>1. At(l, 0) \in Weights
    BY DEF At, Weights
  <2> QED
    BY <1>2, <1>3, <2>1 DEF Fresh, Models
<1>7. model'[l] = Stepped(m)
  BY <1>4 DEF At
<1> HIDE DEF m
<1>8. /\ model'[l].weights = At(l, 1) /\ model'[l].optimizer = At(l, 1)
      /\ model'[l].batch = named[l].samples /\ model'[l].steps = 1 /\ model'[l].resumed = 0
      /\ model'[l] \in Models
  BY <1>3, <1>6, <1>7, SteppedModel
<1>9. Trainer(l)'
  BY <1>1, <1>8 DEF Trainer, SteppedOnce, At
<1> QED
  BY <1>1, <1>5, <1>8, <1>9, QuietStage DEF TrainStep, Stages

LEMMA SaveModelStep ==
  ASSUME TrainingInv, NEW l \in Launches, SaveModel(l)
  PROVE  TrainingInv'
<1>1. step[l] \in Stages
  BY DEF SaveModel, Stage, Stages
<1>2. /\ Trainer(l) /\ SharedTypes /\ status[l] = "none" /\ Authorized(l)
      /\ step \in [Launches -> Steps] /\ model = [model EXCEPT ![l] = model[l]]
      /\ answer = [answer EXCEPT ![l] = answer[l]] /\ status = [status EXCEPT ![l] = status[l]]
      /\ model[l] \in Models /\ answer[l] \in Answers /\ status[l] \in Statuses
  BY <1>1, InStage
<1>3. /\ step[l] = "save_checkpoint" /\ step'[l] = "save_optimizer"
      /\ step' = [step EXCEPT ![l] = step'[l]]
      /\ UNCHANGED <<input, touches, named, model, answer, status, report, box, executed>>
  BY <1>2 DEF SaveModel, Stage, Goto, After, podmanVars
<1>4. ~checkpoint.made /\ checkpoint' = [checkpoint EXCEPT !.made = TRUE, !.model = model[l].weights]
  BY DEF SaveModel
<1>5. SteppedOnce(l) /\ model[l].batch = named[l].samples
  BY <1>2, <1>3 DEF Trainer
<1>6. checkpoint'.made /\ checkpoint'.model = At(l, 1) /\ checkpoint'.optimizer = checkpoint.optimizer
      /\ checkpoint' \in [made : BOOLEAN, model : Weights, optimizer : Weights]
  BY <1>2, <1>4, <1>5 DEF SharedTypes, SteppedOnce, Models
<1>7. StageMoves(l)
  BY <1>2, <1>3 DEF StageMoves, Stages
<1>8. CheckpointKept(l) /\ SharedTypes'
  BY <1>2, <1>3, <1>4, <1>6 DEF CheckpointKept, SharedTypes
<1>9. Trainer(l)'
  BY <1>3, <1>5, <1>6 DEF Trainer, SteppedOnce, At
<1>10. StatusEarned(l)'
  BY <1>2, <1>3 DEF StatusEarned, Authorized, Stages
<1> QED
  BY <1>2, <1>3, <1>7, <1>8, <1>9, <1>10, StageJoins

\* Only one launch is past the making of the directory, for the model in it is one launch's.
LEMMA SaveOptimizerStep ==
  ASSUME TrainingInv, NEW l \in Launches, SaveOptimizer(l)
  PROVE  TrainingInv'
<1>1. step[l] \in Stages
  BY DEF SaveOptimizer, Stage, Stages
<1>2. /\ Trainer(l) /\ SharedTypes /\ status[l] = "none" /\ Authorized(l)
      /\ step \in [Launches -> Steps] /\ model = [model EXCEPT ![l] = model[l]]
      /\ answer = [answer EXCEPT ![l] = answer[l]] /\ status = [status EXCEPT ![l] = status[l]]
      /\ model[l] \in Models /\ answer[l] \in Answers /\ status[l] \in Statuses
  BY <1>1, InStage
<1>3. /\ step[l] = "save_optimizer" /\ step'[l] = "reload_checkpoint"
      /\ step' = [step EXCEPT ![l] = step'[l]]
      /\ UNCHANGED <<input, touches, named, model, answer, status, report, box, executed>>
  BY <1>2 DEF SaveOptimizer, Stage, Goto, After, podmanVars
<1>4. checkpoint' = [checkpoint EXCEPT !.optimizer = model[l].optimizer]
  BY DEF SaveOptimizer
<1>5. SteppedOnce(l) /\ model[l].batch = named[l].samples
      /\ checkpoint.made /\ checkpoint.model = At(l, 1)
  BY <1>2, <1>3 DEF Trainer
<1>6. checkpoint'.made /\ checkpoint'.model = checkpoint.model /\ checkpoint'.optimizer = At(l, 1)
      /\ checkpoint' \in [made : BOOLEAN, model : Weights, optimizer : Weights]
  BY <1>2, <1>4, <1>5 DEF SharedTypes, SteppedOnce, Models
<1>7. \A o \in Launches \ {l} : step[o] # "reload_checkpoint"
  <2> SUFFICES ASSUME NEW o \in Launches, o # l, step[o] = "reload_checkpoint" PROVE FALSE
    OBVIOUS
  <2>1. checkpoint.model = At(o, 1)
    BY InvOf DEF Trainer
  <2> QED
    BY <1>5, <2>1 DEF At
<1>8. StageMoves(l)
  BY <1>2, <1>3 DEF StageMoves, Stages
<1>9. CheckpointKept(l) /\ SharedTypes'
  BY <1>2, <1>3, <1>5, <1>6, <1>7 DEF CheckpointKept, SharedTypes
<1>10. Trainer(l)'
  BY <1>3, <1>5, <1>6 DEF Trainer, SteppedOnce, At
<1>11. StatusEarned(l)'
  BY <1>2, <1>3 DEF StatusEarned, Authorized, Stages
<1> QED
  BY <1>2, <1>3, <1>8, <1>9, <1>10, <1>11, StageJoins

LEMMA ReloadStep ==
  ASSUME TrainingInv, NEW l \in Launches, ReloadCheckpoint(l)
  PROVE  TrainingInv'
<1>1. /\ step[l] = "reload_checkpoint" /\ step'[l] = "resume_train_step"
      /\ Stage(l, "reload_checkpoint") /\ UNCHANGED <<named, checkpoint>>
  BY InvOf DEF ReloadCheckpoint, Stage, Goto, After
<1>2. model \in [Launches -> Models] /\ Trainer(l)
  BY InvOf
<1>3. SteppedOnce(l) /\ model[l].batch = named[l].samples
      /\ checkpoint.made /\ checkpoint.model = At(l, 1) /\ checkpoint.optimizer = At(l, 1)
  BY <1>1, <1>2 DEF Trainer
<1>4. model' = [model EXCEPT ![l].weights = At(l, 1), ![l].optimizer = At(l, 1),
                             ![l].reloaded = TRUE]
  BY <1>3 DEF ReloadCheckpoint
<1>5. model'[l] = [model[l] EXCEPT !.weights = At(l, 1), !.optimizer = At(l, 1), !.reloaded = TRUE]
  BY <1>2, <1>4
<1>6. model' = [model EXCEPT ![l] = model'[l]]
  BY <1>2, <1>4
<1>7. At(l, 1) \in Weights
  BY DEF At, Weights
<1>8. model'[l] \in Models /\ model'[l].weights = At(l, 1) /\ model'[l].optimizer = At(l, 1)
      /\ model'[l].reloaded /\ model'[l].steps = 1 /\ model'[l].resumed = 0
      /\ model'[l].batch = named[l].samples
  <2>1. model'[l] \in Models
    BY <1>2, <1>5, <1>7 DEF Models
  <2>2. model'[l].weights = At(l, 1) /\ model'[l].optimizer = At(l, 1) /\ model'[l].reloaded
    BY <1>2, <1>5 DEF Models
  <2>3. /\ model'[l].steps = model[l].steps /\ model'[l].resumed = model[l].resumed
        /\ model'[l].batch = model[l].batch
    BY <1>2, <1>5 DEF Models
  <2> QED
    BY <1>3, <2>1, <2>2, <2>3 DEF SteppedOnce
<1>9. Trainer(l)'
  BY <1>1, <1>3, <1>8 DEF Trainer, SteppedOnce, At
<1> QED
  BY <1>1, <1>6, <1>8, <1>9, QuietStage DEF ReloadCheckpoint, Stages

LEMMA ResumeStep ==
  ASSUME TrainingInv, NEW l \in Launches, ResumeTrainStep(l)
  PROVE  TrainingInv'
<1>1. /\ step[l] = "resume_train_step" /\ step'[l] = "infer"
      /\ Stage(l, "resume_train_step") /\ UNCHANGED <<named, checkpoint>>
  BY InvOf DEF ResumeTrainStep, Stage, Goto, After
<1>2. model \in [Launches -> Models] /\ Trainer(l)
  BY InvOf
<1>3. SteppedOnce(l) /\ model[l].batch = named[l].samples /\ model[l].reloaded
      /\ checkpoint.made /\ checkpoint.model = At(l, 1)
  BY <1>1, <1>2 DEF Trainer
<1> DEFINE m == Stepped(model[l])
<1>4. model' = [model EXCEPT ![l] = [m EXCEPT !.resumed = model[l].resumed + 1]]
  BY DEF ResumeTrainStep
<1> HIDE DEF m
<1>5. model'[l] = [m EXCEPT !.resumed = model[l].resumed + 1]
  BY <1>2, <1>4
<1>6. model' = [model EXCEPT ![l] = model'[l]]
  BY <1>2, <1>4
<1>7. /\ m \in Models /\ m.weights = At(l, 2) /\ m.optimizer = At(l, 2)
      /\ m.steps = 2 /\ m.batch = named[l].samples /\ m.resumed = 0 /\ m.reloaded
  <2>1. /\ model[l] \in Models /\ model[l].weights = At(l, 1) /\ model[l].optimizer = At(l, 1)
        /\ model[l].steps = 1 /\ 1 \in 0 .. 1 /\ 1 + 1 = 2
    BY <1>2, <1>3 DEF SteppedOnce
  <2>2. /\ m \in Models /\ m.weights = At(l, 1 + 1) /\ m.optimizer = At(l, 1 + 1)
        /\ m.steps = 1 + 1 /\ m.batch = model[l].batch
        /\ m.resumed = model[l].resumed /\ m.reloaded = model[l].reloaded
    BY <2>1, SteppedModel DEF m
  <2> QED
    BY <1>3, <2>1, <2>2 DEF SteppedOnce
<1>8. model'[l] \in Models /\ model'[l].weights = At(l, 2) /\ model'[l].optimizer = At(l, 2)
      /\ model'[l].reloaded /\ model'[l].steps = 2 /\ model'[l].resumed = 1
      /\ model'[l].batch = named[l].samples
  BY <1>3, <1>5, <1>7 DEF Models, SteppedOnce
<1>9. Trained(l)'
  BY <1>1, <1>3, <1>8 DEF Trained, ResumeEvidence, At
<1>10. Trainer(l)'
  BY <1>1, <1>3, <1>9 DEF Trainer, At
<1> QED
  BY <1>1, <1>6, <1>8, <1>10, QuietStage DEF ResumeTrainStep, Stages

LEMMA InferStep ==
  ASSUME TrainingInv, NEW l \in Launches, Infer(l)
  PROVE  TrainingInv'
<1>1. step[l] \in Stages
  BY DEF Infer, Stage, Stages
<1>2. /\ Trainer(l) /\ SharedTypes /\ Authorized(l)
      /\ step \in [Launches -> Steps] /\ model = [model EXCEPT ![l] = model[l]]
      /\ answer \in [Launches -> Answers] /\ status \in [Launches -> Statuses]
      /\ model[l] \in Models
  BY <1>1, InStage
<1>3. /\ step[l] = "infer" /\ step'[l] = "boundary"
      /\ step' = [step EXCEPT ![l] = step'[l]]
      /\ UNCHANGED <<input, touches, named, model, checkpoint, report, box, executed>>
  BY <1>2 DEF Infer, Stage, Goto, After, podmanVars
<1>4. /\ answer' = [answer EXCEPT ![l] = answer'[l]] /\ answer'[l] \in Answers
      /\ status' = [status EXCEPT ![l] = status'[l]] /\ status'[l] = "PASS"
  BY <1>2 DEF Infer
<1>5. Trained(l) /\ checkpoint.made
  BY <1>2, <1>3 DEF Trainer
<1>6. StageMoves(l)
  BY <1>2, <1>3, <1>4 DEF StageMoves, Stages
<1>7. CheckpointKept(l) /\ SharedTypes'
  BY <1>2, <1>3 DEF CheckpointKept, SharedTypes
<1>8. Trainer(l)'
  BY <1>3 DEF Trainer
<1>9. Trained(l)'
  BY <1>3, <1>5 DEF Trained
<1>10. StatusEarned(l)'
  BY <1>2, <1>3, <1>4, <1>5, <1>9 DEF StatusEarned, Authorized, Stages
<1> QED
  BY <1>2, <1>3, <1>4, <1>6, <1>7, <1>8, <1>10, StageJoins DEF Statuses

LEMMA FailStep ==
  ASSUME TrainingInv, NEW l \in Launches, StageFails(l)
  PROVE  TrainingInv'
<1>1. step[l] \in Stages
  BY DEF StageFails
<1>2. /\ SharedTypes /\ Authorized(l)
      /\ step \in [Launches -> Steps] /\ model \in [Launches -> Models]
      /\ answer = [answer EXCEPT ![l] = answer[l]] /\ status \in [Launches -> Statuses]
      /\ model = [model EXCEPT ![l] = model[l]] /\ model[l] \in Models /\ answer[l] \in Answers
  BY <1>1, InStage
<1>3. /\ step'[l] = "boundary" /\ step' = [step EXCEPT ![l] = step'[l]]
      /\ status'[l] = "FAIL" /\ status' = [status EXCEPT ![l] = status'[l]]
      /\ UNCHANGED <<input, touches, named, answer, report, box, executed>>
  BY <1>2 DEF StageFails, Goto, podmanVars
<1>4. model' = [model EXCEPT ![l] = model'[l]] /\ model'[l] \in Models
  <2>1. CASE model' = model
    BY <1>2, <2>1
  <2>2. CASE model' = [model EXCEPT ![l].weights = NoWeights, ![l].optimizer = NoWeights]
    <3>1. NoWeights \in Weights
      BY DEF NoWeights, Weights
    <3>2. model'[l] = [model[l] EXCEPT !.weights = NoWeights, !.optimizer = NoWeights]
      BY <1>2, <2>2
    <3>3. model'[l] \in Models
      BY <1>2, <3>1, <3>2 DEF Models
    <3> QED
      BY <1>2, <2>2, <3>3
  <2> QED
    BY <2>1, <2>2 DEF StageFails
<1>5. checkpoint' = checkpoint \/ checkpoint' = [checkpoint EXCEPT !.made = TRUE]
  BY DEF StageFails
<1>6. /\ checkpoint'.model = checkpoint.model /\ checkpoint'.optimizer = checkpoint.optimizer
      /\ checkpoint.made => checkpoint'.made
      /\ checkpoint' \in [made : BOOLEAN, model : Weights, optimizer : Weights]
      /\ ~checkpoint'.made => checkpoint' = NoCheckpoint
  BY <1>2, <1>5 DEF SharedTypes
<1>7. StageMoves(l)
  BY <1>1, <1>2, <1>3, <1>4 DEF StageMoves
<1>8. CheckpointKept(l) /\ SharedTypes'
  BY <1>2, <1>3, <1>6 DEF CheckpointKept, SharedTypes
<1>9. Trainer(l)' /\ StatusEarned(l)'
  BY <1>2, <1>3 DEF Trainer, StatusEarned, Authorized, Stages
<1>10. status'[l] \in Statuses
  BY <1>3 DEF Statuses
<1> QED
  BY <1>2, <1>3, <1>4, <1>7, <1>8, <1>9, <1>10, StageJoins

LEMMA RunStageStep ==
  ASSUME TrainingInv, NEW l \in Launches, RunStage(l)
  PROVE  TrainingInv'
BY LoadStep, TokenizeStep, TrainStepStep, SaveModelStep, SaveOptimizerStep, ReloadStep,
   ResumeStep, InferStep, FailStep DEF RunStage

-----------------------------------------------------------------------------
(* The boundary, and the fixture's tests *)

Judges(l) == CompletionBoundary(l) \/ EvaluateFixture(l) \/ ApplyModelPatch(l) \/ ConcludeFixture(l)

JudgeMoves(l) ==
    /\ step[l] \in {"boundary", "evaluate", "baseline", "final"}
    /\ step'[l] \in {"evaluate", "baseline", "final", "publish", "refused"}
    /\ step' = [step EXCEPT ![l] = step'[l]]
    /\ status' = [status EXCEPT ![l] = status'[l]] /\ status'[l] \in Statuses
    /\ \A o \in Launches \ {l} : box'[o] = box[o]
    /\ UNCHANGED <<input, touches, named, model, answer, checkpoint, report, executed>>

LEMMA JudgeJoins ==
  ASSUME TrainingInv, NEW l \in Launches, JudgeMoves(l), StatusEarned(l)', TestsShown(l)'
  PROVE  TrainingInv'
<1>1. /\ TypesOf(l) /\ SharedTypes
      /\ step \in [Launches -> Steps] /\ named \in [Launches -> NamedVersions]
      /\ model \in [Launches -> Models] /\ answer \in [Launches -> Answers]
      /\ status \in [Launches -> Statuses]
  BY InvOf
<1>2. Moves(l)
  BY <1>1 DEF JudgeMoves, Moves
<1>3. ReportOfOne'
  BY <1>2, ReportKept DEF JudgeMoves
<1>4. TypesOf(l)'
  BY <1>1 DEF JudgeMoves, TypesOf, Steps
<1>5. Trainer(l)'
  BY DEF JudgeMoves, Trainer
<1>6. CheckpointKept(l) /\ SharedTypes'
  BY <1>1 DEF JudgeMoves, CheckpointKept, SharedTypes
<1> QED
  BY <1>2, <1>3, <1>4, <1>5, <1>6, StepJoins DEF LaunchInv

LEMMA CompletionStep ==
  ASSUME BoxesInv, TrainingInv, NEW l \in Launches, CompletionBoundary(l)
  PROVE  BoxesInv' /\ TrainingInv'
<1>1. /\ step \in [Launches -> Steps] /\ status \in [Launches -> Statuses]
      /\ StatusEarned(l) /\ TestsShown(l)
  BY InvOf
<1>2. /\ step[l] = "boundary"
      /\ UNCHANGED <<input, touches, named, model, answer, checkpoint, report>>
      /\ UNCHANGED <<box, imageHeld, executed>>
  BY DEF CompletionBoundary, podmanVars
<1>3. /\ step' = [step EXCEPT ![l] = step'[l]] /\ status' = [status EXCEPT ![l] = status'[l]]
      /\ \/ step'[l] = "refused" /\ status'[l] = status[l]
         \/ step'[l] = "evaluate" /\ status'[l] = "PASS" /\ status[l] = "PASS"
         \/ step'[l] = "publish" /\ status'[l] = "FAIL"
  BY <1>1 DEF CompletionBoundary, Goto, RefuseLaunch, ReportAs
<1>4. JudgeMoves(l)
  BY <1>1, <1>2, <1>3 DEF JudgeMoves, Statuses
<1>5. Trained(l)' = Trained(l) /\ Authorized(l)' = Authorized(l)
  BY <1>2 DEF Trained, Authorized
<1>6. StatusEarned(l)'
  BY <1>1, <1>2, <1>3, <1>5 DEF StatusEarned, Steps, Stages
<1>7. TestsShown(l)'
  BY <1>1, <1>2, <1>3 DEF TestsShown
<1>8. BoxesInv'
  BY <1>2 DEF BoxesInv, BoxRight
<1> QED
  BY <1>4, <1>6, <1>7, <1>8, JudgeJoins

LEMMA EvaluateStep ==
  ASSUME BoxesInv, TrainingInv, NEW l \in Launches, EvaluateFixture(l)
  PROVE  BoxesInv' /\ TrainingInv'
<1>1. /\ step \in [Launches -> Steps] /\ status \in [Launches -> Statuses]
      /\ StatusEarned(l) /\ TestsShown(l)
  BY InvOf
<1>2. /\ step[l] = "evaluate"
      /\ UNCHANGED <<input, touches, named, model, answer, checkpoint, report, imageHeld, executed>>
  BY DEF EvaluateFixture
<1>3. /\ step' = [step EXCEPT ![l] = step'[l]] /\ status' = [status EXCEPT ![l] = status'[l]]
      /\ \/ step'[l] = "refused" /\ status'[l] = status[l] /\ box' = box
         \/ step'[l] = "publish" /\ status'[l] = "FAIL" /\ box' = box
         \/ step'[l] = "baseline" /\ status'[l] = status[l] /\ box' = Called(l, TRUE)
  BY <1>1 DEF EvaluateFixture, Goto, RefuseLaunch, ReportAs
<1>4. /\ BoxesInv' /\ \A o \in Launches \ {l} : box'[o] = box[o]
      /\ \/ box' = box /\ step'[l] \in {"refused", "publish"}
         \/ step'[l] = "baseline" /\ CallOf(l)
  <2>1. CASE box' = box /\ step'[l] \in {"refused", "publish"}
    BY <1>2, <2>1 DEF BoxesInv, BoxRight
  <2>2. CASE step'[l] = "baseline" /\ box' = Called(l, TRUE)
    BY <1>2, <2>2, CallStep DEF CallOf
  <2> QED
    BY <1>3, <2>1, <2>2
<1>5. JudgeMoves(l)
  BY <1>1, <1>2, <1>3, <1>4 DEF JudgeMoves, Statuses
<1>6. Trained(l)' = Trained(l) /\ Authorized(l)' = Authorized(l)
  BY <1>2 DEF Trained, Authorized
<1>7. StatusEarned(l)'
  BY <1>1, <1>2, <1>3, <1>6 DEF StatusEarned, Steps, Stages
<1>8. TestsShown(l)'
  BY <1>1, <1>2, <1>3, <1>4 DEF TestsShown, CallOf
<1> QED
  BY <1>4, <1>5, <1>7, <1>8, JudgeJoins

LEMMA ApplyStep ==
  ASSUME BoxesInv, TrainingInv, NEW l \in Launches, ApplyModelPatch(l)
  PROVE  BoxesInv' /\ TrainingInv'
<1>1. /\ step \in [Launches -> Steps] /\ status \in [Launches -> Statuses]
      /\ StatusEarned(l) /\ TestsShown(l)
  BY InvOf
<1>2. /\ step[l] = "baseline" /\ box[l].phase \in {"unavailable", "returned"}
      /\ UNCHANGED <<input, touches, named, model, answer, checkpoint, report, imageHeld, executed>>
  BY DEF ApplyModelPatch
<1>3. /\ step' = [step EXCEPT ![l] = step'[l]] /\ status' = [status EXCEPT ![l] = status'[l]]
      /\ \/ step'[l] = "publish" /\ status'[l] = "BLOCKED" /\ box' = box
            /\ box[l].phase = "unavailable"
         \/ step'[l] = "publish" /\ status'[l] = "FAIL" /\ box' = box
         \/ step'[l] = "final" /\ status'[l] = status[l] /\ box' = Called(l, FALSE)
            /\ box[l].outcome = "TEST_FAILURE" /\ box[l].counted
  BY <1>1, <1>2 DEF ApplyModelPatch, Goto, ReportAs
<1>4. /\ BoxesInv' /\ \A o \in Launches \ {l} : box'[o] = box[o]
      /\ \/ box' = box /\ step'[l] = "publish"
         \/ step'[l] = "final" /\ CallOf(l)
  <2>1. CASE box' = box /\ step'[l] = "publish"
    BY <1>2, <2>1 DEF BoxesInv, BoxRight
  <2>2. CASE step'[l] = "final" /\ box' = Called(l, FALSE)
    BY <1>2, <2>2, CallStep DEF CallOf
  <2> QED
    BY <1>3, <2>1, <2>2
<1>5. JudgeMoves(l)
  BY <1>1, <1>2, <1>3, <1>4 DEF JudgeMoves, Statuses
<1>6. Trained(l)' = Trained(l) /\ Authorized(l)' = Authorized(l)
  BY <1>2 DEF Trained, Authorized
<1>7. StatusEarned(l)'
  BY <1>1, <1>2, <1>3, <1>6 DEF StatusEarned, Steps, Stages
<1>8. box[l].phase = "unavailable" => box[l].container = "none"
  BY DEF BoxesInv, BoxRight
<1>9. TestsShown(l)'
  <2>1. CASE step'[l] = "publish"
    BY <1>1, <1>2, <1>3, <1>4, <1>8, <2>1 DEF TestsShown
  <2>2. CASE step'[l] = "final"
    BY <1>1, <1>2, <1>3, <1>4, <2>2 DEF TestsShown, CallOf
  <2> QED
    BY <1>3, <2>1, <2>2
<1> QED
  BY <1>4, <1>5, <1>7, <1>9, JudgeJoins

LEMMA ConcludeStep ==
  ASSUME BoxesInv, TrainingInv, NEW l \in Launches, ConcludeFixture(l)
  PROVE  BoxesInv' /\ TrainingInv'
<1>1. /\ step \in [Launches -> Steps] /\ status \in [Launches -> Statuses]
      /\ StatusEarned(l) /\ TestsShown(l)
  BY InvOf
<1>2. /\ step[l] = "final" /\ box[l].phase \in {"unavailable", "returned"}
      /\ UNCHANGED <<input, touches, named, model, answer, checkpoint, report>>
      /\ UNCHANGED <<box, imageHeld, executed>>
  BY DEF ConcludeFixture, podmanVars
<1>3. /\ step' = [step EXCEPT ![l] = step'[l]] /\ step'[l] = "publish"
      /\ status' = [status EXCEPT ![l] = status'[l]]
      /\ \/ status'[l] = "BLOCKED" /\ box[l].phase = "unavailable"
         \/ status'[l] = "PASS" /\ box[l].phase = "returned" /\ box[l].outcome = "SUCCESS"
         \/ status'[l] = "FAIL"
  BY <1>1, <1>2 DEF ConcludeFixture, Goto, ReportAs
<1>4. JudgeMoves(l)
  BY <1>1, <1>2, <1>3 DEF JudgeMoves, Statuses
<1>5. Trained(l)' = Trained(l) /\ Authorized(l)' = Authorized(l)
  BY <1>2 DEF Trained, Authorized
<1>6. StatusEarned(l)'
  BY <1>1, <1>2, <1>3, <1>5 DEF StatusEarned, Steps, Stages
<1>7. status'[l] # "FAIL" => box[l].container = "none"
  BY <1>3 DEF BoxesInv, BoxRight
<1>8. TestsShown(l)'
  BY <1>1, <1>2, <1>3, <1>7 DEF TestsShown
<1>9. BoxesInv'
  BY <1>2 DEF BoxesInv, BoxRight
<1> QED
  BY <1>4, <1>6, <1>8, <1>9, JudgeJoins

LEMMA PublishStep ==
  ASSUME BoxesInv, TrainingInv, NEW l \in Launches, PublishReport(l)
  PROVE  BoxesInv' /\ TrainingInv'
<1>1. /\ step \in [Launches -> Steps] /\ named \in [Launches -> NamedVersions]
      /\ model \in [Launches -> Models] /\ answer \in [Launches -> Answers]
      /\ status \in [Launches -> Statuses]
      /\ TypesOf(l) /\ SharedTypes /\ StatusEarned(l) /\ TestsShown(l)
  BY InvOf
<1>2. /\ step[l] = "publish"
      /\ UNCHANGED <<input, touches, named, model, answer, status, checkpoint>>
      /\ UNCHANGED <<box, imageHeld, executed>>
  BY DEF PublishReport, podmanVars
<1>3. /\ step' = [step EXCEPT ![l] = step'[l]]
      /\ \/ step'[l] = "refused" /\ report' = report
         \/ step'[l] = "reported" /\ report' = [by |-> l, status |-> status[l], named |-> named[l]]
  BY <1>1 DEF PublishReport, Goto, RefuseLaunch
<1>4. Moves(l)
  BY <1>1, <1>2, <1>3 DEF Moves
<1>5. ReportOfOne'
  <2>1. CASE report' = report
    BY <1>2, <1>4, <2>1, ReportKept
  <2>2. CASE step'[l] = "reported" /\ report' = [by |-> l, status |-> status[l], named |-> named[l]]
    BY <1>2, <2>2 DEF ReportOfOne
  <2> QED
    BY <1>3, <2>1, <2>2
<1>6. CheckpointKept(l) /\ SharedTypes'
  BY <1>1, <1>2 DEF CheckpointKept, SharedTypes
<1>7. TypesOf(l)' /\ Trainer(l)'
  BY <1>1, <1>2, <1>3 DEF TypesOf, Trainer, Steps
<1>8. Trained(l)' = Trained(l) /\ Authorized(l)' = Authorized(l)
  BY <1>2 DEF Trained, Authorized
<1>9. StatusEarned(l)'
  BY <1>1, <1>2, <1>3, <1>8 DEF StatusEarned, Steps, Stages
<1>10. TestsShown(l)'
  BY <1>1, <1>2, <1>3 DEF TestsShown
<1>11. BoxesInv'
  BY <1>2 DEF BoxesInv, BoxRight
<1> QED
  BY <1>4, <1>5, <1>6, <1>7, <1>9, <1>10, <1>11, StepJoins DEF LaunchInv

LEMMA FixtureTestsStep ==
  ASSUME BoxesInv, TrainingInv, NEW l \in Launches, RunFixtureTests(l)
  PROVE  BoxesInv' /\ TrainingInv'
<1>1. /\ step \in [Launches -> Steps] /\ named \in [Launches -> NamedVersions]
      /\ model \in [Launches -> Models] /\ answer \in [Launches -> Answers]
      /\ status \in [Launches -> Statuses]
      /\ TypesOf(l) /\ Trainer(l) /\ SharedTypes /\ StatusEarned(l) /\ TestsShown(l)
  BY InvOf
<1>2. UNCHANGED <<input, touches, step, named, model, answer, status, checkpoint, report>>
  BY DEF RunFixtureTests, trainingVars
<1>3. /\ BoxesInv' /\ BoxStep(l) /\ \A o \in Launches \ {l} : executed'[o] = executed[o]
      /\ \/ Disbelieved(l)
         \/ step[l] = "baseline" /\ Ran(l, "fixture", FALSE)
         \/ step[l] = "final" /\ Ran(l, "repaired", TRUE)
  <2>1. CASE PodmanStep(l)
    BY <2>1, PodmanStepEffect DEF Disbelieved
  <2>2. CASE step[l] = "baseline" /\ TestsEnd(l, "fixture", FALSE)
    BY <2>2, TestsEndEffect DEF Ran
  <2>3. CASE step[l] = "final" /\ TestsEnd(l, "repaired", TRUE)
    BY <2>3, TestsEndEffect DEF Ran
  <2> QED
    BY <2>1, <2>2, <2>3 DEF RunFixtureTests
<1>4. step[l] \in {"baseline", "final"}
  BY <1>1, <1>3 DEF TestsShown, BoxStep
<1>5. Moves(l)
  BY <1>1, <1>2, <1>3 DEF Moves, BoxStep
<1>6. ReportOfOne'
  BY <1>2, <1>5, ReportKept
<1>7. CheckpointKept(l) /\ SharedTypes'
  BY <1>1, <1>2 DEF CheckpointKept, SharedTypes
<1>8. TypesOf(l)' /\ Trainer(l)'
  BY <1>1, <1>2, <1>4 DEF TypesOf, Trainer
<1>9. Trained(l)' = Trained(l) /\ Authorized(l)' = Authorized(l)
  BY <1>2 DEF Trained, Authorized
<1>10. StatusEarned(l)'
  BY <1>1, <1>2, <1>9 DEF StatusEarned
<1>11. TestsShown(l)'
  <2>1. CASE Disbelieved(l)
    BY <1>1, <1>2, <1>4, <2>1 DEF TestsShown, Disbelieved, Believed
  <2>2. CASE step[l] = "baseline" /\ Ran(l, "fixture", FALSE)
    <3>1. Baseline \in executed'[l]
      BY <2>2 DEF Ran, Baseline
    <3> QED
      BY <1>2, <2>2, <3>1 DEF TestsShown
  <2>3. CASE step[l] = "final" /\ Ran(l, "repaired", TRUE)
    <3>1. Repaired \in executed'[l] /\ executed[l] \subseteq executed'[l]
      BY <2>3 DEF Ran, Repaired
    <3> QED
      BY <1>1, <1>2, <2>3, <3>1 DEF TestsShown
  <2> QED
    BY <1>3, <2>1, <2>2, <2>3
<1> QED
  BY <1>3, <1>5, <1>6, <1>7, <1>8, <1>10, <1>11, StepJoins DEF LaunchInv

\* What happens beside the launches, and to the image
LEMMA BesidesStep ==
  ASSUME BoxesInv, TrainingInv, TouchInput \/ (PruneHeldImage /\ UNCHANGED trainingVars)
  PROVE  BoxesInv' /\ TrainingInv'
<1>1. UNCHANGED <<step, named, model, answer, status, checkpoint, report, box, executed>>
  BY DEF TouchInput, PruneHeldImage, trainingVars, podmanVars
<1>2. BoxesInv'
  BY <1>1, PruneEffect DEF TouchInput, podmanVars, BoxesInv, BoxRight
<1>3. SharedTypes'
  <2>1. input \in [Inputs -> Versions] /\ touches \in 0 .. MaxTouches /\ MaxTouches \in Nat
    BY TrainingAssumption DEF TrainingInv, SharedTypes
  <2>2. CASE TouchInput
    <3>1. input' \in [Inputs -> Versions]
      BY <2>1, <2>2 DEF TouchInput
    <3>2. touches' \in 0 .. MaxTouches
      BY <2>1, <2>2 DEF TouchInput
    <3> QED
      BY <1>1, <3>1, <3>2 DEF TrainingInv, SharedTypes
  <2>3. CASE UNCHANGED trainingVars
    BY <2>3 DEF TrainingInv, SharedTypes, trainingVars
  <2> QED
    BY <2>2, <2>3
<1>4. ASSUME NEW l \in Launches PROVE LaunchInv(l)'
  BY <1>1 DEF TrainingInv, LaunchInv, TypesOf, Trainer, StatusEarned, TestsShown, Fresh,
              SteppedOnce, Trained, Authorized
<1>5. Shape' /\ ReportOfOne'
  BY <1>1 DEF TrainingInv, Shape, ReportOfOne
<1> QED
  BY <1>2, <1>3, <1>4, <1>5 DEF TrainingInv

LEMMA TrainingStep ==
  ASSUME BoxesInv, TrainingInv, TrainingNext
  PROVE  BoxesInv' /\ TrainingInv'
<1>1. ASSUME NEW l \in Launches, Prepares(l) \/ RunStage(l) PROVE BoxesInv' /\ TrainingInv'
  <2>1. UNCHANGED <<box, imageHeld, executed>>
    BY <1>1 DEF Prepares, ReadConfig, IdentifyInputs, StageTraining, RunStage, Load, Tokenize,
       TrainStep, SaveModel, SaveOptimizer, ReloadCheckpoint, ResumeTrainStep, Infer,
       StageFails, Stage, podmanVars
  <2>2. BoxesInv'
    BY <2>1 DEF BoxesInv, BoxRight
  <2> QED
    BY <1>1, <2>2, PrepareStep, RunStageStep
<1> QED
  BY <1>1, CompletionStep, EvaluateStep, FixtureTestsStep, ApplyStep, ConcludeStep, PublishStep,
     BesidesStep DEF TrainingNext, Prepares

LEMMA ReportFollows ==
  ASSUME TrainingInv
  PROVE  ReportTellsTruth
<1> SUFFICES ASSUME report # NoReport PROVE ReportTellsTruth
  BY DEF ReportTellsTruth
<1>1. PICK l \in Launches :
            /\ report = [by |-> l, status |-> status[l], named |-> named[l]]
            /\ step[l] = "reported"
  BY DEF TrainingInv, ReportOfOne
<1>2. StatusEarned(l) /\ TestsShown(l)
  BY InvOf
<1>3. report.by = l /\ report.status = status[l] /\ report.named = named[l]
  BY <1>1
<1>4. Authorized(l)
  BY <1>1, <1>2 DEF StatusEarned, Steps
<1>5. status[l] = "PASS" => Trained(l) /\ {Baseline, Repaired} \subseteq executed[l]
  BY <1>1, <1>2 DEF StatusEarned, TestsShown
<1>6. status[l] # "FAIL" => box[l].container = "none"
  BY <1>1, <1>2 DEF TestsShown
<1> QED
  BY <1>3, <1>4, <1>5, <1>6 DEF ReportTellsTruth, Trained, Authorized, Baseline, Repaired, At

-----------------------------------------------------------------------------
(* The rollouts of the teacher *)

LEMMA TeacherIsOne == Teacher \in Launches
BY TeacherAssumption DEF Teacher

LEMMA TeacherInitially == TeacherInit => TeacherInv
BY TeacherAssumption DEF TeacherInit, TeacherInv, RolloutTypes, CloneOfAttempt, RecordsEarned,
   ArtifactWhole

\* One more record, which is no stronger than what the tests of its own attempt have shown
LEMMA Recorded ==
  ASSUME TeacherInv, NEW r \in Records, rolloutPhase # "written", Len(rollouts) < seeds,
         rollouts' = Append(rollouts, r), rolloutPhase' = "solving", workspace' = "none",
         UNCHANGED <<seeds, withRunner, rolloutArtifact, executed>>,
         withRunner /\ r.status = "UNVERIFIED" => Shown(Len(rollouts) + 1),
         ~withRunner => r.tests = "none"
  PROVE  TeacherInv'
<1>1. /\ rollouts \in Seq(Records) /\ Len(rollouts) \in Nat /\ seeds \in Nat
      /\ DOMAIN rollouts = 1 .. Len(rollouts)
  <2>1. rollouts \in Seq(Records) /\ seeds \in 1 .. MaxSeeds
    BY DEF TeacherInv, RolloutTypes
  <2>2. seeds \in Nat
    BY <2>1, TeacherAssumption
  <2> QED
    BY <2>1, <2>2
<1>2. /\ rollouts' \in Seq(Records) /\ Len(rollouts') = Len(rollouts) + 1
      /\ DOMAIN rollouts' = 1 .. (Len(rollouts) + 1)
      /\ \A n \in 1 .. Len(rollouts) : rollouts'[n] = rollouts[n]
      /\ rollouts'[Len(rollouts) + 1] = r
  <2>1. rollouts' \in Seq(Records) /\ Len(rollouts') = Len(rollouts) + 1
    BY <1>1
  <2>2. DOMAIN rollouts' = 1 .. (Len(rollouts) + 1)
    BY <2>1
  <2> QED
    BY <1>1, <2>1, <2>2
<1>3. RolloutTypes'
  <2>1. Len(rollouts') \in 0 .. seeds'
    BY <1>1, <1>2
  <2> QED
    BY <1>2, <2>1 DEF TeacherInv, RolloutTypes
<1>4. CloneOfAttempt'
  BY DEF CloneOfAttempt
<1>5. RecordsEarned'
  <2>0. \A n : Shown(n)' <=> Shown(n)
    BY DEF Shown
  <2> SUFFICES ASSUME NEW n \in 1 .. (Len(rollouts) + 1)
               PROVE  /\ withRunner /\ rollouts'[n].status = "UNVERIFIED" => Shown(n)
                      /\ ~withRunner => rollouts'[n].tests = "none"
    BY <1>2, <2>0 DEF RecordsEarned
  <2>1. CASE n = Len(rollouts) + 1
    BY <1>2, <2>1
  <2>2. CASE n \in 1 .. Len(rollouts)
    BY <1>1, <1>2, <2>2 DEF TeacherInv, RecordsEarned
  <2>3. n = Len(rollouts) + 1 \/ n \in 1 .. Len(rollouts)
    BY <1>1
  <2> QED
    BY <2>1, <2>2, <2>3
<1>6. ArtifactWhole'
  BY DEF TeacherInv, ArtifactWhole
<1> QED
  BY <1>3, <1>4, <1>5, <1>6 DEF TeacherInv

\* A step that records nothing
LEMMA NothingRecorded ==
  ASSUME TeacherInv, rolloutPhase # "written", UNCHANGED <<seeds, withRunner, rollouts, rolloutArtifact>>,
         rolloutPhase' \in {"restoring", "testing", "raised"},
         workspace' \in {"none", "base", "patched base"},
         CloneOfAttempt', executed[Teacher] \subseteq executed'[Teacher]
  PROVE  TeacherInv'
<1>1. RolloutTypes'
  BY DEF TeacherInv, RolloutTypes
<1>2. RecordsEarned'
  BY DEF TeacherInv, RecordsEarned, Shown
<1>3. ArtifactWhole'
  BY DEF TeacherInv, ArtifactWhole
<1> QED
  BY <1>1, <1>2, <1>3 DEF TeacherInv

LEMMA FailureRecorded ==
  ASSUME TeacherInv, rolloutPhase # "written", Len(rollouts) < seeds, Record("FAIL", "none"),
         UNCHANGED <<seeds, withRunner, rolloutArtifact, executed>>
  PROVE  TeacherInv'
<1> DEFINE r == [status |-> "FAIL", tests |-> "none"]
<1>1. r \in Records /\ r.status = "FAIL" /\ r.tests = "none"
  BY DEF Records
<1>2. rollouts' = Append(rollouts, r) /\ rolloutPhase' = "solving" /\ workspace' = "none"
  BY DEF Record
<1> HIDE DEF r
<1> QED
  BY <1>1, <1>2, Recorded

LEMMA SolveStep ==
  ASSUME TeacherInv, Solve
  PROVE  TeacherInv'
<1>1. /\ rolloutPhase = "solving" /\ Len(rollouts) < seeds /\ withRunner \in BOOLEAN
      /\ UNCHANGED <<seeds, withRunner, rolloutArtifact, box, imageHeld, executed>>
  BY DEF TeacherInv, RolloutTypes, Solve, podmanVars
<1>2. workspace = "none"
  BY <1>1 DEF TeacherInv, CloneOfAttempt
<1>3. PICK own \in {"PASS", "UNVERIFIED", "FAIL"}, generated \in BOOLEAN, textPatch \in BOOLEAN,
           claims \in BOOLEAN :
        /\ own = "PASS" => generated /\ claims
        /\ IF ~withRunner
           THEN IF claims
                THEN rolloutPhase' = "raised" /\ UNCHANGED <<workspace, rollouts>>
                ELSE Record(own, "none")
           ELSE IF generated /\ textPatch
           THEN rolloutPhase' = "restoring" /\ UNCHANGED <<workspace, rollouts>>
           ELSE Record("FAIL", "none")
  BY DEF Solve
<1>4. CASE rolloutPhase' \in {"raised", "restoring"} /\ UNCHANGED <<workspace, rollouts>>
           /\ (rolloutPhase' = "restoring" => withRunner)
  <2>1. CloneOfAttempt'
    BY <1>1, <1>2, <1>4 DEF CloneOfAttempt
  <2> QED
    BY <1>1, <1>2, <1>4, <2>1, NothingRecorded
<1>5. CASE ~withRunner /\ own \in {"UNVERIFIED", "FAIL"} /\ Record(own, "none")
  <2> DEFINE r == [status |-> own, tests |-> "none"]
  <2>1. r \in Records /\ r.tests = "none"
    BY <1>5 DEF Records
  <2>2. rollouts' = Append(rollouts, r) /\ rolloutPhase' = "solving" /\ workspace' = "none"
    BY <1>5 DEF Record
  <2> HIDE DEF r
  <2> QED
    BY <1>1, <1>5, <2>1, <2>2, Recorded
<1>6. CASE Record("FAIL", "none")
  BY <1>1, <1>6, FailureRecorded
<1> QED
  BY <1>1, <1>3, <1>4, <1>5, <1>6

LEMMA RestoreStep ==
  ASSUME TeacherInv, RestoreBase
  PROVE  TeacherInv'
<1>1. /\ rolloutPhase = "restoring"
      /\ UNCHANGED <<seeds, withRunner, rolloutArtifact, box, imageHeld, executed>>
  BY DEF RestoreBase, podmanVars
<1>2. withRunner /\ Len(rollouts) < seeds
  BY <1>1 DEF TeacherInv, CloneOfAttempt
<1>3. CASE workspace' = "base" /\ UNCHANGED <<rollouts, rolloutPhase>>
  <2>1. CloneOfAttempt'
    BY <1>1, <1>2, <1>3 DEF CloneOfAttempt
  <2> QED
    BY <1>1, <1>3, <2>1, NothingRecorded
<1>4. CASE Record("FAIL", "none")
  BY <1>1, <1>2, <1>4, FailureRecorded
<1> QED
  BY <1>3, <1>4 DEF RestoreBase

LEMMA TeacherPatchStep ==
  ASSUME BoxesInv, TeacherInv, ApplyTeacherPatch
  PROVE  BoxesInv' /\ TeacherInv'
<1>1. /\ rolloutPhase = "restoring" /\ workspace # "none"
      /\ UNCHANGED <<seeds, withRunner, rolloutArtifact, imageHeld, executed>>
  BY DEF ApplyTeacherPatch
<1>2. withRunner /\ Len(rollouts) < seeds /\ workspace = "base"
  BY <1>1 DEF TeacherInv, CloneOfAttempt
<1>3. CASE /\ workspace' = "patched base" /\ rolloutPhase' = "testing"
           /\ box' = Called(Teacher, TRUE) /\ UNCHANGED rollouts
  <2>1. BoxesInv' /\ CallOf(Teacher)
    BY <1>1, <1>3, CallStep, TeacherIsOne
  <2>2. CloneOfAttempt'
    BY <1>1, <1>2, <1>3, <2>1 DEF CloneOfAttempt, CallOf
  <2> QED
    BY <1>1, <1>3, <2>1, <2>2, NothingRecorded
<1>4. CASE Record("FAIL", "none") /\ UNCHANGED box
  BY <1>1, <1>2, <1>4, FailureRecorded DEF BoxesInv, BoxRight
<1> QED
  BY <1>2, <1>3, <1>4 DEF ApplyTeacherPatch

LEMMA RepositoryTestsStep ==
  ASSUME BoxesInv, TeacherInv, RunRepositoryTests
  PROVE  BoxesInv' /\ TeacherInv'
<1>1. /\ rolloutPhase = "testing"
      /\ UNCHANGED <<rolloutPhase, seeds, withRunner, workspace, rollouts, rolloutArtifact>>
  BY DEF RunRepositoryTests, rolloutVars
<1>2. /\ withRunner /\ Len(rollouts) < seeds /\ workspace = "patched base"
      /\ box[Teacher].outcome = "SUCCESS" => Shown(Len(rollouts) + 1)
  BY <1>1 DEF TeacherInv, CloneOfAttempt
<1>3. /\ BoxesInv' /\ executed[Teacher] \subseteq executed'[Teacher]
      /\ box'[Teacher].outcome = "SUCCESS" => Shown(Len(rollouts) + 1)'
  <2>1. CASE PodmanStep(Teacher)
    <3>1. BoxesInv' /\ Disbelieved(Teacher)
      BY <2>1, PodmanStepEffect, TeacherIsOne
    <3>2. executed' = executed /\ (box'[Teacher].outcome = "SUCCESS" => box[Teacher].outcome = "SUCCESS")
      BY <3>1 DEF Disbelieved, Believed
    <3>3. Shown(Len(rollouts) + 1)' = Shown(Len(rollouts) + 1)
      BY <1>1, <3>2 DEF Shown
    <3> QED
      BY <1>2, <3>1, <3>2, <3>3
  <2>2. ASSUME NEW passed \in BOOLEAN, TestsEnd(Teacher, Attempt(workspace), passed)
        PROVE  <1>3!1
    BY <2>2, TestsEndEffect, TeacherIsOne DEF Ran
  <2>3. ASSUME NEW passed \in BOOLEAN, TestsEnd(Teacher, Attempt(workspace), passed)
        PROVE  box'[Teacher].outcome = "SUCCESS" => Shown(Len(rollouts) + 1)'
    BY <1>1, <1>2, <2>3, TestsEndEffect, TeacherIsOne DEF Ran, Shown, Attempt
  <2> QED
    BY <2>1, <2>2, <2>3 DEF RunRepositoryTests
<1>4. CloneOfAttempt'
  BY <1>1, <1>2, <1>3 DEF CloneOfAttempt
<1> QED
  BY <1>1, <1>2, <1>3, <1>4, NothingRecorded

LEMMA AttemptStep ==
  ASSUME TeacherInv, ConcludeAttempt
  PROVE  TeacherInv'
<1>1. /\ rolloutPhase = "testing"
      /\ UNCHANGED <<seeds, withRunner, rolloutArtifact, box, imageHeld, executed>>
  BY DEF ConcludeAttempt, podmanVars
<1>2. /\ withRunner /\ Len(rollouts) < seeds /\ workspace = "patched base"
      /\ box[Teacher].outcome = "SUCCESS" => Shown(Len(rollouts) + 1)
  BY <1>1 DEF TeacherInv, CloneOfAttempt
<1>3. PICK r \in Records :
        /\ rollouts' = Append(rollouts, r) /\ rolloutPhase' = "solving" /\ workspace' = "none"
        /\ r.status = "UNVERIFIED" => box[Teacher].outcome = "SUCCESS"
  <2> DEFINE blocked == [status |-> "BLOCKED", tests |-> "none"]
             unverified == [status |-> "UNVERIFIED", tests |-> "passed"]
             failed == [status |-> "FAIL", tests |-> "failed"]
  <2>1. /\ {blocked, unverified, failed} \subseteq Records
        /\ blocked.status = "BLOCKED" /\ unverified.status = "UNVERIFIED" /\ failed.status = "FAIL"
    BY DEF Records
  <2>2. /\ rolloutPhase' = "solving" /\ workspace' = "none"
        /\ \/ rollouts' = Append(rollouts, blocked)
           \/ rollouts' = Append(rollouts, unverified) /\ box[Teacher].outcome = "SUCCESS"
           \/ rollouts' = Append(rollouts, failed)
    BY DEF ConcludeAttempt, Record
  <2> HIDE DEF blocked, unverified, failed
  <2> QED
    BY <2>1, <2>2
<1>4. r.status = "UNVERIFIED" => Shown(Len(rollouts) + 1)
  BY <1>2, <1>3
<1> QED
  BY <1>1, <1>2, <1>3, <1>4, Recorded

LEMMA WriteStep ==
  ASSUME TeacherInv, WriteRollouts
  PROVE  TeacherInv'
BY DEF TeacherInv, RolloutTypes, CloneOfAttempt, RecordsEarned, ArtifactWhole, Shown, WriteRollouts, podmanVars

LEMMA TeacherStep ==
  ASSUME BoxesInv, TeacherInv, TeacherNext
  PROVE  BoxesInv' /\ TeacherInv'
<1>1. CASE Solve \/ RestoreBase \/ ConcludeAttempt \/ WriteRollouts
  <2>1. UNCHANGED <<box, imageHeld, executed>>
    BY <1>1 DEF Solve, RestoreBase, ConcludeAttempt, WriteRollouts, podmanVars
  <2>2. BoxesInv'
    BY <2>1 DEF BoxesInv, BoxRight
  <2> QED
    BY <1>1, <2>2, SolveStep, RestoreStep, AttemptStep, WriteStep
<1>2. CASE PruneHeldImage /\ UNCHANGED rolloutVars
  <2>1. TeacherInv'
    BY <1>2 DEF PruneHeldImage, rolloutVars, TeacherInv, RolloutTypes, CloneOfAttempt, RecordsEarned,
       ArtifactWhole, Shown
  <2> QED
    BY <1>2, <2>1, PruneEffect
<1> QED
  BY <1>1, <1>2, TeacherPatchStep, RepositoryTestsStep DEF TeacherNext

LEMMA RolloutsFollow ==
  ASSUME TeacherInv
  PROVE  RolloutsTellTruth
<1> SUFFICES ASSUME rolloutArtifact # <<>> PROVE RolloutsTellTruth
  BY DEF RolloutsTellTruth
<1>1. rolloutArtifact = rollouts /\ Len(rollouts) = seeds
  BY DEF TeacherInv, ArtifactWhole
<1>2. \A n \in DOMAIN rollouts : rollouts[n] \in Records
  <2>1. rollouts \in Seq(Records)
    BY DEF TeacherInv, RolloutTypes
  <2> QED
    BY <2>1
<1>3. \A n \in DOMAIN rollouts : rollouts[n].status # "PASS"
  BY <1>2 DEF Records
<1> QED
  BY <1>1, <1>3 DEF TeacherInv, RecordsEarned, RolloutsTellTruth, Shown

-----------------------------------------------------------------------------
(* The claims of the pipeline: a launch and a teacher are at work in jobs of their own. *)

ClaimsInv ==
    /\ BoxesInv
    /\ IF job = <<"train">> THEN TrainingInv ELSE TrainingInit
    /\ IF job = <<"teach">> THEN TeacherInv ELSE TeacherInit

LEMMA JobsDiffer ==
  /\ <<"train">> # <<"teach">>
  /\ \A w \in {"normalize", "recover", "evaluate", "split", "run", "cohort"} :
        <<w>> # <<"train">> /\ <<w>> # <<"teach">>
  /\ \A p : <<"review", p>> # <<"train">> /\ <<"review", p>> # <<"teach">>
<1>1. \A v, w : <<v>> = <<w>> => v = w
  OBVIOUS
<1>2. \A v, w, p : <<v, p>> # <<w>>
  OBVIOUS
<1> QED
  BY <1>1, <1>2

\* A step of a job that is neither of the two
LEMMA OtherJobs ==
  ASSUME ClaimsInv, UNCHANGED <<podmanVars, trainingVars, rolloutVars>>,
         job' = job \/ (job \notin {<<"train">>, <<"teach">>} /\ job' \notin {<<"train">>, <<"teach">>})
  PROVE  ClaimsInv'
<1>1. BoxesInv'
  BY DEF ClaimsInv, BoxesInv, BoxRight, podmanVars
<1>2. TrainingInit => TrainingInit'
  BY DEF TrainingInit, trainingVars
<1>3. TrainingInv => TrainingInv'
  BY DEF TrainingInv, Shape, SharedTypes, ReportOfOne, LaunchInv, TypesOf, Trainer, StatusEarned,
     TestsShown, Fresh, SteppedOnce, Trained, Authorized, trainingVars, podmanVars
<1>4. TeacherInit => TeacherInit'
  BY DEF TeacherInit, rolloutVars
<1>5. TeacherInv => TeacherInv'
  BY DEF TeacherInv, RolloutTypes, CloneOfAttempt, RecordsEarned, ArtifactWhole, Shown, rolloutVars,
     podmanVars
<1> QED
  BY <1>1, <1>2, <1>3, <1>4, <1>5 DEF ClaimsInv

LEMMA ClaimsInitially == PipelineInit => ClaimsInv
BY BoxesInitially, TrainingInitially, TeacherInitially DEF PipelineInit, ClaimsInv

LEMMA ClaimsStep ==
  ASSUME ClaimsInv, [PipelineNext]_pipelineVars
  PROVE  ClaimsInv'
<1>1. CASE Normalize \/ Review \/ Cohort \/ Recover \/ EvaluateCase \/ SplitAndDraw \/ RunScript
  BY <1>1, OtherJobs DEF Normalize, Review, Cohort, Recover, EvaluateCase, SplitAndDraw, RunScript,
     modelVars
<1>2. CASE Conclude
  <2>1. job \notin {<<"train">>, <<"teach">>} /\ job' \notin {<<"train">>, <<"teach">>}
    BY <1>2, JobsDiffer DEF Conclude, Reviews
  <2> QED
    BY <1>2, <2>1, OtherJobs DEF Conclude, jobVars, modelVars
<1>3. CASE Train
  <2>1. TrainingInv /\ BoxesInv /\ TeacherInit
    BY <1>3, JobsDiffer DEF ClaimsInv, Train
  <2>2. TrainingInv' /\ BoxesInv'
    BY <1>3, <2>1, TrainingStep DEF Train
  <2>3. TeacherInit'
    BY <1>3, <2>1 DEF Train, TeacherInit, rolloutVars
  <2> QED
    BY <1>3, <2>2, <2>3, JobsDiffer DEF ClaimsInv, Train
<1>4. CASE Teach
  <2>1. TeacherInv /\ BoxesInv /\ TrainingInit
    BY <1>4, JobsDiffer DEF ClaimsInv, Teach
  <2>2. TeacherInv' /\ BoxesInv'
    BY <1>4, <2>1, TeacherStep DEF Teach
  <2>3. TrainingInit'
    BY <1>4, <2>1 DEF Teach, TrainingInit, trainingVars
  <2> QED
    BY <1>4, <2>2, <2>3, JobsDiffer DEF ClaimsInv, Teach
<1>5. CASE UNCHANGED pipelineVars
  BY <1>5, OtherJobs DEF pipelineVars, jobVars, modelVars
<1> QED
  BY <1>1, <1>2, <1>3, <1>4, <1>5 DEF PipelineNext

LEMMA ClaimsFollow ==
  ASSUME ClaimsInv
  PROVE  ClaimsWereExecuted
<1>1. ReportTellsTruth
  BY ReportFollows DEF ClaimsInv, TrainingInit, ReportTellsTruth
<1>2. RolloutsTellTruth
  BY RolloutsFollow DEF ClaimsInv, TeacherInit, RolloutsTellTruth
<1>3. \A l \in Launches : NoContainerIsLeft(l)
  BY DEF ClaimsInv, BoxesInv, BoxRight, NoContainerIsLeft
<1> QED
  BY <1>1, <1>2, <1>3 DEF ClaimsWereExecuted

\* In the whole pipeline, for any number of launches, seeds and changes of the inputs: a
\* report that says PASS and the records of a teacher claim only what was executed, and no
\* run of tests that is believed leaves a container.
THEOREM ClaimsAreTrue == PipelineSpec => []ClaimsWereExecuted
<1>1. PipelineSpec => []ClaimsInv
  BY ClaimsInitially, ClaimsStep, PTL DEF PipelineSpec
<1> QED
  BY <1>1, ClaimsFollow, PTL

-----------------------------------------------------------------------------
\* The pipeline leaves the state of a job to the component at work: a behaviour of the pipeline
\* is one of a case's evaluation and one of the script over a run directory, so that what is
\* proved of the two alone holds in the pipeline.
THEOREM JobsAreTheirComponents == PipelineSpec => EvaluationSpec /\ RunnersSpec
<1>1. PipelineInit => SandboxInit /\ RunnersInit
  BY DEF PipelineInit
<1>2. [PipelineNext]_pipelineVars => [EvaluationNext]_evalVars
  BY DEF PipelineNext, Normalize, Conclude, Review, Cohort, Recover, SplitAndDraw, EvaluateCase,
     Train, Teach, RunScript, pipelineVars, jobVars, dataVars
<1>3. [PipelineNext]_pipelineVars => [RunnersNext]_runnerVars
  BY DEF PipelineNext, Normalize, Conclude, Review, Cohort, Recover, SplitAndDraw, EvaluateCase,
     Train, Teach, RunScript, pipelineVars, jobVars, dataVars, modelVars
<1> QED
  BY <1>1, <1>2, <1>3, PTL DEF PipelineSpec, EvaluationSpec, RunnersSpec

\* A verdict of the canary is true of the locked image in the whole pipeline.
THEOREM VerdictsOfThePipeline == PipelineSpec => []VerdictIsTheTasksOwn
BY JobsAreTheirComponents, VerdictsAreTrue, PTL

-----------------------------------------------------------------------------
(* The types of the whole pipeline.  Most of them are part of what is proved of a component; *)
(* the rest are bounds and phases, and that the components of other jobs are at rest.        *)

\* The part of the pipeline that a step may change
LEMMA WhoSteps ==
  ASSUME [PipelineNext]_pipelineVars
  PROVE  /\ [ProjectionNext]_taskVars \/ HandOverProvenance
         /\ NormalizationNext \/ StartNormalization(Admitted) \/ UNCHANGED normVars
         /\ [ReviewNext]_reviewVars
         /\ \/ RecoveryNext /\ UNCHANGED canaryVars
            \/ CanaryNext /\ UNCHANGED recVars
            \/ UNCHANGED <<recVars, canaryVars>>
         /\ [EvaluationNext]_evalVars
         /\ [SplitNext]_splitVars
<1> USE DEF PipelineNext, Normalize, Conclude, Cohort, Recover, SplitAndDraw, EvaluateCase,
     Train, Teach, RunScript, pipelineVars, jobVars, dataVars
<1>1. [ProjectionNext]_taskVars \/ HandOverProvenance
  BY DEF Review
<1>2. NormalizationNext \/ StartNormalization(Admitted) \/ UNCHANGED normVars
  BY DEF Review, HandOverProvenance
<1>3. [ReviewNext]_reviewVars
  <2>1. CASE Review
    <3>1. job[2] \in DOMAIN Leaves
      BY <2>1 DEF Review, Reviews
    <3> QED
      BY <2>1, <3>1 DEF Review, ReviewNext
  <2>2. CASE Cohort
    BY <2>2 DEF ReviewNext
  <2> QED
    BY <2>1, <2>2 DEF HandOverProvenance
<1>4. \/ RecoveryNext /\ UNCHANGED canaryVars
      \/ CanaryNext /\ UNCHANGED recVars
      \/ UNCHANGED <<recVars, canaryVars>>
  BY DEF Review
<1>5. [EvaluationNext]_evalVars /\ [SplitNext]_splitVars
  BY DEF Review
<1> QED
  BY <1>1, <1>2, <1>3, <1>4, <1>5

NormalizingJobs == {<<"normalize">>, <<"cohort">>} \cup Reviews

\* The components that the job has no part in
AtRest ==
    /\ job \in Jobs
    /\ job \in NormalizingJobs \/ (ProjectionInit /\ NormalizationInit /\ ReviewInit)
    /\ job = <<"recover">> \/ (RecoveryInit /\ CanaryInit)
    /\ job = <<"evaluate">> \/ SandboxInit
    /\ job = <<"split">> \/ SplitInit
    /\ job = <<"train">> \/ TrainingInit
    /\ job = <<"teach">> \/ TeacherInit
    /\ job = <<"run">> \/ RunnersInit
    /\ job \in {<<"train">>, <<"teach">>} \/ PodmanInit

\* A component nobody works at stays as it was at the beginning.
LEMMA RestLasts ==
  /\ ProjectionInit /\ NormalizationInit /\ ReviewInit /\ UNCHANGED <<taskVars, normVars, reviewVars>>
        => (ProjectionInit /\ NormalizationInit /\ ReviewInit)'
  /\ RecoveryInit /\ CanaryInit /\ UNCHANGED <<recVars, canaryVars>> => (RecoveryInit /\ CanaryInit)'
  /\ SandboxInit /\ UNCHANGED evalVars => SandboxInit'
  /\ SplitInit /\ UNCHANGED splitVars => SplitInit'
  /\ TrainingInit /\ UNCHANGED trainingVars => TrainingInit'
  /\ TeacherInit /\ UNCHANGED rolloutVars => TeacherInit'
  /\ RunnersInit /\ UNCHANGED runnerVars => RunnersInit'
  /\ PodmanInit /\ UNCHANGED podmanVars => PodmanInit'
<1>1. ASSUME ProjectionInit, NormalizationInit, ReviewInit, UNCHANGED <<taskVars, normVars, reviewVars>>
      PROVE  (ProjectionInit /\ NormalizationInit /\ ReviewInit)'
  BY <1>1 DEF ProjectionInit, NormalizationInit, ReviewInit, taskVars, normVars, leafVars, reviewVars
<1>2. RecoveryInit /\ CanaryInit /\ UNCHANGED <<recVars, canaryVars>> => (RecoveryInit /\ CanaryInit)'
  BY DEF RecoveryInit, CanaryInit, recVars, inputVars, outputVars, canaryVars
<1>3. SandboxInit /\ UNCHANGED evalVars => SandboxInit'
  BY DEF SandboxInit, evalVars
<1>4. SplitInit /\ UNCHANGED splitVars => SplitInit'
  BY DEF SplitInit, splitVars
<1>5. TrainingInit /\ UNCHANGED trainingVars => TrainingInit'
  BY DEF TrainingInit, trainingVars
<1>6. TeacherInit /\ UNCHANGED rolloutVars => TeacherInit'
  BY DEF TeacherInit, rolloutVars
<1>7. RunnersInit /\ UNCHANGED runnerVars => RunnersInit'
  BY DEF RunnersInit, runnerVars
<1>8. PodmanInit /\ UNCHANGED podmanVars => PodmanInit'
  BY DEF PodmanInit, podmanVars
<1> QED
  BY <1>1, <1>2, <1>3, <1>4, <1>5, <1>6, <1>7, <1>8

LEMMA RestStep ==
  ASSUME AtRest, [PipelineNext]_pipelineVars
  PROVE  AtRest'
<1>1. CASE Conclude
  <2>1. job = <<"normalize">> /\ job' \in Reviews \cup {<<"cohort">>} /\ UNCHANGED jobVars
    BY <1>1 DEF Conclude
  <2>2. \A w \in {"recover", "evaluate", "split", "train", "teach", "run"} : job # <<w>>
    <3>1. \A v, w : <<v>> = <<w>> => v = w
      OBVIOUS
    <3> QED
      BY <2>1, <3>1
  <2>3. job' \in Jobs /\ job' \in NormalizingJobs
    BY <2>1 DEF Jobs, NormalizingJobs
  <2>4. /\ UNCHANGED <<recVars, canaryVars>> /\ UNCHANGED evalVars /\ UNCHANGED splitVars
        /\ UNCHANGED trainingVars /\ UNCHANGED rolloutVars /\ UNCHANGED runnerVars /\ UNCHANGED podmanVars
    BY <2>1 DEF jobVars, dataVars, modelVars
  <2> QED
    BY <2>2, <2>3, <2>4, RestLasts DEF AtRest
<1>2. CASE ~Conclude
  <2> USE DEF PipelineNext, Normalize, HandOverProvenance, Review, Cohort, Recover, SplitAndDraw,
       EvaluateCase, Train, Teach, RunScript, pipelineVars, jobVars, dataVars, modelVars
  <2>1. job' = job
    BY <1>2
  <2>2. job \in NormalizingJobs \/ UNCHANGED <<taskVars, normVars, reviewVars>>
    BY <1>2 DEF NormalizingJobs
  <2>3. job = <<"recover">> \/ UNCHANGED <<recVars, canaryVars>>
    BY <1>2
  <2>4. /\ job = <<"evaluate">> \/ UNCHANGED evalVars
        /\ job = <<"split">> \/ UNCHANGED splitVars
        /\ job = <<"run">> \/ UNCHANGED runnerVars
    BY <1>2
  <2>5. /\ job = <<"train">> \/ UNCHANGED trainingVars
        /\ job = <<"teach">> \/ UNCHANGED rolloutVars
        /\ job \in {<<"train">>, <<"teach">>} \/ UNCHANGED podmanVars
    BY <1>2
  <2>6. NormalizingJobs' = NormalizingJobs /\ Jobs' = Jobs
    BY DEF NormalizingJobs, Jobs, Reviews
  <2> QED
    BY <2>1, <2>2, <2>3, <2>4, <2>5, <2>6, RestLasts DEF AtRest
<1> QED
  BY <1>1, <1>2

-----------------------------------------------------------------------------
\* The leaves

RowsAreBounded ==
    \A p \in DOMAIN Leaves :
        Len(rawRows[p]) <= MaxTraceRows[p] /\ normStatus[p] \in Published \cup {"none"}

LEMMA BoundedAtFirst == NormalizationInit => RowsAreBounded
<1>1. \A p \in DOMAIN Leaves : 0 <= MaxTraceRows[p]
  BY TraceBounds
<1>2. ASSUME NormalizationInit, NEW p \in DOMAIN Leaves
      PROVE  Len(rawRows[p]) = 0 /\ normStatus[p] = "none"
  BY <1>2, TraceRowsAssumption DEF NormalizationInit
<1> QED
  BY <1>1, <1>2 DEF RowsAreBounded

LEMMA BoundedStep ==
  ASSUME NormInv, RowsAreBounded, [PipelineNext]_pipelineVars
  PROVE  RowsAreBounded'
<1>1. LeafTypes /\ leaf \in DOMAIN Leaves
  BY DEF NormInv, LeafTypes
<1>2. ASSUME NEW row \in TraceRows, ReadTraceRow(row)
      PROVE  RowsAreBounded'
  <2>1. /\ rawRows' = [rawRows EXCEPT ![leaf] = Append(rawRows[leaf], row)] /\ normStatus' = normStatus
        /\ Len(rawRows[leaf]) < MaxTraceRows[leaf]
    BY <1>2 DEF ReadTraceRow
  <2>2. rawRows[leaf] \in Seq(TraceRows) /\ MaxTraceRows[leaf] \in Nat
    BY <1>1, TraceBounds, TraceRowsAssumption DEF LeafTypes
  <2>3. Len(Append(rawRows[leaf], row)) <= MaxTraceRows[leaf]
    BY <2>1, <2>2
  <2>4. \A p \in DOMAIN Leaves :
           rawRows'[p] = IF p = leaf THEN Append(rawRows[leaf], row) ELSE rawRows[p]
    BY <1>1, <2>1, TraceRowsAssumption DEF LeafTypes
  <2> QED
    BY <2>1, <2>3, <2>4 DEF RowsAreBounded
<1>3. CASE PublishNormalization
  <2>1. /\ rawRows' = rawRows
        /\ \/ normStatus' = normStatus
           \/ \E s \in Published : normStatus' = [normStatus EXCEPT ![leaf] = s]
    BY <1>3 DEF PublishNormalization, Published
  <2>2. \A p \in DOMAIN Leaves : normStatus'[p] = normStatus[p] \/ normStatus'[p] \in Published
    BY <1>1, <2>1, TraceRowsAssumption DEF LeafTypes
  <2> QED
    BY <2>1, <2>2 DEF RowsAreBounded
<1>4. CASE UNCHANGED <<rawRows, normStatus>>
  BY <1>4 DEF RowsAreBounded
<1> QED
  BY <1>2, <1>3, <1>4, WhoSteps DEF NormalizationNext, Finalize, PublishDerived, StartNormalization,
     normVars, leafVars

LEMMA LeavesTyped ==
  ASSUME NormInv, RowsAreBounded
  PROVE  NormalizationTypeOK
<1>1. \A p \in DOMAIN Leaves : decisions[p] # <<>> => DOMAIN decisions[p] = RowNumbers(p)
  BY DEF NormInv, Classified, DecidedRight
<1> QED
  BY <1>1 DEF NormInv, LeafTypes, RowsAreBounded, NormalizationTypeOK

-----------------------------------------------------------------------------
\* The reviews

AuditsAreTyped == \A p \in DOMAIN Leaves : audits[p] \in {"none", "refused", "PASS", "FAIL", "BLOCKED"}

LEMMA AuditsStep ==
  ASSUME ReviewInv, AuditsAreTyped, [PipelineNext]_pipelineVars
  PROVE  AuditsAreTyped'
<1>1. ASSUME NEW p \in DOMAIN Leaves, NEW given \in BOOLEAN, AuditGold(p, given)
      PROVE  AuditsAreTyped'
  <2>1. PICK s \in {"refused", "PASS", "FAIL", "BLOCKED"} : audits' = [audits EXCEPT ![p] = s]
    BY <1>1 DEF AuditGold, GoldStatus
  <2> QED
    BY <2>1 DEF AuditsAreTyped, ReviewInv, ReviewTypes
<1>2. CASE UNCHANGED audits
  BY <1>2 DEF AuditsAreTyped
<1> QED
  BY <1>1, <1>2, WhoSteps DEF ReviewNext, OpenReview, ScanRow, Attest, BuildCohort, reviewVars

LEMMA ReviewsTyped ==
  ASSUME ReviewInv, NormInv, AuditsAreTyped
  PROVE  ReviewTypeOK
<1>1. reviewed # 0 => scan.at <= Len(rawRows[reviewed])
  BY DEF ReviewInv, ScanIsRight
<1> QED
  BY <1>1 DEF ReviewInv, ReviewTypes, AuditsAreTyped, ReviewTypeOK

-----------------------------------------------------------------------------
\* The recovery

\* A labelled or ineligible row is counted with the total, and a conflict is of a target.
RecoveryBounded ==
    /\ accounting \in [{"total", "ineligible", "known"} -> Nat]
    /\ accounting.ineligible <= accounting.total /\ accounting.known <= accounting.total
    /\ accounting.total <= Len(targetRead) /\ Len(targetRead) <= MaxTargets
    /\ \A o \in observations : o.label \in Labels
    /\ recPhase \in {"labeled", "targets"} => conflicts = {}
    /\ conflicts \subseteq TargetKeys

LEMMA RecoveryAtFirst == RecoveryInit => RecoveryBounded
BY RecoveryBounds DEF RecoveryInit, RecoveryBounded

LEMMA IndexLabeledBounded ==
  ASSUME RecoveryBounded, NEW p \in LabeledPartitions, NEW row \in LabeledRows, IndexLabeled(p, row)
  PROVE  RecoveryBounded'
<1>1. /\ UNCHANGED <<targetRead, targets, accounting, conflicts>> /\ recPhase = "labeled"
      /\ conflicts = {}
  BY DEF IndexLabeled, outputVars, RecoveryBounded
<1>2. \A o \in observations' : o.label \in Labels
  <2>1. row.label \in Labels \cup {"unknown"}
    BY RecoveryAssumption
  <2> QED
    BY <2>1 DEF IndexLabeled, RecoveryBounded
<1> QED
  BY <1>1, <1>2 DEF RecoveryBounded

LEMMA IndexTargetBounded ==
  ASSUME RecoveryInv, RecoveryBounded, NEW p \in TargetPartitions, NEW row \in TargetRows, IndexTarget(p, row)
  PROVE  RecoveryBounded'
<1>1. /\ UNCHANGED <<observations, conflicts>> /\ conflicts = {}
      /\ targetRead' = Append(targetRead, <<p, row>>) /\ Len(targetRead) < MaxTargets
  BY DEF IndexTarget, outputVars, RecoveryBounded
<1>2. Len(targetRead) \in Nat /\ Len(targetRead') = Len(targetRead) + 1
  BY <1>1 DEF RecoveryInv, RowsAreRead
<1>3. accounting.total \in Nat /\ accounting.ineligible \in Nat /\ accounting.known \in Nat
  BY DEF RecoveryBounded
<1>4. \/ accounting' = accounting
      \/ \E i, k \in 0 .. 1 :
            accounting' = [total |-> accounting.total + 1, ineligible |-> accounting.ineligible + i,
                           known |-> accounting.known + k]
  BY DEF IndexTarget
<1>5. /\ accounting' \in [{"total", "ineligible", "known"} -> Nat]
      /\ accounting'.ineligible <= accounting'.total /\ accounting'.known <= accounting'.total
      /\ accounting'.total <= Len(targetRead')
  BY <1>2, <1>3, <1>4 DEF RecoveryBounded
<1>6. Len(targetRead') <= MaxTargets
  BY <1>1, <1>2, RecoveryBounds
<1> QED
  BY <1>1, <1>5, <1>6 DEF RecoveryBounded

LEMMA RecoveryBoundedStep ==
  ASSUME RecoveryInv, RecoveryBounded, [RecoveryNext]_recVars
  PROVE  RecoveryBounded'
<1>1. CASE LabeledDone \/ CheckOutputs \/ PublishRecovery \/ UNCHANGED recVars
  <2>1. UNCHANGED <<targetRead, targets, accounting, observations, conflicts>>
    BY <1>1 DEF LabeledDone, CheckOutputs, PublishRecovery, recVars, inputVars, outputVars
  <2>2. recPhase' \in {"labeled", "targets"} => recPhase \in {"labeled", "targets"}
    BY <1>1 DEF LabeledDone, CheckOutputs, PublishRecovery, recVars
  <2> QED
    BY <2>1, <2>2 DEF RecoveryBounded, TargetKeys
<1>2. CASE MaterializeOutputs
  <2>1. /\ UNCHANGED <<targetRead, targets, accounting, observations>>
        /\ recPhase' \notin {"labeled", "targets"}
        /\ conflicts' \subseteq TargetKeys
    BY <1>2 DEF MaterializeOutputs, inputVars
  <2> QED
    BY <2>1 DEF RecoveryBounded, TargetKeys
<1> QED
  BY <1>1, <1>2, IndexLabeledBounded, IndexTargetBounded DEF RecoveryNext

LEMMA RecoveryTyped ==
  ASSUME RecoveryInv, RecoveryBounded
  PROVE  RecoveryTypeOK
<1>1. Len(targetRead) \in Nat
  BY DEF RecoveryInv, RowsAreRead
<1>2. accounting.total \in Nat /\ accounting.ineligible \in Nat /\ accounting.known \in Nat
  BY DEF RecoveryBounded
<1>3. /\ accounting.total \in 0 .. MaxTargets /\ accounting.ineligible \in 0 .. MaxTargets
      /\ accounting.known \in 0 .. MaxTargets
  BY <1>1, <1>2, RecoveryBounds DEF RecoveryBounded
<1>4. accounting \in [{"total", "ineligible", "known"} -> 0 .. MaxTargets]
  BY <1>3 DEF RecoveryBounded
<1> QED
  BY <1>4 DEF RecoveryInv, RecoveryBounded, RecoveryTypeOK

-----------------------------------------------------------------------------
\* The canary workset

CanaryPhases == {"waiting", "unselected", "replaying", "unreplayable", "unrecovered", "untasked",
                 "materialized", "workset", "strandedWorkset"}

\* What is found again was chosen; before the selection nothing is.
SelectionTyped ==
    /\ canaryPhase \in CanaryPhases
    /\ canaryPhase \in {"waiting", "unselected"} => controls = {} /\ evaluations = {}
    /\ recovered \subseteq controls

LEMMA SelectionStep ==
  ASSUME SelectionTyped, CanaryInv, [PipelineNext]_pipelineVars
  PROVE  SelectionTyped'
<1>1. ASSUME NEW c \in SetToSeqs(candidates), NEW r \in SetToSeqs(requests), NEW b \in Bounds,
             SelectSources(c, r, b)
      PROVE  SelectionTyped'
  <2>1. canaryPhase = "waiting" /\ recovered' = recovered /\ recovered = {}
    BY <1>1 DEF SelectSources, CanaryInv
  <2>2. \/ canaryPhase' = "unselected" /\ UNCHANGED <<controls, evaluations>>
        \/ canaryPhase' = "replaying"
    BY <1>1 DEF SelectSources
  <2> QED
    BY <2>1, <2>2 DEF SelectionTyped, CanaryPhases
<1>2. CASE ReplayRow
  BY <1>2 DEF ReplayRow, SelectionTyped, CanaryPhases
<1>3. CASE MaterializeCases \/ PublishCanaryWorkset
  BY <1>3 DEF MaterializeCases, PublishCanaryWorkset, SelectionTyped, CanaryPhases
<1>4. CASE UNCHANGED canaryVars
  BY <1>4 DEF SelectionTyped, canaryVars
<1> QED
  BY <1>1, <1>2, <1>3, <1>4, WhoSteps DEF CanaryNext

LEMMA WorksetTyped ==
  ASSUME CanaryInv, SelectionTyped
  PROVE  CanaryTypeOK
<1>1. controls \subseteq candidates /\ evaluations \subseteq requests
  BY DEF CanaryInv, SelectionTyped, SelectionCovers, Covers
<1> QED
  BY <1>1 DEF CanaryInv, SelectionTyped, CanaryPhases, CanaryTypeOK

-----------------------------------------------------------------------------
\* The evaluation of a case

HostTyped == store \subseteq ImageDigests /\ stops \in 0 .. MaxStops /\ moves \in 0 .. MaxMoves

LEMMA HostAtFirst == SandboxInit => HostTyped
BY SandboxAssumption DEF SandboxInit, HostTyped

LEMMA HostStep ==
  ASSUME SandboxInv, HostTyped, [EvaluationNext]_evalVars
  PROVE  HostTyped'
<1>1. tag \in ImageDigests
  BY DEF SandboxInv, SandboxTypes
<1>2. store' \in {store, store \cup {tag}, {}}
  BY DEF EvaluationNext, InspectImage, CopyImage, PublishLock, ProbeLayout, Unpack, ProbeStore,
     StartAttempt, EndAttempt, Evaluate, StopEvaluation, MoveTag, LockElsewhere, UnpackElsewhere,
     PruneImage, evalVars
<1>3. stops' = stops \/ (stops < MaxStops /\ stops' = stops + 1)
  BY DEF EvaluationNext, InspectImage, CopyImage, PublishLock, ProbeLayout, Unpack, ProbeStore,
     StartAttempt, EndAttempt, Evaluate, StopEvaluation, MoveTag, LockElsewhere, UnpackElsewhere,
     PruneImage, Elsewhere, hostVars, evalVars
<1>4. moves' = moves \/ (moves < MaxMoves /\ moves' = moves + 1)
  BY DEF EvaluationNext, InspectImage, CopyImage, PublishLock, ProbeLayout, Unpack, ProbeStore,
     StartAttempt, EndAttempt, Evaluate, StopEvaluation, MoveTag, LockElsewhere, UnpackElsewhere,
     PruneImage, Elsewhere, hostVars, evalVars
<1> QED
  BY <1>1, <1>2, <1>3, <1>4, SandboxAssumption DEF HostTyped

LEMMA SandboxTyped ==
  ASSUME SandboxInv, HostTyped
  PROVE  SandboxTypeOK
<1>1. bundle.marker \in Images /\ bundle.content \in Images
  BY DEF SandboxInv, SandboxTypes
<1> QED
  BY <1>1 DEF SandboxInv, SandboxTypes, PinnedInPhase, HostTyped, SandboxTypeOK, Images, Phases

-----------------------------------------------------------------------------
\* The split

SplitPhases == {"aliases", "conflict", "origins", "walking", "cycle", "samples", "split", "overlap",
                "pilot", "FAIL"}

LEMMA SplitPhaseStep ==
  ASSUME splitPhase \in SplitPhases, [SplitNext]_splitVars
  PROVE  splitPhase' \in SplitPhases
BY DEF SplitPhases, SplitNext, ReadAlias, StartWalk, Walk, ReadSample, WriteSplit, BuildPilot, splitVars

LEMMA PilotStep ==
  ASSUME PilotInv, [SplitNext]_splitVars
  PROVE  PilotInv'
BY AliasKeeps, StartKeepsOrder, WalkKeeps, SplitKeeps, BuildKeeps, PilotStands DEF SplitNext

LEMMA SplitTyped ==
  ASSUME PilotInv, splitPhase \in SplitPhases
  PROVE  SplitTypeOK
BY DEF PilotInv, AliasesInOrder, SplitPhases, SplitTypeOK

-----------------------------------------------------------------------------
\* Runs in containers, launches and rollouts

LEMMA ClaimsTyped ==
  ASSUME ClaimsInv
  PROVE  /\ PodmanTypeOK
         /\ TrainingInv => TrainingTypeOK
         /\ TeacherInv => TeacherTypeOK
<1>1. PodmanTypeOK
  BY DEF ClaimsInv, BoxesInv, Boxes, BoxPhases, BoxRight, PodmanTypeOK
<1>2. ASSUME TrainingInv PROVE TrainingTypeOK
  <2>1. \A l \in Launches :
           /\ step[l] \in Steps /\ status[l] \in Statuses
           /\ model[l].weights.steps \in 0 .. 2 /\ model[l].optimizer.steps \in 0 .. 2
    <3> SUFFICES ASSUME NEW l \in Launches
                 PROVE  /\ step[l] \in Steps /\ status[l] \in Statuses
                        /\ model[l].weights.steps \in 0 .. 2 /\ model[l].optimizer.steps \in 0 .. 2
      OBVIOUS
    <3>1. step[l] \in Steps /\ status[l] \in Statuses /\ model[l] \in Models
      BY <1>2 DEF TrainingInv, LaunchInv, TypesOf
    <3>2. model[l].weights \in Weights /\ model[l].optimizer \in Weights
      BY <3>1 DEF Models
    <3> QED
      BY <3>1, <3>2 DEF Weights
  <2> QED
    BY <1>2, <2>1 DEF TrainingInv, SharedTypes, Steps, Statuses, TrainingTypeOK
<1>3. ASSUME TeacherInv PROVE TeacherTypeOK
  BY <1>3 DEF TeacherInv, RolloutTypes, CloneOfAttempt, TeacherTypeOK
<1> QED
  BY <1>1, <1>2, <1>3

-----------------------------------------------------------------------------
\* All together

DataTyped ==
    /\ TaskInv
    /\ NormInv /\ RowsAreBounded
    /\ ReviewInv /\ AuditsAreTyped
    /\ RecoveryInv /\ RecoveryBounded
    /\ CanaryInv /\ SelectionTyped
    /\ SandboxInv /\ HostTyped
    /\ PilotInv /\ splitPhase \in SplitPhases

LEMMA TypedAtFirst == PipelineInit => AtRest /\ DataTyped /\ ClaimsInv
<1> SUFFICES ASSUME PipelineInit PROVE AtRest /\ DataTyped /\ ClaimsInv
  OBVIOUS
<1>1. /\ ProjectionInit /\ NormalizationInit /\ ReviewInit /\ RecoveryInit /\ CanaryInit
      /\ SandboxInit /\ SplitInit /\ PodmanInit /\ TrainingInit /\ TeacherInit /\ RunnersInit
  BY DEF PipelineInit
<1>2. AtRest
  <2>1. job \in Jobs
    BY DEF PipelineInit, Jobs
  <2> QED
    BY <1>1, <2>1 DEF AtRest
<1>3. AuditsAreTyped
  BY <1>1 DEF ReviewInit, AuditsAreTyped
<1>4. SelectionTyped
  BY <1>1 DEF CanaryInit, SelectionTyped, CanaryPhases
<1>5. splitPhase \in SplitPhases
  BY <1>1 DEF SplitInit, SplitPhases
<1>6. DataTyped
  BY <1>1, <1>3, <1>4, <1>5, TaskInvInit, NormStartsRight, BoundedAtFirst, ReviewStartsRight,
     RecoveryStartsRight, RecoveryAtFirst, CanaryStartsRight, SandboxInvInit, HostAtFirst,
     PilotStartsRight DEF DataTyped
<1> QED
  BY <1>2, <1>6, ClaimsInitially

LEMMA TypedStep ==
  ASSUME AtRest, DataTyped, ClaimsInv, [PipelineNext]_pipelineVars
  PROVE  AtRest' /\ DataTyped' /\ ClaimsInv'
<1>1. /\ TaskInv /\ NormInv /\ RowsAreBounded /\ ReviewInv /\ AuditsAreTyped
      /\ RecoveryInv /\ RecoveryBounded /\ CanaryInv /\ SelectionTyped
      /\ SandboxInv /\ HostTyped /\ PilotInv /\ splitPhase \in SplitPhases
  BY DEF DataTyped
<1>2. TaskInv'
  BY <1>1, WhoSteps, TaskInvNext, HandOverEmpties
<1>3. NormInv' /\ RowsAreBounded' /\ ReviewInv' /\ AuditsAreTyped'
  BY <1>1, NormKeeps, BoundedStep, ReviewKeeps, AuditsStep
<1>4. RecoveryInv' /\ CanaryInv' /\ SelectionTyped'
  BY <1>1, CanaryKeeps, SelectionStep
<1>5. RecoveryBounded'
  <2>1. [RecoveryNext]_recVars
    BY WhoSteps
  <2> QED
    BY <1>1, <2>1, RecoveryBoundedStep
<1>6. SandboxInv' /\ HostTyped'
  BY <1>1, WhoSteps, SandboxInvNext, HostStep
<1>7. PilotInv' /\ splitPhase' \in SplitPhases
  BY <1>1, WhoSteps, PilotStep, SplitPhaseStep
<1>8. DataTyped'
  BY <1>2, <1>3, <1>4, <1>5, <1>6, <1>7 DEF DataTyped
<1> QED
  BY <1>8, RestStep, ClaimsStep

LEMMA TypedFollows ==
  ASSUME AtRest, DataTyped, ClaimsInv, RunnersTypeOK
  PROVE  PipelineTypeOK
<1>1. ProjectionTypeOK
  BY DEF DataTyped, TaskInv, Tables, ProjectionTypeOK
<1>2. NormalizationTypeOK /\ ReviewTypeOK
  BY LeavesTyped, ReviewsTyped DEF DataTyped
<1>3. RecoveryTypeOK /\ CanaryTypeOK
  BY RecoveryTyped, WorksetTyped DEF DataTyped
<1>4. SandboxTypeOK /\ SplitTypeOK
  BY SandboxTyped, SplitTyped DEF DataTyped
<1>5. /\ PodmanTypeOK
      /\ job = <<"train">> => TrainingTypeOK
      /\ job = <<"teach">> => TeacherTypeOK
  BY ClaimsTyped DEF ClaimsInv
<1> QED
  BY <1>1, <1>2, <1>3, <1>4, <1>5 DEF AtRest, NormalizingJobs, PipelineTypeOK

\* Whatever job the pipeline is at, its component keeps its types, and every other component is
\* as it was at the beginning: no command reaches into the state of another.
THEOREM PipelineTypeCorrect == PipelineSpec => []PipelineTypeOK
<1>1. PipelineSpec => [](AtRest /\ DataTyped /\ ClaimsInv)
  BY TypedAtFirst, TypedStep, PTL DEF PipelineSpec
<1>2. PipelineSpec => []RunnersTypeOK
  BY JobsAreTheirComponents, RunnersTypeCorrect, PTL
<1> QED
  BY <1>1, <1>2, TypedFollows, PTL

\* What the scripts of a run directory say is true in the whole pipeline.
THEOREM RunnersOfThePipeline == PipelineSpec => []RunnersTellTruth
BY JobsAreTheirComponents, RunnersAreTruthful, PTL
=============================================================================
