--------------------------- MODULE CanarySandbox ---------------------------
(***************************************************************************)
(* lock-resolution-canary-images and a case of run-resolution-canary: the  *)
(* image of the case is pulled and locked by digest, the tests run without *)
(* and with the model's patch, each in a sandbox of its own, and the       *)
(* oracle concludes from what the two attempts printed.                    *)
(*                                                                         *)
(* With the chroot runtime the image is copied to a layout and unpacked to *)
(* a bundle under an image root that runs of other directories use as      *)
(* well; with podman it is in the local store.  Tags move, other runs lock *)
(* and unpack, images are pruned, attempts time out, are cut short or lose *)
(* output, cleanups fail, and the command is killed and started again.     *)
(*                                                                         *)
(* A test is known to the oracle by its name without timings, and two      *)
(* tests may come to one name.  Tests are taken to be deterministic: what  *)
(* passes depends on the image and on the patch.                           *)
(***************************************************************************)
EXTENDS Integers, FiniteSets

CONSTANTS ImageDigests,   \* what the tag of the case's image may point to
          NoImage,
          Tests,          \* fail_to_pass and pass_to_pass as the task lists them
          ToFix,          \* fail_to_pass
          NameOf,         \* _normalize_test_name
          Truths,         \* [ImageDigests -> [Attempts -> the tests that pass]]
          MaxStops,       \* how often a command is killed
          MaxMoves        \* how often somebody else touches tags, layouts and stores

Attempts == {"baseline", "candidate"}

ASSUME SandboxAssumption ==
    /\ NoImage \notin ImageDigests /\ ToFix \subseteq Tests /\ DOMAIN NameOf = Tests
    /\ Truths \subseteq [ImageDigests -> [Attempts -> SUBSET Tests]]
    /\ MaxStops \in Nat /\ MaxMoves \in Nat

VARIABLES truth,
          runtime,        \* seccomp-chroot or rootless-podman
          expectedLabel,  \* the transferred label, or "none"
          tag,            \* what the registry's tag points to
          store,          \* the images of podman's store
          layout,         \* the image in the OCI layout
          bundle,         \* the unpacked image and its marker
          imageLock,      \* the published lock
          evalPhase,
          pin,            \* the digest the lock command saw
          ran,            \* the results of the attempts
          left,           \* the attempts of this command whose clone or container exists
          verdict,
          stops, moves,
          mixed           \* another run ever replaced a layout that was copied for a lock
                          \* not yet published, or checked for a bundle not yet unpacked

evalVars == <<truth, runtime, expectedLabel, tag, store, layout, bundle, imageLock, evalPhase,
              pin, ran, left, verdict, stops, moves, mixed>>
hostVars == <<truth, runtime, expectedLabel, tag, stops, moves, mixed>>

NoBundle == [marker |-> NoImage, content |-> NoImage]
NoLock == [digest |-> NoImage, manifest |-> NoImage]
NotRun == [outcome |-> "NOT RUN"]
NoVerdict == [status |-> "none", resolved |-> "none", agreement |-> "none"]

Fixed == {NameOf[t] : t \in ToFix}
Kept == {NameOf[t] : t \in Tests \ ToFix}

-----------------------------------------------------------------------------
SandboxInit ==
    /\ truth \in Truths /\ runtime \in {"seccomp-chroot", "rootless-podman"}
    /\ expectedLabel \in {"yes", "no", "none"}
    /\ tag \in ImageDigests
    /\ store = {} /\ layout = NoImage /\ bundle = NoBundle
    /\ imageLock = NoLock /\ evalPhase = "unlocked" /\ pin = NoImage
    /\ ran = [a \in Attempts |-> NotRun] /\ left = {} /\ verdict = NoVerdict
    /\ stops = 0 /\ moves = 0 /\ mixed = FALSE

\* The digest of the tag is inspected, or the image pulled.
InspectImage ==
    /\ evalPhase = "unlocked"
    /\ pin' = tag
    /\ IF runtime = "rootless-podman"
       THEN store' = store \cup {tag} /\ evalPhase' = "copied"
       ELSE evalPhase' = "inspected" /\ UNCHANGED store
    /\ UNCHANGED <<hostVars, layout, bundle, imageLock, ran, left, verdict>>

\* skopeo copies by the digest it inspected, not by the tag.
CopyImage ==
    /\ evalPhase = "inspected"
    /\ layout' = pin /\ evalPhase' = "copied"
    /\ UNCHANGED <<hostVars, store, bundle, imageLock, pin, ran, left, verdict>>

\* The manifest of the local copy is inspected, and the lock published.
PublishLock ==
    /\ evalPhase = "copied"
    /\ imageLock' = [digest |-> pin,
                     manifest |-> IF runtime = "rootless-podman" THEN NoImage ELSE layout]
    /\ evalPhase' = "locked" /\ pin' = NoImage
    /\ UNCHANGED <<hostVars, store, layout, bundle, ran, left, verdict>>

-----------------------------------------------------------------------------
\* _ensure_ready of the chroot sandbox up to the bundle: a missing layout is restored, and
\* another manifest than the locked one, or a bundle of another image, is refused.
ProbeLayout ==
    /\ evalPhase = "locked" /\ runtime = "seccomp-chroot" /\ verdict = NoVerdict
    /\ layout' = IF layout = NoImage THEN imageLock.digest ELSE layout
    /\ layout' = imageLock.manifest
    /\ bundle \in {NoBundle, [bundle EXCEPT !.marker = imageLock.manifest]}
    /\ evalPhase' = IF bundle = NoBundle THEN "probed" ELSE "ready"
    /\ UNCHANGED <<hostVars, store, bundle, imageLock, pin, ran, left, verdict>>

\* umoci unpacks whatever the layout holds by now; the marker is that of the lock.
Unpack ==
    /\ evalPhase = "probed"
    /\ IF bundle = NoBundle
       THEN /\ bundle' = [marker |-> imageLock.manifest, content |-> layout]
            /\ evalPhase' = "ready"
       ELSE evalPhase' = "locked" /\ UNCHANGED bundle
    /\ UNCHANGED <<hostVars, store, layout, imageLock, pin, ran, left, verdict>>

\* _ensure_ready of the podman sandbox
ProbeStore ==
    /\ evalPhase = "locked" /\ runtime = "rootless-podman" /\ verdict = NoVerdict
    /\ imageLock.digest \in store
    /\ evalPhase' = "ready"
    /\ UNCHANGED <<hostVars, store, layout, bundle, imageLock, pin, ran, left, verdict>>

\* The image a sandbox starts from.  What was ready once is not looked at again: the bundle
\* is there for good, but podman may no longer find its image.
Image ==
    CASE runtime = "seccomp-chroot" -> bundle.content
      [] runtime = "rootless-podman" /\ imageLock.digest \in store -> imageLock.digest
      [] OTHER -> NoImage

\* What the oracle parses when the tests `printed` have reached it: one status for each
\* name, that of any of the tests that come to it.
Parses(printed, passing) ==
    {parsed \in [{NameOf[t] : t \in printed} -> BOOLEAN] :
        \A n \in DOMAIN parsed : \E t \in printed : NameOf[t] = n /\ parsed[n] = (t \in passing)}

\* What CommandExecutor returns: SUCCESS is an exit status of 0, and then every test has
\* passed; but output may be missing, whether it is flagged or not.  What a command printed
\* before it timed out plays no part.
Results(passing) ==
    {[outcome |-> "TIMEOUT", truncated |-> FALSE, parsed |-> <<>>]} \cup
    {[outcome |-> o, truncated |-> t, parsed |-> p] :
        o \in {"TEST_FAILURE"} \cup (IF passing = Tests THEN {"SUCCESS"} ELSE {}),
        t \in BOOLEAN,
        p \in UNION {Parses(printed, passing) : printed \in SUBSET Tests}}

StartAttempt(a) ==
    /\ evalPhase = "ready" /\ ran[a] = NotRun
    /\ a = "candidate" => ran["baseline"] # NotRun
    /\ evalPhase' = "running"
    /\ left' = left \cup {a}
    /\ ran' = [ran EXCEPT ![a] = [outcome |-> "started"]]
    /\ UNCHANGED <<hostVars, store, layout, bundle, imageLock, pin, verdict>>

\* The attempt in its fresh sandbox, and the cleanup after it.  A container that podman
\* could not start looks like a failing test; a rootfs that could not be prepared or removed
\* is an error of the command.
EndAttempt(a) ==
    /\ evalPhase = "running" /\ ran[a].outcome = "started"
    /\ \E result \in IF Image = NoImage
                     THEN {[outcome |-> "TEST_FAILURE", truncated |-> FALSE, parsed |-> <<>>]}
                     ELSE Results(truth[Image][a]) :
          \/ left' = left \ {a} /\ ran' = [ran EXCEPT ![a] = result]
          \/ /\ UNCHANGED left
             /\ ran' = [ran EXCEPT ![a] = [result EXCEPT !.outcome = "INTERNAL_FAILURE"]]
    /\ evalPhase' = "ready"
    /\ UNCHANGED <<hostVars, store, layout, bundle, imageLock, pin, verdict>>

-----------------------------------------------------------------------------
\* ResolutionCanaryOracle.evaluate, its conditions in their order
Evaluated(a) == ran[a].outcome \in {"SUCCESS", "TEST_FAILURE"} /\ ~ran[a].truncated
Observed(a) == Fixed \cup Kept \subseteq DOMAIN ran[a].parsed
Reproduced == /\ \A n \in Kept : ran["baseline"].parsed[n]
              /\ \A n \in Fixed : ~ran["baseline"].parsed[n]
Resolves == \A n \in Fixed \cup Kept : ran["candidate"].parsed[n]

\* Mutant: the exit status of the candidate is not looked at.
NeverContradicted == FALSE

\* candidate_exit_status_contradicts_test_evidence
Contradicted == Resolves /\ ran["candidate"].outcome # "SUCCESS"

Conclusive ==
    /\ \A a \in Attempts : Evaluated(a) /\ Observed(a)
    /\ Reproduced /\ ~Contradicted

\* The label's own words for what was observed
Resolved == IF Resolves THEN "yes" ELSE "no"

\* The result of the case, written with its evidence before the command goes on
Evaluate ==
    /\ evalPhase = "ready" /\ verdict = NoVerdict
    /\ \A a \in Attempts : ran[a] # NotRun
    /\ verdict' =
          IF ~Conclusive THEN [status |-> "FAIL", resolved |-> "none", agreement |-> "none"]
          ELSE [status |-> IF expectedLabel \in {"none", Resolved} THEN "PASS" ELSE "FAIL",
                resolved |-> Resolved,
                agreement |-> IF expectedLabel = "none" THEN "none"
                              ELSE IF expectedLabel = Resolved THEN "yes" ELSE "no"]
    /\ evalPhase' = "locked"
    /\ UNCHANGED <<hostVars, store, layout, bundle, imageLock, pin, ran, left>>

\* The command ends early: killed, or by an error before a verdict.  What it knew of the
\* attempts is lost with it; what it leaves of their sandboxes is CanaryRunner's matter.
StopEvaluation ==
    /\ evalPhase \notin {"unlocked", "locked"} /\ stops < MaxStops
    /\ stops' = stops + 1
    /\ evalPhase' = IF imageLock = NoLock THEN "unlocked" ELSE "locked"
    /\ pin' = NoImage /\ ran' = [a \in Attempts |-> NotRun] /\ left' = {}
    /\ UNCHANGED <<truth, runtime, expectedLabel, tag, store, layout, bundle, imageLock, verdict,
                   moves, mixed>>

-----------------------------------------------------------------------------
Elsewhere ==
    /\ moves < MaxMoves /\ moves' = moves + 1
    /\ UNCHANGED <<truth, runtime, expectedLabel, imageLock, evalPhase, pin, ran, left, verdict,
                   stops>>

\* Somebody pushes another image under the tag.
MoveTag ==
    /\ Elsewhere
    /\ tag' \in ImageDigests \ {tag}
    /\ UNCHANGED <<store, layout, bundle, mixed>>

\* A run of another directory locks the image that the tag points to now.
LockElsewhere ==
    /\ Elsewhere
    /\ IF runtime = "rootless-podman"
       THEN store' = store \cup {tag} /\ UNCHANGED <<layout, mixed>>
       ELSE /\ layout' = tag /\ UNCHANGED store
            /\ mixed' = (mixed \/ (evalPhase \in {"copied", "probed"} /\ layout # tag))
    /\ UNCHANGED <<tag, bundle>>

UnpackElsewhere ==
    /\ Elsewhere
    /\ bundle = NoBundle /\ layout # NoImage
    /\ bundle' = [marker |-> layout, content |-> layout]
    /\ UNCHANGED <<tag, store, layout, mixed>>

PruneImage ==
    /\ Elsewhere
    /\ store # {} /\ store' = {}
    /\ UNCHANGED <<tag, layout, bundle, mixed>>

EvaluationNext ==
    \/ InspectImage \/ CopyImage \/ PublishLock
    \/ ProbeLayout \/ Unpack \/ ProbeStore
    \/ \E a \in Attempts : StartAttempt(a) \/ EndAttempt(a)
    \/ Evaluate \/ StopEvaluation
    \/ MoveTag \/ LockElsewhere \/ UnpackElsewhere \/ PruneImage

EvaluationSpec == SandboxInit /\ [][EvaluationNext]_evalVars

-----------------------------------------------------------------------------
SandboxTypeOK ==
    /\ evalPhase \in {"unlocked", "inspected", "copied", "locked", "probed", "ready", "running"}
    /\ {tag, layout, pin, bundle.marker, bundle.content} \subseteq ImageDigests \cup {NoImage}
    /\ store \subseteq ImageDigests /\ left \subseteq Attempts
    /\ stops \in 0 .. MaxStops /\ moves \in 0 .. MaxMoves
    /\ evalPhase \in {"unlocked", "inspected", "copied"} <=> imageLock = NoLock

\* A verdict on the patch is true of the image that the lock names: a task that is said to
\* be resolved passes all of its tests, one that is said not to be fails one of them, and
\* every test to be fixed has one of its name that fails without the patch.  Lost output,
\* timeouts, failed cleanups, moving tags, pruned images and tests of one name lead to no
\* verdict instead; and no sandbox of an attempt is left behind one.  The exception is a
\* layout that another run replaced after this one copied or checked it and before the
\* next step relied on it, however the evaluation went on from there.
VerdictIsTheTasksOwn ==
    verdict.resolved # "none" /\ ~mixed =>
        LET passing == truth[imageLock.digest]
        IN  /\ verdict.resolved = "yes" <=> passing["candidate"] = Tests
            /\ \A n \in Fixed : \E t \in Tests : NameOf[t] = n /\ t \notin passing["baseline"]
            /\ left = {}
=============================================================================
