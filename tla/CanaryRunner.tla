---------------------------- MODULE CanaryRunner ----------------------------
(***************************************************************************)
(* scripts/run_resolution_canary.sh and the three nodelm commands it runs   *)
(* as active children: build-resolution-canary-workset,                     *)
(* lock-resolution-canary-images and run-resolution-canary.                 *)
(*                                                                          *)
(* Several launches of the script share one commit-bound run directory.     *)
(* Each takes the run lock on its own descriptor 9, which its children      *)
(* inherit: the lock is held while the launch or its child is alive.  The   *)
(* sandboxes that evaluation starts live in sessions of their own and do    *)
(* not hold the lock.  An operator may create and remove the stop sentinel, *)
(* signal a launch or kill one.  The input files may be replaced under a    *)
(* run at any moment, and be put back: the launch hashes them at its start  *)
(* and after each phase, its child before it reads them and before each     *)
(* link, and neither ever hears of the other's hashes.                      *)
(*                                                                          *)
(* Bash runs a trap between two commands, or inside the wait builtin: a     *)
(* signal is taken at a control location, never inside a step.  Publishing  *)
(* an artifact is one step here; module ImmutablePublish opens it up.       *)
(***************************************************************************)
EXTENDS Naturals

CONSTANTS
  Launches,   \* executions of the script over one run directory
  NumCases,   \* cases 1..NumCases of the workset, in case-id order
  Verdicts,   \* what the oracle may conclude for a case
  None,       \* no value
  Runtime,    \* "rootless-podman" or "seccomp-chroot"
  MaxInputs,  \* how many versions of the input files there are
  MaxEdits    \* bound on how often one replaces another

ASSUME RunnerAssumption ==
  /\ NumCases \in Nat \ {0}
  /\ MaxInputs \in Nat \ {0}
  /\ MaxEdits \in Nat
  /\ Runtime \in {"rootless-podman", "seccomp-chroot"}
  /\ None \notin Launches \cup Verdicts

Cases == 1..NumCases

VARIABLES
  pc,         \* control location of each launch
  phase,      \* CURRENT_PHASE of each launch
  known,      \* the launches whose ACTIVE_PID names a child
  pinned,     \* the input version each launch hashed at its start
  locked,     \* the launches whose descriptor 9 took the lock
  failure,    \* the artifacts a launch or its child failed for
  child,      \* control location of the active child of each launch
  seen,       \* the input version each child hashed
  drawn,      \* the input version each child read
  handled,    \* how many cases each child has behind it
  sandbox,    \* the sandbox session of each launch's evaluation
  runState,   \* the content of run.state
  stopFile,   \* the stop sentinel exists
  inputs,     \* the current version of the input files
  edits,      \* how often they have been replaced
  restored,   \* the launches whose inputs were put back behind their child
  workset,    \* the input version the published workset was built from
  manifest,   \* the workset version the published workset manifest binds
  imageLock,  \* the workset version the published image lock binds
  evidence,   \* the verdict in each case's published evidence
  litter,     \* temporary names in the evidence directory
  results,    \* the published results
  execution   \* the results the published execution manifest binds

control == <<pc, phase, known, pinned, locked>>
childVars == <<child, seen, drawn, handled, sandbox>>
outside == <<stopFile, inputs, edits, restored>>
published == <<workset, manifest, imageLock, evidence, litter, results, execution>>
vars == <<control, failure, childVars, runState, outside, published>>

Phases == {"preflight", "materialize", "prepare_evaluator", "pull_images", "evaluate"}
Locations == {"new", "opened", "owner", "terminal", "check_stop", "begin", "forked",
              "waiting", "require", "validate", "failing", "exiting", "stopping",
              "outwaiting", "sweeping", "swept", "ended", "killed"}
ChildLocations == {"none", "spawned", "start", "identified", "staged", "checked",
                   "workset", "bound", "cases", "baseline", "candidate", "writing",
                   "linked", "results", "ok", "bad"}
Reasons == {"none", "partial_workset", "unexpected_evidence", "collision"}

RunnerAlive(l) == pc[l] \notin {"new", "ended", "killed"}
ChildAlive(l) == child[l] \notin {"none", "ok", "bad"}

(* An open descriptor 9 of launch l still holds the flock. *)
Holds(l) == l \in locked /\ (RunnerAlive(l) \/ ChildAlive(l))

TypeOK ==
  /\ pc \in [Launches -> Locations]
  /\ phase \in [Launches -> Phases]
  /\ known \subseteq Launches
  /\ pinned \in [Launches -> 0..MaxInputs]
  /\ locked \subseteq Launches
  /\ failure \in [Launches -> Reasons]
  /\ child \in [Launches -> ChildLocations]
  /\ seen \in [Launches -> 0..MaxInputs]
  /\ drawn \in [Launches -> 0..MaxInputs]
  /\ handled \in [Launches -> 0..NumCases]
  /\ sandbox \in [Launches -> {"none", "client", "running"}]
  /\ runState \in {None} \cup
       [state : {"RUNNING", "STOPPED", "FAILED", "COMPLETE"}, pid : Launches]
  /\ stopFile \in BOOLEAN
  /\ inputs \in 1..MaxInputs
  /\ edits \in 0..MaxEdits
  /\ restored \subseteq Launches
  /\ {workset, manifest, imageLock} \subseteq 0..MaxInputs
  /\ evidence \in [Cases -> Verdicts \cup {None}]
  /\ litter \subseteq Launches \X Cases
  /\ results \in {None} \cup [Cases -> Verdicts]
  /\ execution \in {None} \cup [Cases -> Verdicts]

----------------------------------------------------------------------------
Init ==
  /\ pc = [l \in Launches |-> "new"]
  /\ phase = [l \in Launches |-> "preflight"]
  /\ known = {}
  /\ pinned = [l \in Launches |-> 0]
  /\ locked = {}
  /\ failure = [l \in Launches |-> "none"]
  /\ child = [l \in Launches |-> "none"]
  /\ seen = [l \in Launches |-> 0]
  /\ drawn = [l \in Launches |-> 0]
  /\ handled = [l \in Launches |-> 0]
  /\ sandbox = [l \in Launches |-> "none"]
  /\ runState = None
  /\ stopFile = FALSE
  /\ inputs = 1
  /\ edits = 0
  /\ restored = {}
  /\ workset = 0
  /\ manifest = 0
  /\ imageLock = 0
  /\ evidence = [c \in Cases |-> None]
  /\ litter = {}
  /\ results = None
  /\ execution = None

Goto(l, from, to) ==
  /\ pc[l] = from
  /\ pc' = [pc EXCEPT ![l] = to]

WriteState(l, state) == runState' = [state |-> state, pid |-> l]

Blame(l, reason) == failure' = [failure EXCEPT ![l] = reason]

----------------------------------------------------------------------------
(* The launch.                                                              *)

(* RUN_DIR, STATE_FILE and STOP_FILE are assigned, descriptor 9 is opened:  *)
(* from here on every exit of the launch may write run.state.               *)
Open(l) ==
  /\ Goto(l, "new", "opened")
  /\ UNCHANGED <<phase, known, pinned, locked, failure, childVars, runState, outside,
                 published>>

FlockIgnoringChildren(l) ==
  /\ Goto(l, "opened", "owner")
  /\ \A o \in Launches : ~(o \in locked /\ RunnerAlive(o))
  /\ locked' = locked \cup {l}
  /\ UNCHANGED <<phase, known, pinned, failure, childVars, runState, outside, published>>

(* flock -n 9 succeeds. *)
Flock(l) ==
  /\ Goto(l, "opened", "owner")
  /\ \A o \in Launches : ~Holds(o)
  /\ locked' = locked \cup {l}
  /\ UNCHANGED <<phase, known, pinned, failure, childVars, runState, outside, published>>

(* flock -n 9 fails: "another canary runner owns this ... run directory".   *)
FlockLost(l) ==
  /\ Goto(l, "opened", "failing")
  /\ \E o \in Launches : Holds(o)
  /\ UNCHANGED <<phase, known, pinned, locked, failure, childVars, runState, outside,
                 published>>

(* The inputs are hashed and run.state says RUNNING. *)
Preflight(l) ==
  /\ Goto(l, "owner", "terminal")
  /\ pinned' = [pinned EXCEPT ![l] = inputs]
  /\ WriteState(l, "RUNNING")
  /\ UNCHANGED <<phase, known, locked, failure, childVars, outside, published>>

InspectResultsOnly(l) ==
  /\ pc[l] = "terminal"
  /\ IF results # None
       THEN pc' = [pc EXCEPT ![l] = "exiting"] /\ WriteState(l, "COMPLETE")
       ELSE pc' = [pc EXCEPT ![l] = "check_stop"] /\ UNCHANGED runState
  /\ phase' = [phase EXCEPT ![l] = "materialize"]
  /\ UNCHANGED <<known, pinned, locked, failure, childVars, outside, published>>

(* All five terminal artifacts exist: go and validate them; otherwise start *)
(* the first phase.                                                         *)
InspectTerminal(l) ==
  LET complete == /\ execution # None
                  /\ results # None
                  /\ 0 \notin {workset, manifest, imageLock}
  IN /\ Goto(l, "terminal", IF complete THEN "validate" ELSE "check_stop")
     /\ phase' = [phase EXCEPT ![l] = IF complete THEN @ ELSE "materialize"]
     /\ UNCHANGED <<known, pinned, locked, failure, childVars, runState, outside,
                    published>>

(* check_stop: a stop sentinel ends the launch with STOPPED and status 0. *)
CheckStop(l) ==
  /\ pc[l] = "check_stop"
  /\ IF stopFile
       THEN /\ pc' = [pc EXCEPT ![l] = "exiting"]
            /\ WriteState(l, "STOPPED")
       ELSE /\ pc' = [pc EXCEPT ![l] = "begin"]
            /\ UNCHANGED runState
  /\ UNCHANGED <<phase, known, pinned, locked, failure, childVars, outside, published>>

(* The artifacts a phase is to publish are all there and consistent.        *)
PhaseDone(l) ==
  CASE phase[l] = "materialize" -> workset # 0 /\ manifest = workset
    [] phase[l] = "pull_images" -> workset # 0 /\ imageLock = workset
    [] OTHER -> FALSE

PhaseUntouched(l) ==
  CASE phase[l] = "materialize" -> workset = 0 /\ manifest = 0
    [] phase[l] = "pull_images" -> imageLock = 0
    [] OTHER -> phase[l] = "evaluate"

(* A published workset or image lock is validated and reused. *)
ReusePhase(l) ==
  /\ PhaseDone(l)
  /\ Goto(l, "begin", "require")
  /\ UNCHANGED <<phase, known, pinned, locked, failure, childVars, runState, outside,
                 published>>

(* run_active: run.state says RUNNING and setsid forks the active child. *)
SpawnChild(l) ==
  /\ PhaseUntouched(l)
  /\ Goto(l, "begin", "forked")
  /\ WriteState(l, "RUNNING")
  /\ child' = [child EXCEPT ![l] = "spawned"]
  /\ UNCHANGED <<phase, known, pinned, locked, failure, seen, drawn, handled, sandbox,
                 outside,
                 published>>

(* One of two workset artifacts, or artifacts that fail validation. *)
RefusePhase(l) ==
  /\ phase[l] \in {"materialize", "pull_images"}
  /\ ~PhaseDone(l) /\ ~PhaseUntouched(l)
  /\ Goto(l, "begin", "failing")
  /\ Blame(l, "partial_workset")
  /\ UNCHANGED <<phase, known, pinned, locked, childVars, runState, outside, published>>

(* prepare_evaluator finds or clones the pinned checkout, in the foreground. *)
PrepareEvaluator(l) ==
  /\ phase[l] = "prepare_evaluator"
  /\ Goto(l, "begin", "check_stop")
  /\ phase' = [phase EXCEPT ![l] = "pull_images"]
  /\ WriteState(l, "RUNNING")
  /\ UNCHANGED <<known, pinned, locked, failure, childVars, outside, published>>

(* ACTIVE_PID=$! and ACTIVE_PGID follow the fork as commands of their own.  *)
NoteChild(l) ==
  /\ Goto(l, "forked", "waiting")
  /\ known' = known \cup {l}
  /\ UNCHANGED <<phase, pinned, locked, failure, childVars, runState, outside, published>>

ReapSuccessOnly(l) ==
  /\ child[l] = "ok"
  /\ Goto(l, "waiting", "require")
  /\ child' = [child EXCEPT ![l] = "none"]
  /\ known' = known \ {l}
  /\ UNCHANGED <<phase, pinned, locked, failure, seen, drawn, handled, sandbox, runState,
                 outside, published>>

(* wait returns: on success ACTIVE_PID is cleared, otherwise set -e exits.  *)
Reap(l) ==
  /\ ~ChildAlive(l)
  /\ Goto(l, "waiting", IF child[l] = "ok" THEN "require" ELSE "failing")
  /\ child' = [child EXCEPT ![l] = "none"]
  /\ known' = IF child[l] = "ok" THEN known \ {l} ELSE known
  /\ UNCHANGED <<phase, pinned, locked, failure, seen, drawn, handled, sandbox, runState,
                 outside, published>>

NextPhase == [materialize |-> "prepare_evaluator", pull_images |-> "evaluate",
              evaluate |-> "evaluate"]

AfterPhase(l) == IF phase[l] = "evaluate" THEN "validate" ELSE "check_stop"

RequireNothing(l) ==
  /\ Goto(l, "require", AfterPhase(l))
  /\ phase' = [phase EXCEPT ![l] = NextPhase[@]]
  /\ UNCHANGED <<known, pinned, locked, failure, childVars, runState, outside, published>>

(* require_inputs_unchanged compares HEAD, the tree and every input with    *)
(* what the launch pinned, after each phase.                                *)
RequireInputsUnchanged(l) ==
  /\ IF inputs = pinned[l]
       THEN /\ Goto(l, "require", AfterPhase(l))
            /\ phase' = [phase EXCEPT ![l] = NextPhase[@]]
       ELSE /\ Goto(l, "require", "failing")
            /\ UNCHANGED phase
  /\ UNCHANGED <<known, pinned, locked, failure, childVars, runState, outside, published>>

(* Everything validate_terminal compares. *)
TerminalValid ==
  /\ 0 \notin {workset, manifest, imageLock}
  /\ manifest = workset
  /\ imageLock = workset
  /\ results # None
  /\ execution = results
  /\ litter = {}
  /\ evidence = results

(* validate_terminal, and COMPLETE in run.state. *)
Validate(l) ==
  /\ IF TerminalValid
       THEN /\ Goto(l, "validate", "exiting")
            /\ WriteState(l, "COMPLETE")
       ELSE /\ Goto(l, "validate", "failing")
            /\ UNCHANGED runState
  /\ UNCHANGED <<phase, known, pinned, locked, failure, childVars, outside, published>>

(* on_exit: a launch that ends STARTING or RUNNING writes FAILED. *)
WriteFailed(l) ==
  /\ Goto(l, "failing", "exiting")
  /\ WriteState(l, "FAILED")
  /\ UNCHANGED <<phase, known, pinned, locked, failure, childVars, outside, published>>

(* on_exit removes the private execution tree and the launch is over. *)
Exit(l) ==
  /\ Goto(l, "exiting", "ended")
  /\ UNCHANGED <<phase, known, pinned, locked, failure, childVars, runState, outside,
                 published>>

(* stop_active_process_group: TERM, then KILL, the group of a known child,  *)
(* and wait for it.                                                         *)
StopGroup(l) ==
  /\ l \in known => child[l] # "spawned"
  /\ Goto(l, "stopping", "sweeping")
  /\ child' = [child EXCEPT ![l] = IF l \in known THEN "none" ELSE @]
  /\ known' = known \ {l}
  /\ UNCHANGED <<phase, pinned, locked, failure, seen, drawn, handled, sandbox, runState,
                 outside, published>>

(* A known child that has not yet called setsid has no group: kill -0 fails *)
(* and nothing is signalled.                                                *)
StopMissesGroup(l) ==
  /\ l \in known /\ child[l] = "spawned"
  /\ Goto(l, "stopping", "outwaiting")
  /\ UNCHANGED <<phase, known, pinned, locked, failure, childVars, runState, outside,
                 published>>

(* ... and wait "${ACTIVE_PID}" lasts until that child ends by itself.      *)
OutwaitChild(l) ==
  /\ ~ChildAlive(l)
  /\ Goto(l, "outwaiting", "sweeping")
  /\ known' = known \ {l}
  /\ UNCHANGED <<phase, pinned, locked, failure, childVars, runState, outside, published>>

(* podman rm --force of every container that carries the canary label.      *)
SweepContainers(l) ==
  /\ Goto(l, "sweeping", "swept")
  /\ sandbox' = IF Runtime = "rootless-podman"
                  THEN [o \in Launches |-> IF sandbox[o] = "running" THEN "none"
                                                                    ELSE sandbox[o]]
                  ELSE sandbox
  /\ UNCHANGED <<phase, known, pinned, locked, failure, child, seen, drawn, handled,
                 runState,
                 outside, published>>

(* on_signal writes STOPPED and exits 130; TERM and INT are ignored by now. *)
WriteStopped(l) ==
  /\ Goto(l, "swept", "ended")
  /\ WriteState(l, "STOPPED")
  /\ UNCHANGED <<phase, known, pinned, locked, failure, childVars, outside, published>>

LaunchStep(l) ==
  \/ Open(l) \/ Flock(l) \/ FlockLost(l) \/ Preflight(l) \/ InspectTerminal(l)
  \/ CheckStop(l) \/ ReusePhase(l) \/ SpawnChild(l) \/ RefusePhase(l)
  \/ PrepareEvaluator(l) \/ NoteChild(l) \/ Reap(l) \/ RequireInputsUnchanged(l)
  \/ Validate(l) \/ WriteFailed(l) \/ Exit(l) \/ StopGroup(l) \/ StopMissesGroup(l)
  \/ OutwaitChild(l) \/ SweepContainers(l) \/ WriteStopped(l)

(* A foreground command of the launch fails (git, tar, mktemp, sha256sum).  *)
CommandFails(l) ==
  /\ pc[l] \in {"owner", "terminal", "begin", "require", "validate"}
  /\ pc' = [pc EXCEPT ![l] = "failing"]
  /\ UNCHANGED <<phase, known, pinned, locked, failure, childVars, runState, outside,
                 published>>

(* TERM or INT: the trap runs on_signal, which ignores further signals.     *)
Signal(l) ==
  /\ pc[l] \in {"opened", "owner", "terminal", "check_stop", "begin", "forked", "waiting",
                "require", "validate", "failing", "exiting"}
  /\ pc' = [pc EXCEPT ![l] = "stopping"]
  /\ UNCHANGED <<phase, known, pinned, locked, failure, childVars, runState, outside,
                 published>>

(* KILL, or the shell crashes: its child lives on. *)
Kill(l) ==
  /\ RunnerAlive(l)
  /\ pc' = [pc EXCEPT ![l] = "killed"]
  /\ UNCHANGED <<phase, known, pinned, locked, failure, childVars, runState, outside,
                 published>>

----------------------------------------------------------------------------
(* The active child.                                                        *)

At(l, from, to) ==
  /\ child[l] = from
  /\ child' = [child EXCEPT ![l] = to]

(* setsid(2): the child leads a session and group of its own. *)
Setsid(l) ==
  /\ At(l, "spawned", "start")
  /\ handled' = [handled EXCEPT ![l] = 0]
  /\ UNCHANGED <<control, failure, seen, drawn, sandbox, runState, outside, published>>

(* build-resolution-canary-workset hashes its inputs. *)
IdentifyInputs(l) ==
  /\ phase[l] = "materialize"
  /\ At(l, "start", "identified")
  /\ seen' = [seen EXCEPT ![l] = inputs]
  /\ UNCHANGED <<control, failure, drawn, handled, sandbox, runState, outside, published>>

(* It then reads them, the recovery's artifacts in place, and computes the  *)
(* workset.                                                                 *)
ReadInputs(l) ==
  /\ At(l, "identified", "staged")
  /\ drawn' = [drawn EXCEPT ![l] = inputs]
  /\ UNCHANGED <<control, failure, seen, handled, sandbox, runState, outside, published>>

(* The hook before a link finds the inputs as hashed: verify_inputs for the *)
(* workset, verify_manifest_boundary for the manifest.                      *)
VerifyInputs(l) ==
  /\ inputs = seen[l]
  /\ At(l, "staged", "checked") \/ At(l, "workset", "bound")
  /\ UNCHANGED <<control, failure, seen, drawn, handled, sandbox, runState, outside,
                 published>>

(* A hook finds other inputs and raises. *)
RefuseInputs(l) ==
  /\ child[l] \in {"staged", "workset"}
  /\ inputs # seen[l]
  /\ child' = [child EXCEPT ![l] = "bad"]
  /\ UNCHANGED <<control, failure, seen, drawn, handled, sandbox, runState, outside,
                 published>>

(* The workset is linked. *)
PublishWorkset(l) ==
  /\ workset = 0
  /\ At(l, "checked", "workset")
  /\ workset' = drawn[l]
  /\ UNCHANGED <<control, failure, seen, drawn, handled, sandbox, runState, outside,
                 manifest,
                 imageLock, evidence, litter, results, execution>>

(* The manifest that binds it is linked. *)
PublishManifest(l) ==
  /\ At(l, "bound", "ok")
  /\ manifest' = workset
  /\ UNCHANGED <<control, failure, seen, drawn, handled, sandbox, runState, outside,
                 workset,
                 imageLock, evidence, litter, results, execution>>

(* lock-resolution-canary-images resolves the digests and publishes a lock  *)
(* that binds the workset.                                                  *)
PublishImageLock(l) ==
  /\ phase[l] = "pull_images"
  /\ manifest = workset
  /\ At(l, "start", "ok")
  /\ imageLock' = workset
  /\ UNCHANGED <<control, failure, seen, drawn, handled, sandbox, runState, outside,
                 workset,
                 manifest, evidence, litter, results, execution>>

(* run-resolution-canary checks the chain of bindings and the entries of    *)
(* the evidence directory.                                                  *)
LoadEvidence(l) ==
  /\ phase[l] = "evaluate"
  /\ manifest = workset /\ imageLock = workset
  /\ litter = {}
  /\ At(l, "start", "cases")
  /\ UNCHANGED <<control, failure, seen, drawn, handled, sandbox, runState, outside,
                 published>>

RefuseEvidence(l) ==
  /\ phase[l] = "evaluate"
  /\ litter # {}
  /\ At(l, "start", "bad")
  /\ Blame(l, "unexpected_evidence")
  /\ UNCHANGED <<control, seen, drawn, handled, sandbox, runState, outside, published>>

(* The case the child looks at. *)
CaseOf(l) == handled[l] + 1

(* A case with published evidence is not run again. *)
ReuseEvidence(l) ==
  /\ child[l] = "cases"
  /\ CaseOf(l) \in Cases
  /\ evidence[CaseOf(l)] # None
  /\ handled' = [handled EXCEPT ![l] = @ + 1]
  /\ UNCHANGED <<control, failure, child, seen, drawn, sandbox, runState, outside,
                 published>>

RunBaselineAlways(l) ==
  /\ CaseOf(l) \in Cases
  /\ At(l, "cases", "baseline")
  /\ sandbox' = [sandbox EXCEPT ![l] = "client"]
  /\ UNCHANGED <<control, failure, seen, drawn, handled, runState, outside, published>>

(* sandbox.run without the model patch, in a session of its own. *)
RunBaseline(l) ==
  /\ CaseOf(l) \in Cases
  /\ evidence[CaseOf(l)] = None
  /\ At(l, "cases", "baseline")
  /\ sandbox' = [sandbox EXCEPT ![l] = "client"]
  /\ UNCHANGED <<control, failure, seen, drawn, handled, runState, outside, published>>

(* The baseline is over: sandbox.run with the model patch. *)
RunCandidate(l) ==
  /\ sandbox[l] = "none"
  /\ At(l, "baseline", "candidate")
  /\ sandbox' = [sandbox EXCEPT ![l] = "client"]
  /\ UNCHANGED <<control, failure, seen, drawn, handled, runState, outside, published>>

(* oracle.evaluate, then the temporary evidence file is opened. *)
OpenEvidence(l) ==
  /\ sandbox[l] = "none"
  /\ At(l, "candidate", "writing")
  /\ litter' = litter \cup {<<l, CaseOf(l)>>}
  /\ UNCHANGED <<control, failure, seen, drawn, handled, sandbox, runState, outside,
                 workset,
                 manifest, imageLock, evidence, results, execution>>

(* The evidence is linked with the oracle's verdict; evidence in the way is *)
(* reused when equal and a collision otherwise.                             *)
LinkEvidence(l, v) ==
  LET c == CaseOf(l)
      clash == evidence[c] \notin {None, v}
  IN /\ child[l] = "writing"
     /\ child' = [child EXCEPT ![l] = IF clash THEN "bad" ELSE "linked"]
     /\ evidence' = [evidence EXCEPT ![c] = IF @ = None THEN v ELSE @]
     /\ litter' = IF clash THEN litter \ {<<l, c>>} ELSE litter
     /\ failure' = [failure EXCEPT ![l] = IF clash THEN "collision" ELSE @]
     /\ UNCHANGED <<control, seen, drawn, handled, sandbox, runState, outside, workset,
                    manifest,
                    imageLock, results, execution>>

UnlinkAndSkip(l) ==
  /\ At(l, "linked", "cases")
  /\ litter' = litter \ {<<l, CaseOf(l)>>}
  /\ handled' = [handled EXCEPT ![l] = @ + 2]
  /\ UNCHANGED <<control, failure, seen, drawn, sandbox, runState, outside, workset,
                 manifest,
                 imageLock, evidence, results, execution>>

(* The temporary name is unlinked and the next case is up. *)
UnlinkEvidence(l) ==
  /\ At(l, "linked", "cases")
  /\ litter' = litter \ {<<l, CaseOf(l)>>}
  /\ handled' = [handled EXCEPT ![l] = @ + 1]
  /\ UNCHANGED <<control, failure, seen, drawn, sandbox, runState, outside, workset,
                 manifest,
                 imageLock, evidence, results, execution>>

(* Every case is behind: the results are published, or found equal to what  *)
(* is there, or they collide with it.                                       *)
PublishResults(l) ==
  LET clash == results \notin {None, evidence}
  IN /\ handled[l] = NumCases
     /\ At(l, "cases", IF clash THEN "bad" ELSE "results")
     /\ results' = IF results = None THEN evidence ELSE results
     /\ failure' = [failure EXCEPT ![l] = IF clash THEN "collision" ELSE @]
     /\ UNCHANGED <<control, seen, drawn, handled, sandbox, runState, outside, workset,
                    manifest, imageLock, evidence, litter, execution>>

(* verify_manifest_boundary, then the execution manifest, last. *)
PublishExecution(l) ==
  /\ At(l, "results", "ok")
  /\ execution' = results
  /\ UNCHANGED <<control, failure, seen, drawn, handled, sandbox, runState, outside,
                 workset,
                 manifest, imageLock, evidence, litter, results>>

ChildStep(l) ==
  \/ Setsid(l) \/ IdentifyInputs(l) \/ ReadInputs(l) \/ VerifyInputs(l) \/ RefuseInputs(l)
  \/ PublishWorkset(l) \/ PublishManifest(l) \/ PublishImageLock(l)
  \/ LoadEvidence(l) \/ RefuseEvidence(l) \/ ReuseEvidence(l)
  \/ RunBaseline(l) \/ RunCandidate(l) \/ OpenEvidence(l) \/ UnlinkEvidence(l)
  \/ \E v \in Verdicts : LinkEvidence(l, v)
  \/ PublishResults(l) \/ PublishExecution(l)

(* The child raises: a check it makes fails, or the environment does.  Its  *)
(* finally blocks remove the sandbox and the temporary file.                *)
ChildRaises(l) ==
  /\ ChildAlive(l)
  /\ child' = [child EXCEPT ![l] = "bad"]
  /\ sandbox' = [sandbox EXCEPT ![l] = "none"]
  /\ litter' = litter \ {<<l, CaseOf(l)>>}
  /\ UNCHANGED <<control, failure, seen, drawn, handled, runState, outside, workset,
                 manifest,
                 imageLock, evidence, results, execution>>

(* The child is killed: no finally block runs. *)
ChildKilled(l) ==
  /\ ChildAlive(l)
  /\ child' = [child EXCEPT ![l] = "bad"]
  /\ UNCHANGED <<control, failure, seen, drawn, handled, sandbox, runState, outside,
                 published>>

(* The client process has its container created. *)
SandboxCreated(l) ==
  /\ sandbox[l] = "client"
  /\ sandbox' = [sandbox EXCEPT ![l] = "running"]
  /\ UNCHANGED <<control, failure, child, seen, drawn, handled, runState, outside,
                 published>>

(* The sandbox ends by itself, or its own child times it out and removes it. *)
SandboxEnds(l) ==
  /\ sandbox[l] = "running"
  /\ sandbox' = [sandbox EXCEPT ![l] = "none"]
  /\ UNCHANGED <<control, failure, child, seen, drawn, handled, runState, outside,
                 published>>

----------------------------------------------------------------------------
(* The operator and the environment.                                        *)

ToggleStop ==
  /\ stopFile' = ~stopFile
  /\ UNCHANGED <<control, failure, childVars, runState, inputs, edits, restored, published>>

(* The launches whose pinned inputs the version is, and whose child, in the *)
(* phase that reads them, hashed its inputs before it came back.            *)
PutBackBehind(version) ==
  {l \in Launches : pinned[l] = version /\ seen[l] # 0 /\ phase[l] = "materialize"}

(* Input files are replaced: by something new, or by what was there before. *)
InputsChange ==
  /\ edits < MaxEdits
  /\ edits' = edits + 1
  /\ inputs' \in (1..MaxInputs) \ {inputs}
  /\ restored' = restored \cup PutBackBehind(inputs')
  /\ UNCHANGED <<control, failure, childVars, runState, stopFile, published>>

Next ==
  \/ \E l \in Launches :
       \/ LaunchStep(l) \/ CommandFails(l) \/ Signal(l) \/ Kill(l)
       \/ ChildStep(l) \/ ChildRaises(l) \/ ChildKilled(l)
       \/ SandboxCreated(l) \/ SandboxEnds(l)
  \/ ToggleStop
  \/ InputsChange

Spec == Init /\ [][Next]_vars

(* A live launch and a live child run on, and a sandbox is bounded by the   *)
(* timeout of the child that waits for it.  Nothing bounds the sandbox of a *)
(* dead child.                                                              *)
SandboxStep(l) == ChildAlive(l) /\ (SandboxCreated(l) \/ SandboxEnds(l))

FairSpec ==
  /\ Spec
  /\ \A l \in Launches :
       /\ WF_vars(pc[l] # "new" /\ LaunchStep(l))
       /\ WF_vars(ChildStep(l))
       /\ WF_vars(SandboxStep(l))

----------------------------------------------------------------------------
(* The children of at most one launch ever publish into the run directory,  *)
(* and no launch goes past the lock while another launch's child, orphaned  *)
(* by a signal or a kill, is still alive (exec 9> and flock -n 9, with      *)
(* descriptor 9 inherited by the active child).                             *)
OneWriter ==
  \A l, o \in Launches :
    l # o => ~(Holds(l) /\ Holds(o)) /\ ~(ChildAlive(l) /\ ChildAlive(o))

(* COMPLETE in run.state means the whole chain of artifacts is there, each  *)
(* bound to the one before it, with exactly one piece of evidence per case  *)
(* and no stray entry ("Terminal COMPLETE means all artifacts ...           *)
(* validated").                                                             *)
CompleteMeansWhole ==
  runState # None /\ runState.state = "COMPLETE" => TerminalValid

(* A launch whose child built the workset, and that got past the phase, has *)
(* the workset of what that child read, and that is of the inputs which the *)
(* launch had hashed at its start, although the child hashes and reads them *)
(* later, each at its own time, and they may be replaced in between.  One   *)
(* way is open: the inputs are others when the child reads them and are put *)
(* back behind it, before the next check, so that every check of either     *)
(* compares like with like.                                                 *)
OnlyRestoredInputsEscape ==
  \A l \in Launches :
    /\ seen[l] # 0
    /\ pc[l] \in {"check_stop", "begin", "validate"}
    => /\ workset = drawn[l]
       /\ l \notin restored => workset = pinned[l]

(* However often launches are interrupted and repeated, no child ever meets *)
(* other evidence or other results than its own: completed cases are reused *)
(* and not run again, whatever verdict a second run would have given.       *)
RestartsNeverCollide ==
  \A l \in Launches : failure[l] # "collision"

(* Once a launch has the lock, the lock is eventually free again: every     *)
(* launch ends, and so does a child that outlives its launch.               *)
LockIsFreed ==
  \A l \in Launches : Holds(l) ~> ~Holds(l)

----------------------------------------------------------------------------
(* What the runbook says of an interrupted run, and the code does not do.   *)

(* While a launch waits for its child, run.state holds the pid to signal    *)
(* ("read pid= from run.state and send TERM; the runner stops its active    *)
(* process group"): the exit of a lock loser must not overwrite it.         *)
RunStateNamesOwner ==
  \A l \in Launches : pc[l] = "waiting" => runState.pid = l

(* A launch never refuses the workset an interrupted launch left            *)
(* ("Workset and image-lock publication are also safely reusable after an   *)
(* interruption").                                                          *)
WorksetSurvivesInterruption ==
  \A l \in Launches : failure[l] # "partial_workset"

(* A launch never refuses the evidence an interrupted launch left ("a       *)
(* same-commit restart reuses completed cases").                            *)
EvidenceSurvivesInterruption ==
  \A l \in Launches : failure[l] # "unexpected_evidence"

(* STOPPED after a signal means that a launch which stopped its child left  *)
(* no sandbox of it running ("the runner stops its active process group,    *)
(* cleans the active sandbox, and records STOPPED").                        *)
StoppedCleansSandbox ==
  \A l \in Launches :
    /\ pc[l] = "ended"
    /\ runState = [state |-> "STOPPED", pid |-> l]
    /\ child[l] = "none"
    => sandbox[l] = "none"
=============================================================================
