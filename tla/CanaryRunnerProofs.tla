------------------------- MODULE CanaryRunnerProofs -------------------------
(* Proofs about CanaryRunner: the run lock keeps every launch and every     *)
(* child but one out of the run directory, for any number of launches.      *)
EXTENDS CanaryRunner, TLAPS

(* The part of the type invariant the lock depends on. *)
ControlOK ==
  /\ pc \in [Launches -> Locations]
  /\ child \in [Launches -> ChildLocations]
  /\ locked \subseteq Launches

PastLock == {"owner", "terminal", "check_stop", "begin", "forked", "waiting", "require",
             "validate"}

(* Nobody starts a child or goes past the lock without having taken it. *)
LockFirst ==
  \A l \in Launches :
    /\ pc[l] = "new" => l \notin locked
    /\ pc[l] \in PastLock => l \in locked
    /\ child[l] # "none" => l \in locked

OneHolder == \A l, o \in Launches : l # o => ~(Holds(l) /\ Holds(o))

IInv == ControlOK /\ LockFirst /\ OneHolder

----------------------------------------------------------------------------
LEMMA Initially == Init => IInv
BY DEF Init, IInv, ControlOK, Locations, ChildLocations, LockFirst, PastLock, OneHolder,
       Holds

(* Descriptors are only closed: a launch that did not hold the lock still   *)
(* does not.                                                                *)
NoNewHolder == \A l \in Launches : Holds(l)' => Holds(l)

LEMMA HoldersShrink ==
  ASSUME OneHolder, NoNewHolder
  PROVE  OneHolder'
BY DEF OneHolder, NoNewHolder

(* The steps of a launch before it has the lock, and the flock itself.      *)
LEMMA OpenStep ==
  ASSUME IInv, NEW l \in Launches, Open(l) \/ FlockLost(l)
  PROVE  IInv'
<1> USE DEF IInv
<1>1. ControlOK'
  BY DEF ControlOK, Locations, Open, FlockLost, Goto, childVars
<1>2. LockFirst'
  BY DEF ControlOK, LockFirst, PastLock, Open, FlockLost, Goto, childVars
<1>3. NoNewHolder
  BY DEF ControlOK, LockFirst, PastLock, NoNewHolder, Holds, RunnerAlive, ChildAlive,
     Open, FlockLost, Goto, childVars
<1> QED BY <1>1, <1>2, <1>3, HoldersShrink

LEMMA FlockStep ==
  ASSUME IInv, NEW l \in Launches, Flock(l)
  PROVE  IInv'
<1> USE DEF IInv
<1>1. ControlOK'
  BY DEF ControlOK, Locations, Flock, Goto, childVars
<1>2. LockFirst'
  BY DEF ControlOK, LockFirst, PastLock, Flock, Goto, childVars
<1>3. \A o \in Launches : o # l => ~Holds(o)'
  BY DEF ControlOK, Holds, RunnerAlive, ChildAlive, Flock, Goto, childVars
<1>4. OneHolder'
  BY <1>3 DEF OneHolder
<1> QED BY <1>1, <1>2, <1>4

(* The other steps of a launch move it within the locations past the lock,  *)
(* or out of them.                                                          *)
LEMMA OwnerStep ==
  ASSUME IInv, NEW l \in Launches,
         \/ Preflight(l) \/ InspectTerminal(l) \/ CheckStop(l) \/ ReusePhase(l)
         \/ RefusePhase(l) \/ PrepareEvaluator(l) \/ NoteChild(l)
         \/ RequireInputsUnchanged(l) \/ Validate(l)
  PROVE  IInv'
<1> USE DEF IInv
<1>1. /\ pc[l] \in PastLock
      /\ \E to \in Locations \ {"new"} : pc' = [pc EXCEPT ![l] = to]
      /\ UNCHANGED <<child, locked>>
  BY DEF PastLock, Locations, Preflight, InspectTerminal, CheckStop, ReusePhase,
     RefusePhase, PrepareEvaluator, NoteChild, RequireInputsUnchanged, Validate,
     AfterPhase, Goto, childVars
<1>2. ControlOK'
  BY <1>1 DEF ControlOK
<1>3. LockFirst'
  BY <1>1 DEF ControlOK, LockFirst
<1>4. NoNewHolder
  BY <1>1 DEF ControlOK, LockFirst, NoNewHolder, Holds, RunnerAlive, ChildAlive,
     PastLock
<1> QED BY <1>2, <1>3, <1>4, HoldersShrink

(* Ending, failing and being signalled: locations that need no lock.        *)
LEMMA EndingStep ==
  ASSUME IInv, NEW l \in Launches,
         \/ WriteFailed(l) \/ Exit(l) \/ StopMissesGroup(l) \/ OutwaitChild(l)
         \/ SweepContainers(l) \/ WriteStopped(l) \/ CommandFails(l) \/ Signal(l) \/ Kill(l)
  PROVE  IInv'
<1> USE DEF IInv
<1>1. /\ RunnerAlive(l)
      /\ \E to \in Locations \ ({"new"} \cup PastLock) : pc' = [pc EXCEPT ![l] = to]
      /\ UNCHANGED <<child, locked>>
  BY DEF RunnerAlive, PastLock, Locations, WriteFailed, Exit, StopMissesGroup,
     OutwaitChild, SweepContainers, WriteStopped, CommandFails, Signal, Kill, Goto,
     childVars
<1>2. ControlOK'
  BY <1>1 DEF ControlOK
<1>3. LockFirst'
  BY <1>1 DEF ControlOK, LockFirst, RunnerAlive
<1>4. NoNewHolder
  BY <1>1 DEF ControlOK, NoNewHolder, Holds, RunnerAlive, ChildAlive
<1> QED BY <1>2, <1>3, <1>4, HoldersShrink

(* A launch forks, reaps or kills its child. *)
LEMMA ForkStep ==
  ASSUME IInv, NEW l \in Launches, SpawnChild(l) \/ Reap(l) \/ StopGroup(l)
  PROVE  IInv'
<1> USE DEF IInv
<1>1. /\ RunnerAlive(l)
      /\ pc[l] \in {"begin", "waiting", "stopping"}
      /\ pc[l] = "stopping" => pc' = [pc EXCEPT ![l] = "sweeping"]
      /\ \E to \in {"forked", "require", "failing", "sweeping"} : pc' = [pc EXCEPT ![l] = to]
      /\ \E to \in ChildLocations :
           /\ child' = [child EXCEPT ![l] = to]
           /\ pc[l] = "stopping" => to \in {"none", child[l]}
      /\ UNCHANGED locked
  BY DEF RunnerAlive, ControlOK, ChildLocations, SpawnChild, Reap, StopGroup, Goto
<1>2. ControlOK'
  BY <1>1 DEF ControlOK, Locations
<1>3. LockFirst'
  BY <1>1 DEF ControlOK, LockFirst, PastLock
<1>4. NoNewHolder
  BY <1>1 DEF ControlOK, NoNewHolder, Holds, RunnerAlive, ChildAlive
<1> QED BY <1>2, <1>3, <1>4, HoldersShrink

(* A live child moves or ends. *)
LEMMA ChildMoves ==
  ASSUME IInv, NEW l \in Launches,
         ChildStep(l) \/ ChildRaises(l) \/ ChildKilled(l)
  PROVE  IInv'
<1> USE DEF IInv
<1>1. /\ ChildAlive(l)
      /\ UNCHANGED <<pc, locked>>
      /\ \/ UNCHANGED child
         \/ \E to \in ChildLocations \ {"none"} : child' = [child EXCEPT ![l] = to]
  <2>1. CASE Setsid(l) \/ IdentifyInputs(l) \/ ReadInputs(l) \/ VerifyInputs(l)
             \/ RefuseInputs(l) \/ PublishWorkset(l) \/ PublishManifest(l)
             \/ PublishImageLock(l)
    BY <2>1 DEF Setsid, IdentifyInputs, ReadInputs, VerifyInputs, RefuseInputs,
                PublishWorkset, PublishManifest, PublishImageLock, At, ChildAlive,
                ChildLocations, control
  <2>2. CASE LoadEvidence(l) \/ RefuseEvidence(l) \/ ReuseEvidence(l) \/ RunBaseline(l)
             \/ RunCandidate(l) \/ OpenEvidence(l)
    BY <2>2 DEF LoadEvidence, RefuseEvidence, ReuseEvidence, RunBaseline, RunCandidate,
                OpenEvidence, At, ChildAlive, ChildLocations, control
  <2>3. CASE UnlinkEvidence(l) \/ PublishResults(l) \/ PublishExecution(l)
             \/ \E v \in Verdicts : LinkEvidence(l, v)
    BY <2>3 DEF UnlinkEvidence, PublishResults, PublishExecution, LinkEvidence, At,
                ChildAlive, ChildLocations, control
  <2>4. CASE ChildRaises(l) \/ ChildKilled(l)
    BY <2>4 DEF ChildRaises, ChildKilled, ChildLocations, control
  <2> QED BY <2>1, <2>2, <2>3, <2>4 DEF ChildStep
<1>2. ControlOK'
  BY <1>1 DEF ControlOK
<1>3. LockFirst'
  BY <1>1 DEF ControlOK, LockFirst, ChildAlive
<1>4. NoNewHolder
  BY <1>1 DEF ControlOK, NoNewHolder, Holds, RunnerAlive, ChildAlive
<1> QED BY <1>2, <1>3, <1>4, HoldersShrink

(* Steps that touch no control location. *)
LEMMA OutsideStep ==
  ASSUME IInv, UNCHANGED <<pc, child, locked>>
  PROVE  IInv'
BY DEF IInv, ControlOK, LockFirst, OneHolder, Holds, RunnerAlive, ChildAlive

THEOREM Invariance == Spec => []IInv
<1>1. Init => IInv
  BY Initially
<1>2. IInv /\ [Next]_vars => IInv'
  <2> SUFFICES ASSUME IInv, [Next]_vars PROVE IInv'
    OBVIOUS
  <2>1. ASSUME NEW l \in Launches, LaunchStep(l) PROVE IInv'
    BY <2>1, OpenStep, FlockStep, OwnerStep, EndingStep, ForkStep DEF LaunchStep
  <2>2. ASSUME NEW l \in Launches, CommandFails(l) \/ Signal(l) \/ Kill(l) PROVE IInv'
    BY <2>2, EndingStep
  <2>3. ASSUME NEW l \in Launches, ChildStep(l) \/ ChildRaises(l) \/ ChildKilled(l)
        PROVE  IInv'
    BY <2>3, ChildMoves
  <2>4. ASSUME NEW l \in Launches, SandboxCreated(l) \/ SandboxEnds(l) PROVE IInv'
    BY <2>4, OutsideStep DEF SandboxCreated, SandboxEnds, control
  <2>5. CASE ToggleStop \/ InputsChange
    BY <2>5, OutsideStep DEF ToggleStop, InputsChange, control, childVars
  <2>6. CASE UNCHANGED vars
    BY <2>6, OutsideStep DEF vars, control, childVars
  <2> QED BY <2>1, <2>2, <2>3, <2>4, <2>5, <2>6 DEF Next
<1> QED BY <1>1, <1>2, PTL DEF Spec

(* At most one launch holds the run directory, and at most one child, of    *)
(* whatever launch, is alive to publish into it, through every signal, kill *)
(* and orphaned child: descriptor 9 is inherited by the child.              *)
THEOREM RunDirectoryHasOneWriter == Spec => []OneWriter
<1>1. IInv => OneWriter
  BY DEF IInv, LockFirst, OneHolder, OneWriter, Holds, ChildAlive
<1> QED BY <1>1, Invariance, PTL

----------------------------------------------------------------------------
(* What the children and the launches have settled by each control          *)
(* location.                                                                *)

Childless == {"new", "opened", "owner", "terminal", "check_stop", "begin", "require",
              "validate"}
Evaluating == {"cases", "baseline", "candidate", "oracle", "writing", "linked", "results"}
OnCase == {"baseline", "candidate", "writing"}
PhaseOfChild == {"materialize", "pull_images", "evaluate"}
Building == {"identified", "staged", "checked", "workset", "bound"}

(* A launch has no child between two of its phases. *)
ChildInPlace ==
  \A l \in Launches :
    /\ pc[l] \in Childless => child[l] = "none"
    /\ child[l] \in Building => phase[l] = "materialize"
    /\ child[l] \in Evaluating => phase[l] = "evaluate"
    /\ pc[l] \in {"forked", "waiting", "require"} => phase[l] \in PhaseOfChild

(* Every case a child has behind it has evidence, the case it works on has  *)
(* none until the child links its own.                                      *)
EvidenceInOrder ==
  \A l \in Launches :
    /\ \A c \in 1..handled[l] : evidence[c] # None
    /\ child[l] \in OnCase \cup {"linked"} => CaseOf(l) \in Cases
    /\ child[l] \in OnCase => evidence[CaseOf(l)] = None
    /\ child[l] = "linked" => evidence[CaseOf(l)] # None

ResultsAreEvidence == results # None => results = evidence

(* A child hashes and reads the inputs that its launch has pinned, unless   *)
(* they are others by now, which the launch finds at the end of the phase,  *)
(* or have been put back.                                                   *)
AsPinned(l) ==
  \/ l \in restored
  \/ inputs # pinned[l] /\ phase[l] = "materialize"
  \/ {seen[l], drawn[l]} \subseteq {0, pinned[l]}

InputsInOrder ==
  \A l \in Launches :
    /\ AsPinned(l)
    /\ pc[l] \in {"new", "opened", "owner", "terminal"} => seen[l] = 0
    /\ seen[l] = 0 => drawn[l] = 0
    /\ child[l] \in Building => seen[l] # 0
    /\ child[l] \in Building \ {"identified"} => drawn[l] # 0

(* The workset is the one this launch's child built. *)
Built(l) == workset = drawn[l] /\ drawn[l] # 0

Settled(l) == seen[l] # 0 => Built(l) /\ (l \in restored \/ workset = pinned[l])

WorksetInOrder ==
  \A l \in Launches :
    /\ pc[l] \in {"check_stop", "begin", "validate"} => Settled(l)
    /\ pc[l] \in {"forked", "waiting", "require"} /\ phase[l] # "materialize" => Settled(l)
    /\ pc[l] = "require" /\ seen[l] # 0 => Built(l)
    /\ child[l] \in {"workset", "bound"} => Built(l)
    /\ child[l] = "ok" /\ pc[l] \in {"forked", "waiting"} /\ seen[l] # 0 => Built(l)

RunnerInv ==
  /\ TypeOK /\ IInv /\ ChildInPlace
  /\ EvidenceInOrder /\ ResultsAreEvidence
  /\ InputsInOrder /\ WorksetInOrder
  /\ CompleteMeansWhole /\ RestartsNeverCollide

----------------------------------------------------------------------------
(* The steps by what they can disturb.                                      *)

Passes(l) ==
  \/ Open(l) \/ Flock(l) \/ FlockLost(l) \/ Preflight(l) \/ InspectTerminal(l)
  \/ CheckStop(l) \/ ReusePhase(l) \/ RefusePhase(l) \/ PrepareEvaluator(l)
  \/ NoteChild(l) \/ RequireInputsUnchanged(l) \/ Validate(l)

Ends(l) ==
  \/ WriteFailed(l) \/ Exit(l) \/ StopMissesGroup(l) \/ OutwaitChild(l)
  \/ SweepContainers(l) \/ WriteStopped(l) \/ CommandFails(l) \/ Signal(l) \/ Kill(l)

Forks(l) == SpawnChild(l) \/ Reap(l) \/ StopGroup(l)

Builds(l) ==
  \/ Setsid(l) \/ IdentifyInputs(l) \/ ReadInputs(l) \/ VerifyInputs(l) \/ RefuseInputs(l)
  \/ PublishWorkset(l) \/ PublishManifest(l) \/ PublishImageLock(l)

Evaluates(l) ==
  \/ LoadEvidence(l) \/ RefuseEvidence(l) \/ ReuseEvidence(l) \/ RunBaseline(l)
  \/ RunCandidate(l) \/ OpenEvidence(l) \/ UnlinkEvidence(l)
  \/ \E v \in Verdicts : LinkEvidence(l, v)
  \/ PublishResults(l) \/ PublishExecution(l)

Fails(l) == ChildRaises(l) \/ ChildKilled(l) \/ SandboxCreated(l) \/ SandboxEnds(l)

Around == ToggleStop \/ InputsChange

LEMMA StepsAreGrouped ==
  ASSUME Next
  PROVE  \/ \E l \in Launches : \/ Passes(l) \/ Ends(l) \/ Forks(l)
                                \/ Builds(l) \/ Evaluates(l) \/ Fails(l)
         \/ Around
BY DEF Next, LaunchStep, ChildStep, Passes, Ends, Forks, Builds, Evaluates, Fails,
   Around

(* What a launch does by itself touches neither the children nor what they  *)
(* publish, and a step that ends it leaves what it recorded alone.          *)
LEMMA PassesEffect ==
  ASSUME NEW l \in Launches, Passes(l)
  PROVE  UNCHANGED <<childVars, outside, published>>
BY DEF Passes, Open, Flock, FlockLost, Preflight, InspectTerminal, CheckStop,
   ReusePhase, RefusePhase, PrepareEvaluator, NoteChild, RequireInputsUnchanged,
   Validate

LEMMA EndsEffect ==
  ASSUME TypeOK, NEW l \in Launches, Ends(l)
  PROVE  /\ \E to \in {"exiting", "ended", "outwaiting", "sweeping", "swept", "failing",
                       "stopping", "killed"} : pc' = [pc EXCEPT ![l] = to]
         /\ known' \in {known, known \ {l}}
         /\ \/ UNCHANGED runState
            \/ WriteState(l, "FAILED") \/ WriteState(l, "STOPPED")
         /\ sandbox' \in [Launches -> {"none", "client", "running"}]
         /\ UNCHANGED <<phase, pinned, locked, failure, child, seen, drawn, handled, outside,
                        published>>
<1>1. CASE Exit(l) \/ StopMissesGroup(l) \/ OutwaitChild(l) \/ WriteFailed(l)
  BY <1>1 DEF TypeOK, Exit, StopMissesGroup, OutwaitChild, WriteFailed, Goto, childVars
<1>2. CASE CommandFails(l) \/ Signal(l) \/ Kill(l) \/ WriteStopped(l)
  BY <1>2 DEF TypeOK, CommandFails, Signal, Kill, WriteStopped, Goto, childVars
<1>3. CASE SweepContainers(l)
  BY <1>3 DEF TypeOK, SweepContainers, Goto, childVars
<1> QED BY <1>1, <1>2, <1>3 DEF Ends

----------------------------------------------------------------------------
(* Each conjunct of the invariant. *)

LEMMA ChildStaysInPlace ==
  ASSUME RunnerInv, Next
  PROVE  ChildInPlace'
<1> USE DEF RunnerInv, ChildInPlace
<1>1. ASSUME NEW l \in Launches, Passes(l) PROVE ChildInPlace'
  <2>1. UNCHANGED <<child>>
    BY <1>1, PassesEffect DEF childVars
  <2>2. CASE Open(l) \/ Flock(l) \/ FlockLost(l) \/ Preflight(l) \/ InspectTerminal(l)
             \/ CheckStop(l)
    BY <2>1, <2>2 DEF TypeOK, Open, Flock, FlockLost, Preflight, InspectTerminal,
       CheckStop, Goto, Childless, Building, Evaluating
  <2>3. CASE ReusePhase(l) \/ RefusePhase(l) \/ PrepareEvaluator(l) \/ NoteChild(l)
    BY <2>1, <2>3 DEF TypeOK, ReusePhase, PhaseDone, RefusePhase, PrepareEvaluator,
       NoteChild, Goto, Childless, Building, Evaluating, PhaseOfChild
  <2>4. CASE RequireInputsUnchanged(l) \/ Validate(l)
    BY <2>1, <2>4 DEF TypeOK, RequireInputsUnchanged, Validate, AfterPhase, Goto,
       Childless, Building, Evaluating
  <2> QED BY <1>1, <2>2, <2>3, <2>4 DEF Passes
<1>2. ASSUME NEW l \in Launches, Ends(l) PROVE ChildInPlace'
  BY <1>2, EndsEffect DEF TypeOK, Childless
<1>3. ASSUME NEW l \in Launches, Forks(l) PROVE ChildInPlace'
  BY <1>3 DEF TypeOK, Forks, SpawnChild, Reap, StopGroup, PhaseUntouched, Goto,
     Childless, Building, Evaluating, PhaseOfChild
<1>4. ASSUME NEW l \in Launches, Builds(l) PROVE ChildInPlace'
  BY <1>4 DEF TypeOK, Builds, Setsid, IdentifyInputs, ReadInputs, VerifyInputs,
     RefuseInputs, PublishWorkset, PublishManifest, PublishImageLock, At, control,
     Childless, Building, Evaluating
<1>5. ASSUME NEW l \in Launches, Evaluates(l) PROVE ChildInPlace'
  BY <1>5 DEF TypeOK, Evaluates, LoadEvidence, RefuseEvidence, ReuseEvidence,
     RunBaseline, RunCandidate, OpenEvidence, UnlinkEvidence, LinkEvidence,
     PublishResults, PublishExecution, At, control, Childless, Building, Evaluating
<1>6. ASSUME NEW l \in Launches, Fails(l) PROVE ChildInPlace'
  BY <1>6 DEF TypeOK, Fails, ChildRaises, ChildKilled, SandboxCreated, SandboxEnds,
              ChildAlive, control, Childless, Building, Evaluating
<1>7. ASSUME Around PROVE ChildInPlace'
  BY <1>7 DEF Around, ToggleStop, InputsChange, control, childVars
<1> QED BY StepsAreGrouped, <1>1, <1>2, <1>3, <1>4, <1>5, <1>6, <1>7

LEMMA EvidenceStaysInOrder ==
  ASSUME RunnerInv, OneWriter, Next
  PROVE  EvidenceInOrder'
<1> USE DEF RunnerInv, EvidenceInOrder
<1>0. ASSUME UNCHANGED <<child, handled, evidence>> PROVE EvidenceInOrder'
  BY <1>0 DEF CaseOf, Cases
<1>1. ASSUME NEW l \in Launches, Passes(l) \/ Ends(l) PROVE EvidenceInOrder'
  BY <1>0, <1>1, PassesEffect, EndsEffect DEF childVars, published
<1>2. ASSUME NEW l \in Launches, Forks(l) PROVE EvidenceInOrder'
  BY <1>2 DEF TypeOK, Forks, SpawnChild, Reap, StopGroup, published, OnCase, CaseOf,
     Cases
<1>3. ASSUME NEW l \in Launches, Builds(l) PROVE EvidenceInOrder'
  <2>1. CASE Setsid(l)
    BY <2>1, RunnerAssumption DEF TypeOK, Setsid, At, published, OnCase, CaseOf, Cases
  <2>2. CASE ~Setsid(l)
    <3>1. /\ UNCHANGED <<handled, evidence>>
          /\ \E to \in Building \cup {"ok", "bad"} : child' = [child EXCEPT ![l] = to]
      BY <1>3, <2>2 DEF Builds, IdentifyInputs, ReadInputs, VerifyInputs, RefuseInputs,
         PublishWorkset, PublishManifest, PublishImageLock, At, published, Building
    <3> QED BY <3>1 DEF TypeOK, OnCase, CaseOf, Cases, Building
  <2> QED BY <2>1, <2>2
<1>4. ASSUME NEW l \in Launches, Evaluates(l) PROVE EvidenceInOrder'
  <2>1. CASE \/ LoadEvidence(l) \/ RefuseEvidence(l) \/ RunBaseline(l) \/ RunCandidate(l)
             \/ OpenEvidence(l) \/ PublishResults(l) \/ PublishExecution(l)
    <3>1. /\ UNCHANGED <<handled, evidence>>
          /\ \E to \in {"cases", "bad", "baseline", "candidate", "writing", "results", "ok"} :
               /\ child' = [child EXCEPT ![l] = to]
               /\ to \in OnCase => CaseOf(l) \in Cases /\ evidence[CaseOf(l)] = None
      BY <2>1 DEF LoadEvidence, RefuseEvidence, RunBaseline, RunCandidate, OpenEvidence,
                  PublishResults, PublishExecution, At, published, OnCase
    <3> QED BY <3>1 DEF TypeOK, OnCase, CaseOf, Cases
  <2>2. CASE ReuseEvidence(l) \/ UnlinkEvidence(l)
    <3>1. /\ UNCHANGED evidence
          /\ CaseOf(l) \in Cases /\ evidence[CaseOf(l)] # None
          /\ handled' = [handled EXCEPT ![l] = @ + 1]
          /\ child' = [child EXCEPT ![l] = "cases"]
      BY <2>2 DEF TypeOK, ReuseEvidence, UnlinkEvidence, At, published, OnCase
    <3>2. \A c \in 1..handled'[l] : c \in 1..handled[l] \/ c = CaseOf(l)
      BY <3>1 DEF TypeOK, CaseOf
    <3>3. child'[l] = "cases" /\ \A c \in 1..handled'[l] : evidence'[c] # None
      BY <3>1, <3>2 DEF TypeOK
    <3>4. \A o \in Launches \ {l} :
             child'[o] = child[o] /\ handled'[o] = handled[o] /\ CaseOf(o)' = CaseOf(o)
      BY <3>1 DEF TypeOK, CaseOf
    <3> QED BY <3>1, <3>3, <3>4 DEF OnCase, Cases
  <2>3. ASSUME NEW v \in Verdicts, LinkEvidence(l, v) PROVE EvidenceInOrder'
    <3>1. /\ child[l] = "writing" /\ UNCHANGED handled
          /\ CaseOf(l) \in Cases /\ evidence[CaseOf(l)] = None
          /\ child' = [child EXCEPT ![l] = "linked"]
          /\ evidence' = [evidence EXCEPT ![CaseOf(l)] = v]
      BY <2>3 DEF TypeOK, LinkEvidence, OnCase
    <3>2. v # None
      BY RunnerAssumption
    <3>3. \A o \in Launches : o # l => child[o] \notin OnCase
      BY <3>1 DEF OneWriter, ChildAlive, OnCase
    <3>4. \A c \in Cases : evidence[c] # None => evidence'[c] # None
      BY <3>1, <3>2 DEF TypeOK
    <3>5. \A o \in Launches : CaseOf(o)' = CaseOf(o) /\ 1..handled[o] \subseteq Cases
      BY <3>1, RunnerAssumption DEF TypeOK, CaseOf, Cases
    <3> QED BY <3>1, <3>2, <3>3, <3>4, <3>5 DEF TypeOK, OnCase, Cases
  <2> QED BY <1>4, <2>1, <2>2, <2>3 DEF Evaluates
<1>5. ASSUME NEW l \in Launches, Fails(l) PROVE EvidenceInOrder'
  BY <1>5 DEF TypeOK, Fails, ChildRaises, ChildKilled, SandboxCreated, SandboxEnds,
     published, OnCase, CaseOf, Cases
<1>6. ASSUME Around PROVE EvidenceInOrder'
  BY <1>0, <1>6 DEF Around, ToggleStop, InputsChange, childVars, published
<1> QED BY StepsAreGrouped, <1>1, <1>2, <1>3, <1>4, <1>5, <1>6

(* A verdict is only linked where there is none, so it neither collides nor *)
(* changes what published results were made of.                             *)
LEMMA LinkIsFirst ==
  ASSUME RunnerInv, NEW l \in Launches, NEW v \in Verdicts, LinkEvidence(l, v)
  PROVE  /\ CaseOf(l) \in Cases /\ evidence[CaseOf(l)] = None
         /\ results = None
         /\ child' = [child EXCEPT ![l] = "linked"]
         /\ evidence' = [evidence EXCEPT ![CaseOf(l)] = v]
         /\ UNCHANGED <<litter, results, runState>>
         /\ failure' = [failure EXCEPT ![l] = failure[l]]
<1>1. CaseOf(l) \in Cases /\ evidence[CaseOf(l)] = None
  BY DEF RunnerInv, EvidenceInOrder, LinkEvidence, OnCase
<1>2. results = None
  BY <1>1, RunnerAssumption DEF RunnerInv, TypeOK, ResultsAreEvidence
<1> QED BY <1>1, <1>2 DEF LinkEvidence

(* The child that publishes results has every case behind it. *)
LEMMA ResultsAreWhole ==
  ASSUME RunnerInv, NEW l \in Launches, PublishResults(l)
  PROVE  /\ evidence \in [Cases -> Verdicts]
         /\ results' = evidence
         /\ child' = [child EXCEPT ![l] = "results"]
         /\ UNCHANGED <<evidence, litter, execution, workset, manifest, imageLock, runState>>
         /\ failure' = [failure EXCEPT ![l] = failure[l]]
<1>1. \A c \in Cases : evidence[c] # None
  BY DEF RunnerInv, EvidenceInOrder, PublishResults, Cases
<1>2. evidence \in [Cases -> Verdicts]
  BY <1>1 DEF RunnerInv, TypeOK
<1>3. results \in {None, evidence}
  BY DEF RunnerInv, ResultsAreEvidence
<1> QED BY <1>2, <1>3 DEF PublishResults, At

LEMMA ResultsStayEvidence ==
  ASSUME RunnerInv, Next
  PROVE  ResultsAreEvidence'
<1> USE DEF RunnerInv, ResultsAreEvidence
<1>1. ASSUME NEW l \in Launches, Passes(l) \/ Ends(l) \/ Forks(l) PROVE ResultsAreEvidence'
  BY <1>1, PassesEffect, EndsEffect DEF Forks, SpawnChild, Reap, StopGroup, published
<1>2. ASSUME NEW l \in Launches, Builds(l) \/ Fails(l) PROVE ResultsAreEvidence'
  BY <1>2 DEF Builds, Setsid, IdentifyInputs, ReadInputs, VerifyInputs, RefuseInputs,
     PublishWorkset, PublishManifest, PublishImageLock, Fails, ChildRaises,
     ChildKilled, SandboxCreated, SandboxEnds, published
<1>3. ASSUME NEW l \in Launches, Evaluates(l) PROVE ResultsAreEvidence'
  <2>1. ASSUME NEW v \in Verdicts, LinkEvidence(l, v) PROVE ResultsAreEvidence'
    BY <2>1, LinkIsFirst
  <2>2. CASE PublishResults(l)
    BY <2>2, ResultsAreWhole
  <2>3. CASE UNCHANGED <<evidence, results>>
    BY <2>3
  <2> QED BY <1>3, <2>1, <2>2, <2>3 DEF Evaluates, LoadEvidence, RefuseEvidence,
             ReuseEvidence, RunBaseline, RunCandidate, OpenEvidence, UnlinkEvidence,
             PublishExecution, published
<1>4. ASSUME Around PROVE ResultsAreEvidence'
  BY <1>4 DEF Around, ToggleStop, InputsChange, published
<1> QED BY StepsAreGrouped, <1>1, <1>2, <1>3, <1>4

LEMMA NothingCollides ==
  ASSUME RunnerInv, Next
  PROVE  RestartsNeverCollide'
<1> USE DEF RunnerInv, RestartsNeverCollide
<1>0. ASSUME NEW l \in Launches, NEW r \in Reasons \ {"collision"}, Blame(l, r)
      PROVE  RestartsNeverCollide'
  BY <1>0 DEF TypeOK, Blame
<1>1. ASSUME NEW l \in Launches, Passes(l) PROVE RestartsNeverCollide'
  <2>1. CASE RefusePhase(l)
    BY <1>0, <2>1 DEF RefusePhase, Reasons
  <2>2. CASE UNCHANGED failure
    BY <2>2
  <2> QED BY <1>1, <2>1, <2>2 DEF Passes, Open, Flock, FlockLost, Preflight,
             InspectTerminal, CheckStop, ReusePhase, PrepareEvaluator, NoteChild,
             RequireInputsUnchanged, Validate
<1>2. ASSUME NEW l \in Launches, Ends(l) \/ Forks(l) PROVE RestartsNeverCollide'
  BY <1>2, EndsEffect DEF Forks, SpawnChild, Reap, StopGroup
<1>3. ASSUME NEW l \in Launches, Builds(l) \/ Fails(l) PROVE RestartsNeverCollide'
  BY <1>3 DEF Builds, Setsid, IdentifyInputs, ReadInputs, VerifyInputs, RefuseInputs,
     PublishWorkset, PublishManifest, PublishImageLock, Fails, ChildRaises,
     ChildKilled, SandboxCreated, SandboxEnds
<1>4. ASSUME NEW l \in Launches, Evaluates(l) PROVE RestartsNeverCollide'
  <2>1. ASSUME NEW v \in Verdicts, LinkEvidence(l, v) PROVE RestartsNeverCollide'
    BY <2>1, LinkIsFirst DEF TypeOK
  <2>2. CASE PublishResults(l)
    BY <2>2, ResultsAreWhole DEF TypeOK
  <2>3. CASE RefuseEvidence(l)
    BY <1>0, <2>3 DEF RefuseEvidence, Reasons
  <2>4. CASE UNCHANGED failure
    BY <2>4
  <2> QED BY <1>4, <2>1, <2>2, <2>3, <2>4 DEF Evaluates, LoadEvidence, ReuseEvidence,
          RunBaseline, RunCandidate, OpenEvidence, UnlinkEvidence, PublishExecution
<1>5. ASSUME Around PROVE RestartsNeverCollide'
  BY <1>5 DEF Around, ToggleStop, InputsChange
<1> QED BY StepsAreGrouped, <1>1, <1>2, <1>3, <1>4, <1>5

(* Before its phase is over a launch compares what it pinned with what its  *)
(* child hashed and read, unless that was put back.                         *)
LEMMA InputsStayInOrder ==
  ASSUME RunnerInv, Next
  PROVE  InputsInOrder'
<1> USE DEF RunnerInv, InputsInOrder
<1>1. ASSUME NEW l \in Launches, Passes(l) PROVE InputsInOrder'
  <2>1. UNCHANGED <<child, seen, drawn, inputs, restored>>
    BY <1>1, PassesEffect DEF childVars, outside
  <2>2. CASE Preflight(l)
    BY <2>1, <2>2 DEF TypeOK, Preflight, Goto, AsPinned
  <2>3. CASE Open(l) \/ Flock(l) \/ FlockLost(l)
    BY <2>1, <2>3 DEF TypeOK, Open, Flock, FlockLost, Goto, AsPinned
  <2>4. CASE InspectTerminal(l)
    <3>1. /\ pc[l] = "terminal" /\ UNCHANGED pinned
          /\ \E to \in {"validate", "check_stop"} : pc' = [pc EXCEPT ![l] = to]
          /\ \A o \in Launches \ {l} : phase'[o] = phase[o]
      BY <2>4 DEF TypeOK, InspectTerminal, Goto
    <3> QED BY <2>1, <3>1 DEF TypeOK, AsPinned
  <2>5. CASE PrepareEvaluator(l)
    BY <2>1, <2>5 DEF TypeOK, PrepareEvaluator, Goto, AsPinned
  <2>6. CASE RequireInputsUnchanged(l)
    <3>1. /\ UNCHANGED pinned /\ pc[l] = "require"
          /\ \E to \in {"check_stop", "validate", "failing"} : pc' = [pc EXCEPT ![l] = to]
          /\ inputs = pinned[l] \/ UNCHANGED phase
          /\ \A o \in Launches \ {l} : phase'[o] = phase[o]
      BY <2>6 DEF TypeOK, RequireInputsUnchanged, AfterPhase, Goto
    <3> QED BY <2>1, <3>1 DEF TypeOK, AsPinned
  <2>7. CASE CheckStop(l) \/ ReusePhase(l) \/ RefusePhase(l) \/ NoteChild(l) \/ Validate(l)
    <3>1. /\ UNCHANGED <<pinned, phase>>
          /\ \E to \in Locations \ {"new", "opened", "owner", "terminal"} :
                pc' = [pc EXCEPT ![l] = to]
      BY <2>7 DEF CheckStop, ReusePhase, RefusePhase, NoteChild, Validate, Goto,
         Locations
    <3> QED BY <2>1, <3>1 DEF TypeOK, AsPinned
  <2> QED BY <1>1, <2>2, <2>3, <2>4, <2>5, <2>6, <2>7 DEF Passes
<1>2. ASSUME NEW l \in Launches, Ends(l) PROVE InputsInOrder'
  BY <1>2, EndsEffect DEF TypeOK, outside, AsPinned
<1>3. ASSUME NEW l \in Launches, Forks(l) PROVE InputsInOrder'
  BY <1>3 DEF TypeOK, Forks, SpawnChild, Reap, StopGroup, Goto, outside, AsPinned,
     Building
<1>4. ASSUME NEW l \in Launches, Builds(l) PROVE InputsInOrder'
  <2>1. CASE IdentifyInputs(l) \/ ReadInputs(l)
    <3>1. /\ pc[l] \notin {"new", "opened", "owner", "terminal"}
          /\ phase[l] = "materialize" /\ inputs # 0
          /\ UNCHANGED <<pc, phase, pinned, inputs, restored>>
      BY <2>1 DEF TypeOK, IdentifyInputs, ReadInputs, At, ChildInPlace, Childless,
         Building, control, outside
    <3>2. CASE IdentifyInputs(l)
      BY <3>1, <3>2 DEF TypeOK, IdentifyInputs, At, AsPinned, Building
    <3>3. CASE ReadInputs(l)
      BY <3>1, <3>3 DEF TypeOK, ReadInputs, At, AsPinned, Building
    <3> QED BY <2>1, <3>2, <3>3
  <2>2. CASE ~(IdentifyInputs(l) \/ ReadInputs(l))
    <3>1. /\ UNCHANGED <<pc, phase, pinned, seen, drawn, inputs, restored>>
          /\ \E to \in ChildLocations :
               /\ child' = [child EXCEPT ![l] = to]
               /\ to \in Building => child[l] \in Building \ {"identified"}
      BY <1>4, <2>2 DEF TypeOK, Builds, Setsid, VerifyInputs, RefuseInputs,
         PublishWorkset, PublishManifest, PublishImageLock, At, control, outside,
         Building, ChildLocations
    <3> QED BY <3>1 DEF TypeOK, AsPinned
  <2> QED BY <2>1, <2>2
<1>5. ASSUME NEW l \in Launches, Evaluates(l) \/ Fails(l) PROVE InputsInOrder'
  <2>1. /\ UNCHANGED <<pc, phase, pinned, seen, drawn, inputs, restored>>
        /\ child' # child => \E to \in ChildLocations \ Building :
                               child' = [child EXCEPT ![l] = to]
    <3>1. CASE Fails(l)
      BY <3>1 DEF Fails, ChildRaises, ChildKilled, SandboxCreated, SandboxEnds, control,
                  outside, ChildLocations, Building
    <3>2. CASE Evaluates(l)
      BY <3>2 DEF Evaluates, LoadEvidence, RefuseEvidence, ReuseEvidence, RunBaseline,
         RunCandidate, OpenEvidence, UnlinkEvidence, LinkEvidence, PublishResults,
         PublishExecution, At, control, outside, ChildLocations, Building
    <3> QED BY <1>5, <3>1, <3>2
  <2> QED BY <2>1 DEF TypeOK, AsPinned
<1>6. CASE ToggleStop
  BY <1>6 DEF ToggleStop, control, childVars, AsPinned
<1>7. CASE InputsChange
  <2>1. /\ UNCHANGED <<pc, phase, pinned, child, seen, drawn>>
        /\ restored' = restored \cup PutBackBehind(inputs')
    BY <1>7 DEF InputsChange, control, childVars
  <2>2. ASSUME NEW l \in Launches PROVE AsPinned(l)'
    <3>1. CASE l \in restored \/ {seen[l], drawn[l]} \subseteq {0, pinned[l]}
      BY <2>1, <3>1 DEF AsPinned
    <3>2. CASE phase[l] = "materialize"
      <4>1. CASE inputs' # pinned[l]
        BY <2>1, <3>2, <4>1 DEF AsPinned
      <4>2. CASE inputs' = pinned[l] /\ seen[l] # 0
        BY <2>1, <3>2, <4>2 DEF AsPinned, PutBackBehind
      <4>3. CASE seen[l] = 0
        BY <2>1, <4>3 DEF AsPinned
      <4> QED BY <4>1, <4>2, <4>3
    <3> QED BY <3>1, <3>2 DEF AsPinned
  <2> QED BY <2>1, <2>2
<1> QED BY StepsAreGrouped, <1>1, <1>2, <1>3, <1>4, <1>5, <1>6, <1>7 DEF Around

(* Once published a workset stays: a child replaces none. *)
LEMMA WorksetStaysInOrder ==
  ASSUME RunnerInv, OneWriter, Next
  PROVE  WorksetInOrder'
<1> USE DEF RunnerInv, WorksetInOrder
<1>1. ASSUME NEW l \in Launches, Passes(l) PROVE WorksetInOrder'
  <2>1. UNCHANGED <<child, seen, drawn, inputs, restored, workset>>
    BY <1>1, PassesEffect DEF childVars, outside, published
  <2>2. ASSUME NEW to \in Locations, pc' = [pc EXCEPT ![l] = to],
               \A o \in Launches \ {l} : pinned'[o] = pinned[o] /\ phase'[o] = phase[o],
               to \in {"check_stop", "begin", "validate"} => Settled(l)',
               to = "require" => Settled(l)',
               to = "waiting" => pc[l] = "forked" /\ UNCHANGED <<pinned, phase>>,
               to # "forked"
        PROVE  WorksetInOrder'
    <3>1. \A o \in Launches \ {l} : pc'[o] = pc[o] /\ Settled(o)' = Settled(o)
      BY <2>1, <2>2 DEF Settled, Built, TypeOK
    <3>2. pc'[l] = to
      BY <2>2 DEF TypeOK
    <3>3. UNCHANGED <<pinned, phase>> => Settled(l)' = Settled(l)
      BY <2>1 DEF Settled, Built
    <3> QED BY <2>1, <2>2, <3>1, <3>2, <3>3 DEF Settled, Built
  <2>3. CASE Open(l) \/ Flock(l) \/ FlockLost(l) \/ RefusePhase(l)
    BY <2>2, <2>3 DEF Open, Flock, FlockLost, RefusePhase, Goto, Locations
  <2>4. CASE Preflight(l)
    BY <2>2, <2>4 DEF TypeOK, Preflight, Goto, Locations
  <2>5. CASE InspectTerminal(l)
    <3>1. Settled(l)'
      BY <2>1, <2>5 DEF Settled, InspectTerminal, Goto, InputsInOrder
    <3> QED BY <2>2, <2>5, <3>1 DEF TypeOK, InspectTerminal, Goto, Locations
  <2>6. CASE CheckStop(l) \/ ReusePhase(l) \/ PrepareEvaluator(l)
    <3>1. Settled(l)'
      BY <2>1, <2>6 DEF Settled, Built, CheckStop, ReusePhase, PrepareEvaluator, Goto
    <3> QED BY <2>2, <2>6, <3>1 DEF TypeOK, CheckStop, ReusePhase, PrepareEvaluator,
               Goto, Locations
  <2>7. CASE NoteChild(l)
    BY <2>2, <2>7 DEF NoteChild, Goto, Locations
  <2>8. CASE RequireInputsUnchanged(l)
    <3>1. inputs = pinned[l] => Settled(l)'
      <4> HAVE inputs = pinned[l]
      <4>1. seen[l] # 0 => Built(l)
        BY <2>8 DEF RequireInputsUnchanged, Goto
      <4>2. l \in restored \/ {seen[l], drawn[l]} \subseteq {0, pinned[l]}
        BY DEF InputsInOrder, AsPinned
      <4> QED BY <2>1, <2>8, <4>1, <4>2 DEF Settled, Built, RequireInputsUnchanged
    <3> QED BY <2>2, <2>8, <3>1 DEF TypeOK, RequireInputsUnchanged, AfterPhase, Goto,
          Locations
  <2>9. CASE Validate(l)
    BY <2>2, <2>9 DEF Validate, Goto, Locations
  <2> QED BY <1>1, <2>3, <2>4, <2>5, <2>6, <2>7, <2>8, <2>9 DEF Passes
<1>2. ASSUME NEW l \in Launches, Ends(l) PROVE WorksetInOrder'
  BY <1>2, EndsEffect DEF TypeOK, Settled, Built, outside, published
<1>3. ASSUME NEW l \in Launches, Forks(l) PROVE WorksetInOrder'
  <2>1. /\ UNCHANGED <<phase, pinned, seen, drawn, workset>>
        /\ \A o \in Launches : Settled(o)' = Settled(o) /\ Built(o)' = Built(o)
    BY <1>3 DEF Forks, SpawnChild, Reap, StopGroup, outside, published, Settled, Built
  <2>2. CASE SpawnChild(l)
    BY <2>1, <2>2 DEF TypeOK, SpawnChild, Goto
  <2>3. CASE Reap(l)
    BY <2>1, <2>3 DEF TypeOK, Reap, Goto
  <2>4. CASE StopGroup(l)
    BY <2>1, <2>4 DEF TypeOK, StopGroup, Goto
  <2> QED BY <1>3, <2>2, <2>3, <2>4 DEF Forks
<1>4. ASSUME NEW l \in Launches, Builds(l) PROVE WorksetInOrder'
  <2>1. UNCHANGED <<pc, phase, pinned>>
    BY <1>4 DEF Builds, Setsid, IdentifyInputs, ReadInputs, VerifyInputs, RefuseInputs,
       PublishWorkset, PublishManifest, PublishImageLock, control
  <2>2. ASSUME UNCHANGED <<seen, drawn, workset, restored>>
        PROVE  \A o \in Launches : Settled(o)' = Settled(o) /\ Built(o)' = Built(o)
    BY <2>1, <2>2 DEF Settled, Built
  <2>3. CASE Setsid(l) \/ VerifyInputs(l) \/ RefuseInputs(l)
    <3>1. /\ UNCHANGED <<seen, drawn, workset, restored>>
          /\ \E to \in {"start", "checked", "bound", "bad"} :
               /\ child' = [child EXCEPT ![l] = to]
               /\ to = "bound" => child[l] = "workset"
      BY <2>3 DEF Setsid, VerifyInputs, RefuseInputs, At, outside, published
    <3> QED BY <2>1, <2>2, <3>1 DEF TypeOK
  <2>4. CASE IdentifyInputs(l) \/ ReadInputs(l)
    <3>1. phase[l] = "materialize" /\ pc[l] \notin {"check_stop", "begin", "validate", "require"}
      BY <2>4 DEF IdentifyInputs, ReadInputs, At, ChildInPlace, Childless, Building
    <3>2. /\ \A o \in Launches \ {l} :
               Settled(o)' = Settled(o) /\ Built(o)' = Built(o) /\ seen'[o] = seen[o]
          /\ \E to \in {"identified", "staged"} : child' = [child EXCEPT ![l] = to]
      BY <2>1, <2>4 DEF TypeOK, IdentifyInputs, ReadInputs, At, outside, published,
         Settled, Built
    <3> QED BY <2>1, <2>4, <3>1, <3>2 DEF TypeOK
  <2>5. CASE PublishWorkset(l)
    <3>1. /\ workset = 0 /\ workset' = drawn[l] /\ UNCHANGED <<seen, drawn, restored>>
          /\ child[l] = "checked" /\ child' = [child EXCEPT ![l] = "workset"]
      BY <2>5 DEF PublishWorkset, At, outside
    <3>2. \A o \in Launches : ~Built(o) /\ (Settled(o) => Settled(o)')
      BY <2>1, <3>1 DEF Settled, Built
    <3>3. Built(l)'
      BY <3>1 DEF Built, InputsInOrder, Building
    <3>4. \A o \in Launches : o # l => child[o] \notin {"workset", "bound"}
      BY <3>1 DEF OneWriter, ChildAlive
    <3> QED BY <2>1, <3>1, <3>2, <3>3, <3>4 DEF TypeOK
  <2>6. CASE PublishManifest(l) \/ PublishImageLock(l)
    <3>1. /\ UNCHANGED <<seen, drawn, workset, restored>>
          /\ child' = [child EXCEPT ![l] = "ok"]
          /\ child[l] = "bound" \/ phase[l] = "pull_images"
      BY <2>6 DEF PublishManifest, PublishImageLock, At, outside
    <3> QED BY <2>1, <2>2, <3>1 DEF TypeOK, Settled
  <2> QED BY <1>4, <2>3, <2>4, <2>5, <2>6 DEF Builds
<1>5. ASSUME NEW l \in Launches, Evaluates(l) \/ Fails(l) PROVE WorksetInOrder'
  <2>1. /\ UNCHANGED <<pc, phase, pinned, seen, drawn, workset, restored>>
        /\ child' # child => \E to \in ChildLocations \ {"workset", "bound"} :
                               /\ child' = [child EXCEPT ![l] = to]
                               /\ to = "ok" => phase[l] = "evaluate"
    <3>1. CASE Fails(l)
      BY <3>1 DEF Fails, ChildRaises, ChildKilled, SandboxCreated, SandboxEnds, control,
                  outside, published, ChildLocations
    <3>2. CASE Evaluates(l)
      BY <3>2 DEF Evaluates, LoadEvidence, RefuseEvidence, ReuseEvidence, RunBaseline,
         RunCandidate, OpenEvidence, UnlinkEvidence, LinkEvidence, PublishResults,
         PublishExecution, At, control, outside, published, ChildLocations,
         ChildInPlace, Evaluating
    <3> QED BY <1>5, <3>1, <3>2
  <2>2. \A o \in Launches : Settled(o)' = Settled(o) /\ Built(o)' = Built(o)
    BY <2>1 DEF Settled, Built
  <2> QED BY <2>1, <2>2 DEF TypeOK, Settled
<1>6. ASSUME Around PROVE WorksetInOrder'
  <2>1. /\ UNCHANGED <<pc, phase, pinned, child, seen, drawn, workset>>
        /\ restored \subseteq restored'
    BY <1>6 DEF Around, ToggleStop, InputsChange, control, childVars, published
  <2>2. \A o \in Launches : (Settled(o) => Settled(o)') /\ Built(o)' = Built(o)
    BY <2>1 DEF Settled, Built
  <2> QED BY <2>1, <2>2
<1> QED BY StepsAreGrouped, <1>1, <1>2, <1>3, <1>4, <1>5, <1>6

(* While run.state says COMPLETE every case has evidence, so no child runs  *)
(* a case, and the artifacts that are published again are the same.         *)
LEMMA CompleteStaysWhole ==
  ASSUME RunnerInv, Next
  PROVE  CompleteMeansWhole'
<1> USE DEF RunnerInv, CompleteMeansWhole
<1>1. ASSUME NEW l \in Launches, Passes(l) PROVE CompleteMeansWhole'
  <2>1. UNCHANGED published
    BY <1>1, PassesEffect
  <2>2. TerminalValid' = TerminalValid
    BY <2>1 DEF published, TerminalValid
  <2>3. CASE Validate(l)
    BY <2>2, <2>3 DEF Validate, WriteState, Goto
  <2>4. CASE Preflight(l) \/ CheckStop(l) \/ PrepareEvaluator(l)
    BY <2>2, <2>4 DEF Preflight, CheckStop, PrepareEvaluator, WriteState
  <2>5. CASE UNCHANGED runState
    BY <2>2, <2>5
  <2> QED BY <1>1, <2>3, <2>4, <2>5 DEF Passes, Open, Flock, FlockLost, InspectTerminal,
          ReusePhase, RefusePhase, NoteChild, RequireInputsUnchanged
<1>2. ASSUME NEW l \in Launches, Ends(l) PROVE CompleteMeansWhole'
  <2>1. TerminalValid' = TerminalValid
    BY <1>2, EndsEffect DEF published, TerminalValid
  <2> QED BY <1>2, <2>1, EndsEffect DEF WriteState
<1>3. ASSUME NEW l \in Launches, Forks(l) PROVE CompleteMeansWhole'
  <2>1. TerminalValid' = TerminalValid
    BY <1>3 DEF Forks, SpawnChild, Reap, StopGroup, published, TerminalValid
  <2> QED BY <1>3, <2>1 DEF Forks, SpawnChild, Reap, StopGroup, WriteState
<1>4. ASSUME NEW l \in Launches, Builds(l) PROVE CompleteMeansWhole'
  <2>1. UNCHANGED runState
    BY <1>4 DEF Builds, Setsid, IdentifyInputs, ReadInputs, VerifyInputs, RefuseInputs,
       PublishWorkset, PublishManifest, PublishImageLock
  <2>2. TerminalValid => TerminalValid'
    BY <1>4 DEF Builds, Setsid, IdentifyInputs, ReadInputs, VerifyInputs, RefuseInputs,
       PublishWorkset, PublishManifest, PublishImageLock, published, TerminalValid
  <2> QED BY <2>1, <2>2
<1>5. ASSUME NEW l \in Launches, Evaluates(l) PROVE CompleteMeansWhole'
  <2>1. UNCHANGED runState
    BY <1>5 DEF Evaluates, LoadEvidence, RefuseEvidence, ReuseEvidence, RunBaseline,
       RunCandidate, OpenEvidence, UnlinkEvidence, LinkEvidence, PublishResults,
       PublishExecution
  <2>2. ASSUME TerminalValid PROVE TerminalValid'
    <3>1. /\ results # None /\ evidence = results /\ execution = results /\ litter = {}
          /\ \A c \in Cases : evidence[c] # None
      BY <2>2, RunnerAssumption DEF TerminalValid, TypeOK
    <3>2. child[l] \notin OnCase
      BY <3>1 DEF EvidenceInOrder
    <3>3. CASE PublishResults(l)
      BY <2>2, <3>1, <3>3, ResultsAreWhole DEF TerminalValid
    <3>4. CASE PublishExecution(l) \/ UnlinkEvidence(l)
      BY <2>2, <3>1, <3>4 DEF PublishExecution, UnlinkEvidence, TerminalValid
    <3>5. ~OpenEvidence(l) /\ \A v \in Verdicts : ~LinkEvidence(l, v)
      BY <3>2 DEF OpenEvidence, LinkEvidence, At, OnCase
    <3>6. CASE UNCHANGED published
      BY <2>2, <3>6 DEF published, TerminalValid
    <3> QED BY <1>5, <3>3, <3>4, <3>5, <3>6 DEF Evaluates, LoadEvidence, RefuseEvidence,
            ReuseEvidence, RunBaseline, RunCandidate
  <2> QED BY <2>1, <2>2
<1>6. ASSUME NEW l \in Launches, Fails(l) PROVE CompleteMeansWhole'
  <2>1. TerminalValid => TerminalValid'
    BY <1>6 DEF Fails, ChildRaises, ChildKilled, SandboxCreated, SandboxEnds, published,
                TerminalValid
  <2> QED BY <1>6, <2>1 DEF Fails, ChildRaises, ChildKilled, SandboxCreated, SandboxEnds
<1>7. ASSUME Around PROVE CompleteMeansWhole'
  BY <1>7 DEF Around, ToggleStop, InputsChange, published, TerminalValid
<1> QED BY StepsAreGrouped, <1>1, <1>2, <1>3, <1>4, <1>5, <1>6, <1>7

(* The types, by what the steps change. *)
ControlTypes ==
  /\ pc \in [Launches -> Locations]
  /\ phase \in [Launches -> Phases]
  /\ known \subseteq Launches
  /\ pinned \in [Launches -> 0..MaxInputs]
  /\ locked \subseteq Launches
  /\ failure \in [Launches -> Reasons]

ChildTypes ==
  /\ child \in [Launches -> ChildLocations]
  /\ seen \in [Launches -> 0..MaxInputs]
  /\ drawn \in [Launches -> 0..MaxInputs]
  /\ handled \in [Launches -> 0..NumCases]
  /\ sandbox \in [Launches -> {"none", "client", "running"}]

StateTypes ==
  /\ runState \in {None} \cup
       [state : {"RUNNING", "STOPPED", "FAILED", "COMPLETE"}, pid : Launches]
  /\ stopFile \in BOOLEAN
  /\ inputs \in 1..MaxInputs
  /\ edits \in 0..MaxEdits
  /\ restored \subseteq Launches

ArtifactTypes ==
  /\ {workset, manifest, imageLock} \subseteq 0..MaxInputs
  /\ evidence \in [Cases -> Verdicts \cup {None}]
  /\ litter \subseteq Launches \X Cases
  /\ results \in {None} \cup [Cases -> Verdicts]
  /\ execution \in {None} \cup [Cases -> Verdicts]

LEMMA TypesByPart == TypeOK => ControlTypes /\ ChildTypes /\ StateTypes /\ ArtifactTypes
BY DEF TypeOK, ControlTypes, ChildTypes, StateTypes, ArtifactTypes

LEMMA TypesTogether ==
  ASSUME ControlTypes', ChildTypes', StateTypes', ArtifactTypes'
  PROVE  TypeOK'
BY DEF TypeOK, ControlTypes, ChildTypes, StateTypes, ArtifactTypes

LEMMA TypesStay ==
  ASSUME RunnerInv, Next
  PROVE  TypeOK'
<1> USE TypesByPart, TypesTogether DEF RunnerInv
<1>0. /\ UNCHANGED childVars => ChildTypes'
      /\ UNCHANGED published => ArtifactTypes'
      /\ UNCHANGED control /\ UNCHANGED failure => ControlTypes'
      /\ UNCHANGED runState /\ UNCHANGED outside => StateTypes'
      /\ \A l \in Launches, s \in {"RUNNING", "STOPPED", "FAILED", "COMPLETE"} :
            WriteState(l, s) /\ UNCHANGED outside => StateTypes'
  BY DEF ChildTypes, ArtifactTypes, ControlTypes, StateTypes, control, childVars,
     outside, published, WriteState
<1>1. ASSUME NEW l \in Launches, Passes(l) PROVE TypeOK'
  <2>1. ChildTypes' /\ ArtifactTypes' /\ UNCHANGED outside
    BY <1>1, <1>0, PassesEffect
  <2>2. StateTypes'
    BY <1>0, <1>1, <2>1 DEF Passes, Open, Flock, FlockLost, Preflight, InspectTerminal,
       CheckStop, ReusePhase, RefusePhase, PrepareEvaluator, NoteChild,
       RequireInputsUnchanged, Validate
  <2>3. ControlTypes'
    <3>1. CASE Open(l) \/ Flock(l) \/ FlockLost(l) \/ NoteChild(l)
      BY <3>1 DEF ControlTypes, Open, Flock, FlockLost, NoteChild, Goto, Locations
    <3>2. CASE Preflight(l) \/ InspectTerminal(l) \/ CheckStop(l)
      BY <3>2 DEF ControlTypes, StateTypes, Preflight, InspectTerminal, CheckStop, Goto,
                  Locations, Phases
    <3>3. CASE ReusePhase(l) \/ RefusePhase(l) \/ PrepareEvaluator(l)
      BY <3>3 DEF ControlTypes, ReusePhase, RefusePhase, PrepareEvaluator, Goto, Blame,
                  Locations, Phases, Reasons
    <3>4. CASE RequireInputsUnchanged(l)
      <4>1. pc[l] = "require" /\ NextPhase[phase[l]] \in Phases
        BY <3>4 DEF RequireInputsUnchanged, Goto, ChildInPlace, PhaseOfChild, NextPhase,
              Phases
      <4>2. AfterPhase(l) \in Locations
        BY DEF AfterPhase, Locations
      <4> QED BY <3>4, <4>1, <4>2 DEF ControlTypes, RequireInputsUnchanged, Goto,
                 Locations
    <3>5. CASE Validate(l)
      BY <3>5 DEF ControlTypes, Validate, Goto, Locations
    <3> QED BY <1>1, <3>1, <3>2, <3>3, <3>4, <3>5 DEF Passes
  <2> QED BY <2>1, <2>2, <2>3
<1>2. ASSUME NEW l \in Launches, Ends(l) PROVE TypeOK'
  <2>1. ControlTypes' /\ ChildTypes'
    BY <1>2, EndsEffect DEF ControlTypes, ChildTypes, Locations
  <2>2. StateTypes' /\ ArtifactTypes'
    BY <1>0, <1>2, EndsEffect
  <2> QED BY <2>1, <2>2
<1>3. ASSUME NEW l \in Launches, Forks(l) PROVE TypeOK'
  <2>1. ControlTypes' /\ ChildTypes'
    BY <1>3 DEF ControlTypes, ChildTypes, Forks, SpawnChild, Reap, StopGroup, Goto,
       Locations, ChildLocations
  <2>2. StateTypes' /\ ArtifactTypes'
    BY <1>0, <1>3 DEF Forks, SpawnChild, Reap, StopGroup
  <2> QED BY <2>1, <2>2
<1>4. ASSUME NEW l \in Launches, Builds(l) PROVE TypeOK'
  <2>1. ControlTypes' /\ StateTypes'
    BY <1>0, <1>4 DEF Builds, Setsid, IdentifyInputs, ReadInputs, VerifyInputs,
       RefuseInputs, PublishWorkset, PublishManifest, PublishImageLock
  <2>2. ChildTypes'
    BY <1>4, RunnerAssumption DEF ChildTypes, StateTypes, Builds, Setsid,
       IdentifyInputs, ReadInputs, VerifyInputs, RefuseInputs, PublishWorkset,
       PublishManifest, PublishImageLock, At, ChildLocations
  <2>3. ArtifactTypes'
    BY <1>0, <1>4 DEF ArtifactTypes, ChildTypes, Builds, Setsid, IdentifyInputs,
       ReadInputs, VerifyInputs, RefuseInputs, PublishWorkset, PublishManifest,
       PublishImageLock
  <2> QED BY <2>1, <2>2, <2>3
<1>5. ASSUME NEW l \in Launches, Evaluates(l) PROVE TypeOK'
  <2>1. StateTypes'
    BY <1>0, <1>5 DEF Evaluates, LoadEvidence, RefuseEvidence, ReuseEvidence,
       RunBaseline, RunCandidate, OpenEvidence, UnlinkEvidence, LinkEvidence,
       PublishResults, PublishExecution
  <2>2. CASE \/ LoadEvidence(l) \/ RefuseEvidence(l) \/ RunBaseline(l) \/ RunCandidate(l)
    BY <1>0, <2>1, <2>2 DEF ControlTypes, ChildTypes, LoadEvidence, RefuseEvidence,
       RunBaseline, RunCandidate, At, Blame, control, ChildLocations, Reasons
  <2>3. CASE ReuseEvidence(l) \/ UnlinkEvidence(l)
    <3>1. CaseOf(l) \in Cases /\ handled' = [handled EXCEPT ![l] = CaseOf(l)]
      BY <2>3 DEF ReuseEvidence, UnlinkEvidence, At, EvidenceInOrder, CaseOf
    <3>2. ChildTypes'
      BY <2>3, <3>1 DEF ChildTypes, ReuseEvidence, UnlinkEvidence, At, ChildLocations,
         Cases
    <3> QED BY <1>0, <2>1, <2>3, <3>2 DEF ArtifactTypes, ReuseEvidence, UnlinkEvidence
  <2>4. CASE OpenEvidence(l)
    <3>1. CaseOf(l) \in Cases
      BY <2>4 DEF OpenEvidence, At, EvidenceInOrder, OnCase
    <3> QED BY <1>0, <2>1, <2>4, <3>1 DEF ChildTypes, ArtifactTypes, OpenEvidence, At,
            ChildLocations
  <2>5. ASSUME NEW v \in Verdicts, LinkEvidence(l, v) PROVE TypeOK'
    <3>1. /\ UNCHANGED <<control, seen, drawn, handled, sandbox, workset, manifest, imageLock,
                         execution>>
          /\ failure' = [failure EXCEPT ![l] = failure[l]]
          /\ UNCHANGED <<litter, results>>
          /\ child' = [child EXCEPT ![l] = "linked"]
          /\ evidence' = [evidence EXCEPT ![CaseOf(l)] = v]
      BY <2>5, LinkIsFirst DEF LinkEvidence
    <3> QED BY <2>1, <3>1 DEF ControlTypes, ChildTypes, ArtifactTypes, control,
          ChildLocations
  <2>6. CASE PublishResults(l)
    <3>1. UNCHANGED <<control, seen, drawn, handled, sandbox>>
      BY <2>6 DEF PublishResults
    <3> QED BY <2>1, <2>6, <3>1, ResultsAreWhole DEF ControlTypes, ChildTypes,
               ArtifactTypes, control, ChildLocations
  <2>7. CASE PublishExecution(l)
    BY <1>0, <2>1, <2>7 DEF ChildTypes, ArtifactTypes, PublishExecution, At,
       ChildLocations
  <2> QED BY <1>5, <2>2, <2>3, <2>4, <2>5, <2>6, <2>7 DEF Evaluates
<1>6. ASSUME NEW l \in Launches, Fails(l) PROVE TypeOK'
  <2>1. ControlTypes' /\ StateTypes'
    BY <1>0, <1>6 DEF Fails, ChildRaises, ChildKilled, SandboxCreated, SandboxEnds
  <2>2. ChildTypes' /\ ArtifactTypes'
    BY <1>0, <1>6 DEF ChildTypes, ArtifactTypes, Fails, ChildRaises, ChildKilled,
       SandboxCreated, SandboxEnds, ChildLocations
  <2> QED BY <2>1, <2>2
<1>7. ASSUME Around PROVE TypeOK'
  <2>1. StateTypes'
    <3>1. CASE ToggleStop
      BY <3>1 DEF StateTypes, ToggleStop
    <3>2. CASE InputsChange
      <4>1. inputs' \in 1..MaxInputs /\ edits' \in 0..MaxEdits /\ restored' \subseteq Launches
        BY <3>2, RunnerAssumption DEF StateTypes, InputsChange, PutBackBehind
      <4> QED BY <3>2, <4>1 DEF StateTypes, InputsChange
    <3> QED BY <1>7, <3>1, <3>2 DEF Around
  <2> QED BY <1>0, <1>7, <2>1 DEF Around, ToggleStop, InputsChange
<1> QED BY StepsAreGrouped, <1>1, <1>2, <1>3, <1>4, <1>5, <1>6, <1>7

THEOREM RunnerInvariance == Spec => []RunnerInv
<1>1. Init => RunnerInv
  <2> SUFFICES ASSUME Init PROVE RunnerInv
    OBVIOUS
  <2> USE DEF Init
  <2>1. TypeOK
    <3>1. 0 \in 0..MaxInputs /\ 1 \in 1..MaxInputs /\ 0 \in 0..NumCases /\ 0 \in 0..MaxEdits
      BY RunnerAssumption
    <3>2. /\ litter = {} /\ known = {} /\ locked = {} /\ restored = {} /\ stopFile = FALSE
          /\ evidence \in [Cases -> Verdicts \cup {None}]
      OBVIOUS
    <3> QED BY <3>1, <3>2 DEF TypeOK, Locations, Phases, ChildLocations, Reasons
  <2>2. ChildInPlace /\ EvidenceInOrder /\ ResultsAreEvidence
    BY RunnerAssumption DEF ChildInPlace, Building, Evaluating, EvidenceInOrder, OnCase,
                            ResultsAreEvidence
  <2>3. InputsInOrder /\ WorksetInOrder
    BY DEF InputsInOrder, AsPinned, Building, WorksetInOrder, Settled, Built
  <2>4. CompleteMeansWhole /\ RestartsNeverCollide
    BY DEF CompleteMeansWhole, RestartsNeverCollide
  <2> QED BY <2>1, <2>2, <2>3, <2>4, Initially DEF RunnerInv
<1>2. RunnerInv /\ OneWriter /\ IInv' /\ [Next]_vars => RunnerInv'
  <2> SUFFICES ASSUME RunnerInv, OneWriter, IInv', [Next]_vars PROVE RunnerInv'
    OBVIOUS
  <2>1. CASE Next
    BY <2>1, TypesStay, ChildStaysInPlace, EvidenceStaysInOrder, ResultsStayEvidence,
       InputsStayInOrder, WorksetStaysInOrder, CompleteStaysWhole, NothingCollides
       DEF RunnerInv
  <2>2. CASE UNCHANGED vars
    BY <2>2 DEF vars, control, childVars, outside, published, RunnerInv, TypeOK,
       ChildInPlace, EvidenceInOrder, CaseOf, ResultsAreEvidence, InputsInOrder,
       AsPinned, WorksetInOrder, Settled, Built, CompleteMeansWhole, TerminalValid,
       RestartsNeverCollide
  <2> QED BY <2>1, <2>2
<1> QED BY <1>1, <1>2, Invariance, RunDirectoryHasOneWriter, PTL DEF Spec

(* Every variable of the runner keeps its type. *)
THEOREM TypeCorrectness == Spec => []TypeOK
<1>1. RunnerInv => TypeOK
  BY DEF RunnerInv
<1> QED BY <1>1, RunnerInvariance, PTL

(* run.state never says COMPLETE of a run directory whose chain of          *)
(* artifacts does not validate, whatever losers of the lock, signals and    *)
(* later launches write there.                                              *)
THEOREM CompleteIsEarned == Spec => []CompleteMeansWhole
<1>1. RunnerInv => CompleteMeansWhole
  BY DEF RunnerInv
<1> QED BY <1>1, RunnerInvariance, PTL

(* A launch goes on from the phase in which its child built the workset     *)
(* only with the workset of what that child read, and that is not of the    *)
(* inputs the launch had hashed only if these were put back behind the      *)
(* child: whatever else is done to them between the reads and the checks is *)
(* found.                                                                   *)
THEOREM OnlyRestorationEscapes == Spec => []OnlyRestoredInputsEscape
<1>1. RunnerInv => OnlyRestoredInputsEscape
  BY DEF RunnerInv, WorksetInOrder, Settled, Built, OnlyRestoredInputsEscape
<1> QED BY <1>1, RunnerInvariance, PTL

(* Whatever the oracle says of a repeated case, no child meets evidence or  *)
(* results other than its own.                                              *)
THEOREM RestartsReuse == Spec => []RestartsNeverCollide
<1>1. RunnerInv => RestartsNeverCollide
  BY DEF RunnerInv
<1> QED BY <1>1, RunnerInvariance, PTL
=============================================================================
