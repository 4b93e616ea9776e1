----------------------- MODULE EvidenceRunnersProofs ------------------------
(***************************************************************************)
(* Proofs about the three scripts of a commit-bound run directory: for any *)
(* number of starts, of leaves and of edits of the inputs, what run.state  *)
(* says is true, and nothing is refused without a cause.                   *)
(*                                                                         *)
(* RunnersInv adds to the property what a start knows at each place of its *)
(* script: that it has no worker yet, that the sets behind it are finished *)
(* for good, that the binding is the one it hashed, and, for the causes of *)
(* refusals, who has left the part of a set that is found.                 *)
(***************************************************************************)
EXTENDS EvidenceRunners, TLAPS

Places == Owning \cup {"off", "opened", "ended", "killed"}
Causes == {"none", "lock", "binding", "unbound", "changed", "partial", "invalid", "worker"}
Early == {"off", "opened", "locked", "binding", "printing", "bound"}
Producing == {"check", "forked", "waiting", "last", "stopping"}
Workers == [alive : BOOLEAN, ok : BOOLEAN, of : Editions \cup {"none"}, done : 0 .. 3]
Sets == [1 .. 2 * RunLeaves -> [count : 0 .. 3, of : Editions \cup {"none"}]]
States == [state : {"none", "RUNNING", "STOPPED", "FAILED", "COMPLETE"}, pid : Starts \cup {"nobody"}]
Worlds == [inputs : Editions, clean : BOOLEAN]

RunnersTypes ==
    /\ script \in {"normalization", "reviews", "recovery"}
    /\ passing \in {Editions, {"edited"}}
    /\ place \in [Starts -> Places]
    /\ setAt \in [Starts -> 1 .. LastSet]
    /\ hashed \in [Starts -> Editions \cup {"none"}]
    /\ worker \in [Starts -> Workers]
    /\ sets \in Sets
    /\ bindingFile \in Editions \cup {"none", "torn"}
    /\ stateFile \in States
    /\ stopAsked \in BOOLEAN
    /\ world \in Worlds
    /\ edits \in 0 .. MaxEdits
    /\ refusal \in [Starts -> Causes]
    /\ unseen \subseteq Starts

\* Where a start is tells what is known of its worker and of its set.
WorkerInPlace ==
    \A s \in Starts :
        /\ place[s] \in Early => worker[s] = NoWorker /\ setAt[s] = 1
        /\ worker[s].alive =>
             /\ \/ place[s] \in {"forked", "waiting", "stopping", "killed"}
                \/ place[s] = "ended" /\ s \in unseen
             /\ ~worker[s].ok /\ worker[s].of # "none"
             /\ worker[s].done <= sets[setAt[s]].count

\* The binding comes before the first file, and a complete one is not replaced.
BindingFirst ==
    /\ bindingFile = "none" =>
         /\ \A s \in Starts : place[s] \notin Producing \cup {"printing", "bound"} /\ ~worker[s].alive
         /\ \A n \in 1 .. 2 * RunLeaves : sets[n].count = 0
    /\ bindingFile = "torn" =>
         script = "reviews" /\ \E t \in Starts : place[t] \in {"printing", "killed"}
    /\ \A s \in Starts :
         /\ place[s] \in Producing \cup {"binding", "printing", "bound"} => hashed[s] # "none"
         /\ script # "reviews" /\ place[s] \in Producing \cup {"bound"} => bindingFile = hashed[s]
         /\ place[s] = "printing" => script = "reviews"

\* What there is of the edited inputs: nothing before the first edit.
EditsShow ==
    /\ script # "recovery" => bindingFile # "edited" /\ \A s \in Starts : hashed[s] # "edited"
    /\ edits = 0 =>
         /\ world.inputs = "sealed" /\ bindingFile # "edited"
         /\ \A s \in Starts : hashed[s] # "edited" /\ worker[s].of # "edited"
         /\ \A n \in 1 .. 2 * RunLeaves : sets[n].of # "edited"

\* A set that no worker changes any more, and that is what COMPLETE claims
Finished(n) ==
    /\ sets[n].count = SetSize(n)
    /\ script = "normalization" => sets[n].of = "sealed"
    /\ script = "reviews" => sets[n].of \in passing
    /\ script = "recovery" => sets[n].of = bindingFile

SetsInOrder ==
    /\ \A n \in 1 .. 2 * RunLeaves :
         sets[n].count <= SetSize(n) /\ (sets[n].count > 0 => sets[n].of # "none")
    /\ \A s \in Starts :
         /\ place[s] \in Producing => \A n \in 1 .. setAt[s] - 1 : Finished(n)
         /\ place[s] = "last" => \A n \in 1 .. LastSet : Finished(n)

\* A part of a set is the work of a worker that did not end well.
Unfinished(t) == worker[t].of # "none" /\ ~worker[t].ok

PartsHaveMakers ==
    \A n \in 1 .. 2 * RunLeaves :
        sets[n].count > 0 /\ sets[n].count # SetSize(n) =>
            \E t \in Starts : setAt[t] = n /\ Unfinished(t) /\ place[t] # "check"

StateIsOwners ==
    /\ StateNamesOwner
    /\ \A s \in Starts : stateFile = [state |-> "STOPPED", pid |-> s] => place[s] = "ended"

\* Why a start may be refused; what it found was left by one that is over.
Over(t) == ~worker[t].alive /\ place[t] \in {"ended", "killed"}
Caused(s, why) ==
    /\ why # "unbound"
    /\ why = "binding" => edits > 0 \/ \E t \in Starts : script = "reviews" /\ place[t] = "killed"
    /\ why = "partial" => \E t \in Starts \ {s} : Unfinished(t) /\ Over(t)
    /\ why = "invalid" => edits > 0

CausesStand == \A s \in Starts : Caused(s, refusal[s])

RunnersInv ==
    /\ RunnersTypes /\ OneProducer /\ WorkerInPlace /\ BindingFirst /\ EditsShow
    /\ SetsInOrder /\ PartsHaveMakers /\ StateIsOwners /\ CompleteIsWhole /\ CausesStand

-----------------------------------------------------------------------------
\* How many sets there are, and how many files each has
LEMMA SetsAreFew ==
    ASSUME script \in {"normalization", "reviews", "recovery"}
    PROVE  /\ LastSet \in 1 .. 2 * RunLeaves
           /\ \A n \in Nat : SetSize(n) \in 1 .. 3
  <1>1. CASE script = "normalization"
    BY <1>1, RunnersAssumption DEF LastSet, SetSize
  <1>2. CASE script = "reviews"
    BY <1>2, RunnersAssumption DEF LastSet, SetSize
  <1>3. CASE script = "recovery"
    BY <1>3, RunnersAssumption DEF LastSet, SetSize
  <1> QED BY <1>1, <1>2, <1>3

LEMMA SizesStay ==
    ASSUME UNCHANGED script
    PROVE  LastSet' = LastSet /\ \A n \in Nat : SetSize(n)' = SetSize(n)
  BY DEF LastSet, SetSize

LEMMA TypeWords ==
    /\ Owning \cup {"off", "opened", "ended", "killed"} = Places
    /\ Owning = {"locked", "binding", "printing", "bound"} \cup Producing
    /\ \A c \in {"none", "lock", "binding", "unbound", "changed", "partial", "invalid", "worker"} :
          c \in Causes
    /\ \A s \in Starts, st \in {"RUNNING", "STOPPED", "FAILED", "COMPLETE"} :
          [state |-> st, pid |-> s] \in States
  BY DEF Places, Causes, States, Owning, Producing

LEMMA RunnersInvInit == ASSUME RunnersInit PROVE RunnersInv
  <1> USE RunnersAssumption DEF RunnersInit, NoWorker, Editions
  <1>1. LastSet \in 1 .. 2 * RunLeaves
    BY SetsAreFew
  <1>2. RunnersTypes
    <2>1. worker \in [Starts -> Workers]
      BY DEF Workers
    <2>2. sets \in Sets
      BY DEF Sets
    <2>3. place \in [Starts -> Places] /\ refusal \in [Starts -> Causes]
      BY DEF Places, Causes
    <2>4. stateFile \in States /\ world \in Worlds
      BY DEF States, Worlds
    <2>5. setAt \in [Starts -> 1 .. LastSet] /\ hashed \in [Starts -> Editions \cup {"none"}]
      BY <1>1
    <2>6. edits \in 0 .. MaxEdits /\ unseen \subseteq Starts
      OBVIOUS
    <2> QED BY <2>1, <2>2, <2>3, <2>4, <2>5, <2>6 DEF RunnersTypes
  <1>3. OneProducer /\ WorkerInPlace
    BY DEF OneProducer, WorkerInPlace, Owning
  <1>4. BindingFirst /\ EditsShow
    BY DEF BindingFirst, EditsShow, Producing
  <1>5. SetsInOrder /\ PartsHaveMakers
    <2>1. \A n \in 1 .. 2 * RunLeaves : SetSize(n) \in 1 .. 3
      BY SetsAreFew
    <2> QED BY <2>1 DEF SetsInOrder, PartsHaveMakers, Producing
  <1>6. StateIsOwners /\ CompleteIsWhole /\ CausesStand
    BY DEF StateIsOwners, StateNamesOwner, CompleteIsWhole, CausesStand, Caused
  <1> QED BY <1>2, <1>3, <1>4, <1>5, <1>6 DEF RunnersInv

-----------------------------------------------------------------------------
\* A start that has been in the run directory ends or is killed: what it wrote stays, and
\* what it says in run.state and of a refusal is true.
LEMMA LeaveKeeps ==
    ASSUME RunnersInv, NEW s \in Starts, NEW to \in {"ended", "killed"},
           place[s] \in Owning \cup {"opened"}, place' = [place EXCEPT ![s] = to],
           UNCHANGED <<outsideVars, setAt, hashed, worker, sets, bindingFile>>,
           to = "ended" => place[s] # "printing" /\ (~worker[s].alive \/ s \in unseen'),
           unseen \subseteq unseen' /\ unseen' \subseteq Starts,
           \/ UNCHANGED stateFile
           \/ /\ place[s] # "opened" \/ script = "reviews"
              /\ to = "ended"
              /\ \E st \in {"FAILED", "STOPPED", "COMPLETE"} :
                    /\ stateFile' = [state |-> st, pid |-> s]
                    /\ st = "COMPLETE" => place[s] = "last",
           \/ UNCHANGED refusal
           \/ \E why \in Causes : refusal' = [refusal EXCEPT ![s] = why] /\ Caused(s, why)
    PROVE  RunnersInv'
  <1>1. UNCHANGED <<script, passing, stopAsked, world, edits, setAt, hashed, worker, sets, bindingFile>>
        /\ LastSet' = LastSet /\ \A n \in Nat : SetSize(n)' = SetSize(n)
    BY SizesStay DEF outsideVars
  <1>2. place'[s] = to /\ \A t \in Starts \ {s} : place'[t] = place[t]
    BY DEF RunnersInv, RunnersTypes
  <1>3. RunnersTypes'
    <2>1. place' \in [Starts -> Places]
      BY TypeWords DEF RunnersInv, RunnersTypes
    <2>2. stateFile' \in States
      <3>1. stateFile \in States
        BY DEF RunnersInv, RunnersTypes
      <3>2. \A st \in {"FAILED", "STOPPED", "COMPLETE"} : [state |-> st, pid |-> s] \in States
        BY TypeWords
      <3> QED BY <3>1, <3>2
    <2>3. refusal' \in [Starts -> Causes]
      BY DEF RunnersInv, RunnersTypes
    <2> QED BY <1>1, <2>1, <2>2, <2>3 DEF RunnersInv, RunnersTypes
  <1>4. OneProducer'
    BY <1>1, <1>2 DEF RunnersInv, OneProducer, Owning
  <1>5. WorkerInPlace'
    BY <1>1, <1>2 DEF RunnersInv, WorkerInPlace, Early
  <1>6. BindingFirst'
    <2>1. ASSUME NEW t \in Starts, place'[t] \notin {"ended", "killed"} PROVE place'[t] = place[t]
      BY <1>2, <2>1
    <2>2. ASSUME NEW t \in Starts, place[t] \in {"printing", "killed"}
          PROVE  place'[t] \in {"printing", "killed"}
      BY <1>2, <2>2 DEF Owning
    <2> QED BY <1>1, <2>1, <2>2 DEF RunnersInv, BindingFirst, Producing
  <1>7. EditsShow'
    BY <1>1 DEF RunnersInv, EditsShow
  <1>8. \A n \in Nat : Finished(n)' = Finished(n)
    BY <1>1 DEF Finished
  <1>9. SetsInOrder'
    <2>1. \A n \in 1 .. 2 * RunLeaves :
             sets'[n].count <= SetSize(n)' /\ (sets'[n].count > 0 => sets'[n].of # "none")
      BY <1>1 DEF RunnersInv, SetsInOrder
    <2>2. ASSUME NEW t \in Starts, place'[t] \in Producing
          PROVE  place'[t] = place[t] /\ setAt'[t] = setAt[t] /\ setAt[t] \in Nat
      BY <1>1, <1>2, <2>2, RunnersAssumption, SetsAreFew DEF Producing, RunnersInv, RunnersTypes
    <2>3. LastSet \in Nat
      BY SetsAreFew DEF RunnersInv, RunnersTypes
    <2> QED BY <1>1, <1>2, <1>8, <2>1, <2>2, <2>3 DEF RunnersInv, SetsInOrder, Producing
  <1>10. PartsHaveMakers'
    BY <1>1, <1>2 DEF RunnersInv, PartsHaveMakers, Unfinished
  <1>11. StateIsOwners'
    <2>1. ASSUME NEW t \in Starts, script # "reviews",
                 place'[t] \in {"check", "forked", "waiting", "last", "stopping"}
          PROVE  stateFile' = [state |-> "RUNNING", pid |-> t]
      <3>1. t # s /\ place'[t] = place[t] /\ place[t] \in Owning
        BY <1>2, <2>1 DEF Owning
      <3>2. place[s] \notin Owning
        BY <3>1 DEF RunnersInv, OneProducer
      <3> QED BY <2>1, <3>1, <3>2 DEF RunnersInv, StateIsOwners, StateNamesOwner
    <2>2. ASSUME NEW t \in Starts, stateFile' = [state |-> "STOPPED", pid |-> t]
          PROVE  place'[t] = "ended"
      <3>1. CASE UNCHANGED stateFile
        BY <1>2, <2>2, <3>1 DEF RunnersInv, StateIsOwners, Owning
      <3>2. CASE ~UNCHANGED stateFile
        <4>1. t = s
          BY <2>2, <3>2
        <4> QED BY <1>2, <3>2, <4>1
      <3> QED BY <3>1, <3>2
    <2> QED BY <1>1, <2>1, <2>2 DEF StateIsOwners, StateNamesOwner
  <1>12. CompleteIsWhole'
    <2>1. CASE UNCHANGED stateFile
      BY <1>1, <2>1, SetsAreFew DEF RunnersInv, RunnersTypes, CompleteIsWhole
    <2>2. CASE ~UNCHANGED stateFile
      <3>1. ASSUME stateFile'.state = "COMPLETE" PROVE \A n \in 1 .. LastSet : Finished(n)
        BY <2>2, <3>1 DEF RunnersInv, SetsInOrder
      <3> QED BY <1>1, <3>1, SetsAreFew DEF CompleteIsWhole, Finished, RunnersInv, RunnersTypes
    <2> QED BY <2>1, <2>2
  <1>13. CausesStand'
    <2>1. ASSUME NEW t \in Starts, NEW why, Caused(t, why) PROVE Caused(t, why)'
      BY <1>1, <1>2, <2>1 DEF Caused, Unfinished, Over, Owning
    <2>2. ASSUME NEW t \in Starts PROVE Caused(t, refusal'[t])
      BY DEF RunnersInv, RunnersTypes, CausesStand
    <2> QED BY <2>1, <2>2 DEF CausesStand
  <1> QED BY <1>3, <1>4, <1>5, <1>6, <1>7, <1>9, <1>10, <1>11, <1>12, <1>13 DEF RunnersInv

LEMMA EndKeeps ==
    ASSUME RunnersInv, NEW s \in Starts, NEW st \in {"FAILED", "STOPPED", "COMPLETE"}, EndAs(s, st),
           place[s] \in (Owning \cup {"opened"}) \ {"printing"},
           UNCHANGED <<outsideVars, setAt, hashed, worker, sets, bindingFile>>,
           ~worker[s].alive \/ s \in unseen', unseen \subseteq unseen' /\ unseen' \subseteq Starts,
           st = "COMPLETE" => place[s] = "last",
           \/ UNCHANGED refusal
           \/ \E why \in Causes : refusal' = [refusal EXCEPT ![s] = why] /\ Caused(s, why)
    PROVE  RunnersInv'
  <1>1. place' = [place EXCEPT ![s] = "ended"]
    BY DEF EndAs, Move
  <1>2. \/ UNCHANGED stateFile
        \/ /\ place[s] # "opened" \/ script = "reviews"
           /\ stateFile' = [state |-> st, pid |-> s]
    BY DEF EndAs, KnowsStateFile, WriteRunState
  <1> QED BY <1>1, <1>2, LeaveKeeps

\* A start that fails has no worker by then, and the cause it gives stands.
LEMMA FailKeeps ==
    ASSUME RunnersInv, NEW s \in Starts, NEW why \in Causes, FailFor(s, why), Caused(s, why),
           place[s] \in {"opened", "binding", "bound", "check", "waiting", "last"},
           ~worker[s].alive,
           UNCHANGED <<outsideVars, setAt, hashed, worker, sets, bindingFile, unseen>>
    PROVE  RunnersInv'
  <1>1. unseen \subseteq Starts
    BY DEF RunnersInv, RunnersTypes
  <1>2. EndAs(s, "FAILED") /\ refusal' = [refusal EXCEPT ![s] = why]
    BY DEF FailFor
  <1>3. place[s] \in (Owning \cup {"opened"}) \ {"printing"}
    BY DEF Owning
  <1> QED BY <1>1, <1>2, <1>3, EndKeeps


LEMMA NoWorkerYet ==
    ASSUME RunnersInv, NEW s \in Starts, place[s] \in Early \cup {"check", "last"}
    PROVE  ~worker[s].alive
  BY DEF RunnersInv, WorkerInPlace, NoWorker, Early

\* A step to a next place that tells nothing new of files and workers
LEMMA MoveKeeps ==
    ASSUME RunnersInv, NEW s \in Starts, NEW to \in Places, place' = [place EXCEPT ![s] = to],
           UNCHANGED <<outsideVars, setAt, hashed, worker, sets, bindingFile, stateFile, refusal, unseen>>,
           \/ place[s] = "off" /\ to = "opened"
           \/ place[s] = "opened" /\ to = "locked" /\ ~RunLockHeld
           \/ place[s] = "forked" /\ to = "waiting"
           \/ place[s] = "waiting" /\ to = "stopping"
    PROVE  RunnersInv'
  <1>1. UNCHANGED <<script, passing, stopAsked, world, edits>>
        /\ LastSet' = LastSet /\ \A n \in Nat : SetSize(n)' = SetSize(n)
    BY SizesStay DEF outsideVars
  <1>2. place'[s] = to /\ \A t \in Starts \ {s} : place'[t] = place[t]
    BY DEF RunnersInv, RunnersTypes
  <1>3. RunnersTypes'
    <2>1. place' \in [Starts -> Places]
      BY DEF RunnersInv, RunnersTypes
    <2> QED BY <1>1, <2>1 DEF RunnersInv, RunnersTypes
  <1>4. OneProducer'
    BY <1>1, <1>2 DEF RunnersInv, OneProducer, Owning, RunLockHeld
  <1>5. WorkerInPlace'
    BY <1>1, <1>2 DEF RunnersInv, WorkerInPlace, Early
  <1>6. BindingFirst'
    <2>1. \A t \in Starts : place'[t] \in Producing => place[t] \in Producing
      BY <1>2 DEF Producing
    <2>2. \A t \in Starts : place'[t] \in {"binding", "printing", "bound", "killed"} =>
                              place'[t] = place[t]
      BY <1>2
    <2>3. \A t \in Starts : place[t] \in {"printing", "killed"} => place'[t] = place[t]
      BY <1>2
    <2> QED BY <1>1, <2>1, <2>2, <2>3 DEF RunnersInv, BindingFirst
  <1>7. EditsShow'
    BY <1>1 DEF RunnersInv, EditsShow
  <1>8. SetsInOrder'
    <2>1. \A n \in Nat : Finished(n)' = Finished(n)
      BY <1>1 DEF Finished
    <2>2. \A t \in Starts : place'[t] \in Producing => place[t] \in Producing /\ setAt[t] \in Nat
      BY <1>2, SetsAreFew, RunnersAssumption DEF Producing, RunnersInv, RunnersTypes
    <2>3. \A t \in Starts : place'[t] = "last" => place[t] = "last"
      BY <1>2
    <2>4. LastSet \in Nat
      BY SetsAreFew DEF RunnersInv, RunnersTypes
    <2> QED BY <1>1, <2>1, <2>2, <2>3, <2>4 DEF RunnersInv, SetsInOrder
  <1>9. PartsHaveMakers'
    BY <1>1, <1>2 DEF RunnersInv, PartsHaveMakers, Unfinished
  <1>10. StateIsOwners'
    BY <1>1, <1>2 DEF RunnersInv, StateIsOwners, StateNamesOwner
  <1>11. CompleteIsWhole'
    BY <1>1, SetsAreFew DEF RunnersInv, RunnersTypes, CompleteIsWhole
  <1>12. CausesStand'
    <2>1. ASSUME NEW t \in Starts, NEW why, Caused(t, why) PROVE Caused(t, why)'
      BY <1>1, <1>2, <2>1 DEF Caused, Unfinished, Over
    <2> QED BY <2>1 DEF RunnersInv, CausesStand
  <1> QED BY <1>3, <1>4, <1>5, <1>6, <1>7, <1>8, <1>9, <1>10, <1>11, <1>12 DEF RunnersInv

-----------------------------------------------------------------------------
LEMMA OpenRunKeeps == ASSUME RunnersInv, NEW s \in Starts, OpenRun(s) PROVE RunnersInv'
  <1>1. "opened" \in Places
    BY DEF Places
  <1> QED BY <1>1, MoveKeeps DEF OpenRun, Move

LEMMA LockRunKeeps == ASSUME RunnersInv, NEW s \in Starts, LockRun(s) PROVE RunnersInv'
  <1>1. CASE RunLockHeld
    <2>1. ~worker[s].alive
      BY NoWorkerYet DEF LockRun, Early
    <2>2. "lock" \in Causes /\ Caused(s, "lock")
      BY DEF Causes, Caused
    <2> QED BY <1>1, <2>1, <2>2, FailKeeps DEF LockRun
  <1>2. CASE ~RunLockHeld
    <2>1. "locked" \in Places
      BY DEF Places, Owning
    <2> QED BY <1>2, <2>1, MoveKeeps DEF LockRun, Move
  <1> QED BY <1>1, <1>2

LEMMA KnowWorkerKeeps == ASSUME RunnersInv, NEW s \in Starts, KnowWorker(s) PROVE RunnersInv'
  <1>1. "waiting" \in Places
    BY DEF Places, Owning
  <1> QED BY <1>1, MoveKeeps DEF KnowWorker, Move

LEMMA CheckFailsKeeps == ASSUME RunnersInv, NEW s \in Starts, CheckFails(s) PROVE RunnersInv'
  <1> DEFINE n == setAt[s]
  <1>1. ~worker[s].alive
    BY NoWorkerYet DEF CheckFails
  <1>2. UNCHANGED <<outsideVars, setAt, hashed, worker, sets, bindingFile, unseen>> /\ place[s] = "check"
    BY DEF CheckFails
  <1>3. n \in 1 .. 2 * RunLeaves /\ n \in Nat /\ SetSize(n) \in 1 .. 3 /\ sets[n].count \in 0 .. 3
    BY SetsAreFew, RunnersAssumption DEF RunnersInv, RunnersTypes, Sets
  <1>4. CASE FailFor(s, "changed")
    <2>1. "changed" \in Causes /\ Caused(s, "changed")
      BY DEF Causes, Caused
    <2> QED BY <1>1, <1>2, <1>4, <2>1, FailKeeps
  <1>5. CASE Present(s) /\ ~Whole(s) /\ FailFor(s, "partial")
    <2>1. PICK t \in Starts : setAt[t] = n /\ Unfinished(t) /\ place[t] # "check"
      BY <1>3, <1>5 DEF RunnersInv, PartsHaveMakers, Present, Whole
    <2>2. t # s /\ place[s] \in Owning
      BY <1>2, <2>1 DEF Owning
    <2>3. ~worker[t].alive /\ place[t] \notin Owning
      BY <2>2 DEF RunnersInv, OneProducer
    <2>4. place[t] \notin {"off", "opened"}
      BY <2>1 DEF RunnersInv, WorkerInPlace, Early, Unfinished, NoWorker
    <2>5. Over(t)
      BY <2>3, <2>4, TypeWords DEF RunnersInv, RunnersTypes, Over
    <2>6. "partial" \in Causes /\ Caused(s, "partial")
      BY <2>1, <2>2, <2>5 DEF Causes, Caused
    <2> QED BY <1>1, <1>2, <1>5, <2>6, FailKeeps
  <1>6. CASE Undisturbed(s) /\ script # "reviews" /\ Whole(s) /\ ~ValidSet(s) /\ FailFor(s, "invalid")
    <2>1. ASSUME edits = 0 PROVE FALSE
      <3>1. sets[n].of = "sealed" /\ world.inputs = "sealed"
        BY <1>3, <1>6, <2>1 DEF Whole, RunnersInv, RunnersTypes, EditsShow, SetsInOrder, Sets, Editions
      <3> QED BY <1>6, <3>1 DEF ValidSet, ValidNormalization, ValidRecovery, BindsInputs, RunnersInv,
                                RunnersTypes
    <2>2. edits > 0
      BY <2>1, RunnersAssumption DEF RunnersInv, RunnersTypes
    <2>3. "invalid" \in Causes /\ Caused(s, "invalid")
      BY <2>2 DEF Causes, Caused
    <2> QED BY <1>1, <1>2, <1>6, <2>3, FailKeeps
  <1> QED BY <1>4, <1>5, <1>6 DEF CheckFails

LEMMA StopBetweenSetsKeeps == ASSUME RunnersInv, NEW s \in Starts, StopBetweenSets(s) PROVE RunnersInv'
  <1>1. ~worker[s].alive /\ unseen \subseteq Starts
    BY NoWorkerYet DEF StopBetweenSets, RunnersInv, RunnersTypes
  <1> QED BY <1>1, EndKeeps DEF StopBetweenSets, Owning

LEMMA FinishRunKeeps == ASSUME RunnersInv, NEW s \in Starts, FinishRun(s) PROVE RunnersInv'
  <1>1. ~worker[s].alive /\ unseen \subseteq Starts
    BY NoWorkerYet DEF FinishRun, RunnersInv, RunnersTypes
  <1>2. CASE EndAs(s, "COMPLETE") /\ UNCHANGED refusal
    BY <1>1, <1>2, EndKeeps DEF FinishRun, Owning
  <1>3. CASE FailFor(s, "changed")
    <2>1. "changed" \in Causes /\ Caused(s, "changed")
      BY DEF Causes, Caused
    <2> QED BY <1>1, <1>3, <2>1, FailKeeps DEF FinishRun
  <1> QED BY <1>2, <1>3 DEF FinishRun

LEMMA TermRunKeeps == ASSUME RunnersInv, NEW s \in Starts, TermRun(s) PROVE RunnersInv'
  <1>1. CASE place[s] = "waiting"
    <2>1. "stopping" \in Places
      BY DEF Places, Owning
    <2> QED BY <1>1, <2>1, MoveKeeps DEF TermRun, Move
  <1>2. CASE place[s] # "waiting"
    <2>1. unseen \subseteq unseen' /\ unseen' \subseteq Starts
      BY DEF TermRun, RunnersInv, RunnersTypes
    <2>2. ~worker[s].alive \/ s \in unseen'
      <3>1. place[s] = "forked" => s \in unseen'
        BY DEF TermRun
      <3>2. place[s] \in {"opened", "locked", "binding", "bound", "check", "forked", "last"}
        BY <1>2 DEF TermRun, Owning
      <3> QED BY <3>1, <3>2, NoWorkerYet DEF Early
    <2> QED BY <1>2, <2>1, <2>2, EndKeeps DEF TermRun
  <1> QED BY <1>1, <1>2

LEMMA KillRunKeeps == ASSUME RunnersInv, NEW s \in Starts, KillRun(s) PROVE RunnersInv'
  <1>1. unseen \subseteq Starts
    BY DEF RunnersInv, RunnersTypes
  <1> QED BY <1>1, LeaveKeeps DEF KillRun, Move

-----------------------------------------------------------------------------
\* A set that is finished stays so when the binding is written, as none is before that.
LEMMA FinishedStays ==
    ASSUME RunnersInv, UNCHANGED <<script, passing, sets>>,
           UNCHANGED bindingFile \/ bindingFile = "none" \/ script = "reviews",
           NEW n \in 1 .. 2 * RunLeaves, Finished(n)
    PROVE  Finished(n)'
  <1>1. SetSize(n)' = SetSize(n) /\ SetSize(n) \in 1 .. 3
    BY SizesStay, SetsAreFew DEF RunnersInv, RunnersTypes
  <1>2. sets[n].count # 0
    BY <1>1 DEF Finished
  <1>3. UNCHANGED bindingFile \/ script = "reviews"
    BY <1>2 DEF RunnersInv, BindingFirst
  <1> QED BY <1>1, <1>3 DEF Finished

\* The owner of the lock goes on, without a worker before and after.
LEMMA OwnerMoves ==
    ASSUME RunnersInv, NEW s \in Starts, NEW to \in Owning, place[s] \in Owning, ~worker[s].alive,
           place' = [place EXCEPT ![s] = to], UNCHANGED <<outsideVars, worker, sets, refusal, unseen>>,
           setAt' \in [Starts -> 1 .. LastSet], \A t \in Starts \ {s} : setAt'[t] = setAt[t],
           hashed' \in [Starts -> Editions \cup {"none"}],
           bindingFile' \in Editions \cup {"none", "torn"},
           UNCHANGED bindingFile \/ bindingFile = "none" \/ script = "reviews",
           to \in Early => place[s] \in Early /\ setAt'[s] = setAt[s],
           place[s] \in Early \/ Whole(s),
           to \in Producing => \A n \in 1 .. setAt'[s] - 1 : Finished(n),
           to = "last" => \A n \in 1 .. LastSet : Finished(n),
           \/ stateFile' = [state |-> "RUNNING", pid |-> s]
           \/ UNCHANGED stateFile /\ (to \in Producing => place[s] \in Producing)
    PROVE  /\ RunnersTypes' /\ OneProducer' /\ WorkerInPlace' /\ SetsInOrder' /\ PartsHaveMakers'
           /\ StateIsOwners' /\ CompleteIsWhole' /\ CausesStand'
  <1>1. UNCHANGED <<script, passing, stopAsked, world, edits, worker, sets, refusal, unseen>>
        /\ LastSet' = LastSet /\ \A n \in Nat : SetSize(n)' = SetSize(n)
    BY SizesStay DEF outsideVars
  <1>2. place'[s] = to /\ \A t \in Starts \ {s} : place'[t] = place[t]
    BY DEF RunnersInv, RunnersTypes
  <1>3. RunnersTypes'
    <2>1. place' \in [Starts -> Places]
      BY TypeWords DEF RunnersInv, RunnersTypes
    <2>2. stateFile' \in States
      <3>1. stateFile \in States
        BY DEF RunnersInv, RunnersTypes
      <3>2. [state |-> "RUNNING", pid |-> s] \in States
        BY TypeWords
      <3> QED BY <3>1, <3>2
    <2> QED BY <1>1, <2>1, <2>2 DEF RunnersInv, RunnersTypes
  <1>4. OneProducer'
    BY <1>1, <1>2 DEF RunnersInv, OneProducer
  <1>5. WorkerInPlace'
    BY <1>1, <1>2 DEF RunnersInv, WorkerInPlace
  <1>6. LastSet \in 1 .. 2 * RunLeaves
    BY SetsAreFew DEF RunnersInv, RunnersTypes
  <1>7. \A n \in 1 .. 2 * RunLeaves : Finished(n) => Finished(n)'
    BY <1>1, FinishedStays
  <1>8. SetsInOrder'
    <2>1. \A n \in 1 .. 2 * RunLeaves :
             sets'[n].count <= SetSize(n)' /\ (sets'[n].count > 0 => sets'[n].of # "none")
      BY <1>1 DEF RunnersInv, SetsInOrder
    <2>2. ASSUME NEW t \in Starts, place'[t] \in Producing, NEW n \in 1 .. setAt'[t] - 1
          PROVE  Finished(n)'
      <3>1. Finished(n)
        BY <1>2, <2>2 DEF RunnersInv, SetsInOrder
      <3>2. n \in 1 .. 2 * RunLeaves
        <4>1. setAt'[t] \in 1 .. LastSet
          OBVIOUS
        <4> QED BY <1>6, <2>2, <4>1, RunnersAssumption
      <3> QED BY <1>7, <3>1, <3>2
    <2>3. ASSUME NEW t \in Starts, place'[t] = "last", NEW n \in 1 .. LastSet'
          PROVE  Finished(n)'
      <3>1. Finished(n)
        BY <1>1, <1>2, <2>3 DEF RunnersInv, SetsInOrder
      <3>2. n \in 1 .. 2 * RunLeaves
        BY <1>1, <1>6, <2>3, RunnersAssumption
      <3> QED BY <1>7, <3>1, <3>2
    <2> QED BY <2>1, <2>2, <2>3 DEF SetsInOrder
  <1>9. PartsHaveMakers'
    <2>1. ASSUME NEW n \in 1 .. 2 * RunLeaves, sets[n].count > 0, sets[n].count # SetSize(n)
          PROVE  \E t \in Starts : setAt'[t] = n /\ Unfinished(t)' /\ place'[t] # "check"
      <3>1. PICK t \in Starts : setAt[t] = n /\ Unfinished(t) /\ place[t] # "check"
        BY <2>1 DEF RunnersInv, PartsHaveMakers
      <3>2. t # s
        BY <2>1, <3>1 DEF RunnersInv, WorkerInPlace, NoWorker, Unfinished, Whole
      <3> QED BY <1>1, <1>2, <3>1, <3>2 DEF Unfinished
    <2>2. \A n \in 1 .. 2 * RunLeaves : SetSize(n)' = SetSize(n)
      BY <1>1
    <2> QED BY <1>1, <2>1, <2>2 DEF PartsHaveMakers
  <1>10. StateIsOwners'
    <2>1. ASSUME NEW t \in Starts, script # "reviews", place'[t] \in Producing
          PROVE  stateFile' = [state |-> "RUNNING", pid |-> t]
      <3>1. t = s
        BY <1>2, <2>1, TypeWords DEF RunnersInv, OneProducer
      <3>2. place[s] \in Producing => stateFile = [state |-> "RUNNING", pid |-> s]
        BY <2>1 DEF RunnersInv, StateIsOwners, StateNamesOwner, Producing
      <3> QED BY <1>2, <2>1, <3>1, <3>2
    <2>2. ASSUME NEW t \in Starts, stateFile' = [state |-> "STOPPED", pid |-> t]
          PROVE  place'[t] = "ended"
      <3>1. UNCHANGED stateFile
        BY <2>2
      <3>2. place[t] = "ended"
        BY <2>2, <3>1 DEF RunnersInv, StateIsOwners
      <3> QED BY <1>2, <3>2 DEF Owning
    <2> QED BY <1>1, <2>1, <2>2 DEF StateIsOwners, StateNamesOwner, Producing
  <1>11. CompleteIsWhole'
    <2>1. ASSUME stateFile'.state = "COMPLETE", NEW n \in 1 .. LastSet PROVE Finished(n)'
      <3>1. stateFile.state = "COMPLETE"
        BY <2>1
      <3>2. Finished(n)
        BY <2>1, <3>1 DEF RunnersInv, CompleteIsWhole, Finished
      <3>3. n \in 1 .. 2 * RunLeaves
        BY <1>6, <2>1, RunnersAssumption
      <3> QED BY <1>7, <3>2, <3>3
    <2> QED BY <1>1, <2>1 DEF CompleteIsWhole, Finished
  <1>12. CausesStand'
    <2>1. ASSUME NEW t \in Starts, NEW why, Caused(t, why) PROVE Caused(t, why)'
      BY <1>1, <1>2, <2>1 DEF Caused, Unfinished, Over, Owning
    <2> QED BY <1>1, <2>1 DEF RunnersInv, CausesStand
  <1> QED BY <1>3, <1>4, <1>5, <1>8, <1>9, <1>10, <1>11, <1>12

LEMMA HashInputsKeeps == ASSUME RunnersInv, NEW s \in Starts, HashInputs(s) PROVE RunnersInv'
  <1> DEFINE content == IF script = "recovery" THEN world.inputs ELSE "sealed"
  <1>1. /\ place[s] = "locked" /\ place' = [place EXCEPT ![s] = "binding"]
        /\ hashed' = [hashed EXCEPT ![s] = content]
        /\ UNCHANGED <<outsideVars, setAt, worker, sets, bindingFile, refusal, unseen>>
        /\ stateFile' = [state |-> "RUNNING", pid |-> s] \/ UNCHANGED stateFile
    BY DEF HashInputs, Move, WriteRunState
  <1>2. UNCHANGED <<script, world, edits>>
    BY <1>1 DEF outsideVars
  <1>3. content \in Editions /\ (script # "recovery" => content = "sealed")
        /\ (edits = 0 => content = "sealed")
    BY DEF RunnersInv, RunnersTypes, Worlds, Editions, EditsShow
  <1> HIDE DEF content
  <1>4. hashed' \in [Starts -> Editions \cup {"none"}]
        /\ hashed'[s] = content /\ \A t \in Starts \ {s} : hashed'[t] = hashed[t]
    BY <1>1, <1>3 DEF RunnersInv, RunnersTypes
  <1>5. place'[s] = "binding" /\ \A t \in Starts \ {s} : place'[t] = place[t]
    BY <1>1 DEF RunnersInv, RunnersTypes
  <1>6. ~worker[s].alive
    BY <1>1, NoWorkerYet DEF Early
  <1>7. "binding" \in Owning /\ "locked" \in Owning /\ "locked" \in Early /\ "binding" \notin Producing
        /\ "binding" # "last"
    BY DEF Owning, Early, Producing
  <1>8. setAt' \in [Starts -> 1 .. LastSet] /\ \A t \in Starts : setAt'[t] = setAt[t]
    BY <1>1 DEF RunnersInv, RunnersTypes
  <1>9. bindingFile' \in Editions \cup {"none", "torn"}
    BY <1>1 DEF RunnersInv, RunnersTypes
  <1>10. /\ RunnersTypes' /\ OneProducer' /\ WorkerInPlace' /\ SetsInOrder' /\ PartsHaveMakers'
         /\ StateIsOwners' /\ CompleteIsWhole' /\ CausesStand'
    BY <1>1, <1>4, <1>6, <1>7, <1>8, <1>9, OwnerMoves
  <1>11. BindingFirst'
    <2>1. content # "none"
      BY <1>3 DEF Editions
    <2> QED BY <1>1, <1>2, <1>4, <1>5, <2>1 DEF RunnersInv, BindingFirst, Producing
  <1>12. EditsShow'
    <2>1. script # "recovery" \/ edits = 0 => content # "edited"
      BY <1>3
    <2> QED BY <1>1, <1>2, <1>4, <2>1 DEF RunnersInv, EditsShow
  <1> QED BY <1>10, <1>11, <1>12 DEF RunnersInv

\* The binding is found as it was hashed, or written; in between it is torn.
LEMMA BindingMoves ==
    ASSUME RunnersInv, NEW s \in Starts, NEW to \in {"printing", "bound"},
           place[s] \in {"binding", "printing"}, place' = [place EXCEPT ![s] = to],
           UNCHANGED <<outsideVars, setAt, hashed, worker, sets, stateFile, refusal, unseen>>,
           to = "bound" => bindingFile' = hashed[s],
           to = "printing" => bindingFile = "none" /\ bindingFile' = "torn",
           bindingFile' = bindingFile \/ bindingFile = "none" \/ script = "reviews",
           to = "printing" => script = "reviews"
    PROVE  RunnersInv'
  <1>1. place'[s] = to /\ \A t \in Starts \ {s} : place'[t] = place[t]
    BY DEF RunnersInv, RunnersTypes
  <1>2. place[s] \in Owning /\ to \in Owning /\ place[s] \in Early /\ to \notin Producing /\ to # "last"
    BY DEF Owning, Early, Producing
  <1>3. ~worker[s].alive
    BY <1>2, NoWorkerYet
  <1>4. hashed[s] \in Editions
    BY DEF RunnersInv, RunnersTypes, BindingFirst
  <1>5. bindingFile' \in Editions \cup {"none", "torn"} /\ bindingFile' # "none"
    BY <1>4 DEF Editions
  <1>6. /\ setAt' \in [Starts -> 1 .. LastSet] /\ \A t \in Starts : setAt'[t] = setAt[t]
        /\ hashed' \in [Starts -> Editions \cup {"none"}]
    BY DEF RunnersInv, RunnersTypes
  <1>7. /\ RunnersTypes' /\ OneProducer' /\ WorkerInPlace' /\ SetsInOrder' /\ PartsHaveMakers'
        /\ StateIsOwners' /\ CompleteIsWhole' /\ CausesStand'
    BY <1>2, <1>3, <1>5, <1>6, OwnerMoves
  <1>8. UNCHANGED <<script, world, edits>>
    BY DEF outsideVars
  <1>9. BindingFirst'
    <2>1. bindingFile' = "torn" => script = "reviews" /\ \E t \in Starts : place'[t] \in {"printing", "killed"}
      <3>1. CASE to = "printing"
        BY <1>1, <3>1
      <3>2. CASE to = "bound"
        BY <1>4, <3>2 DEF Editions
      <3> QED BY <3>1, <3>2
    <2>2. ASSUME NEW t \in Starts PROVE
             /\ place'[t] \in Producing \cup {"binding", "printing", "bound"} => hashed'[t] # "none"
             /\ script # "reviews" /\ place'[t] \in Producing \cup {"bound"} => bindingFile' = hashed'[t]
             /\ place'[t] = "printing" => script = "reviews"
      <3>1. CASE t = s
        BY <1>1, <1>2, <1>4, <3>1 DEF Editions
      <3>2. CASE t # s
        <4>1. place'[t] = place[t] /\ hashed'[t] = hashed[t]
          BY <1>1, <3>2
        <4>2. place[t] \notin Producing \cup {"bound"}
          BY <1>2, <3>2, TypeWords DEF RunnersInv, OneProducer
        <4> QED BY <4>1, <4>2 DEF RunnersInv, BindingFirst
      <3> QED BY <3>1, <3>2
    <2> QED BY <1>5, <1>8, <2>1, <2>2 DEF BindingFirst
  <1>10. EditsShow'
    BY <1>8 DEF RunnersInv, EditsShow
  <1> QED BY <1>7, <1>9, <1>10 DEF RunnersInv

LEMMA BindRunKeeps == ASSUME RunnersInv, NEW s \in Starts, BindRun(s) PROVE RunnersInv'
  <1>1. /\ place[s] = "binding"
        /\ UNCHANGED <<outsideVars, setAt, hashed, worker, sets, unseen>>
    BY DEF BindRun
  <1>2. ~worker[s].alive
    BY <1>1, NoWorkerYet DEF Early
  <1>3. CASE Move(s, "bound") /\ bindingFile' = hashed[s] /\ bindingFile \in {"none", hashed[s]}
             /\ UNCHANGED <<stateFile, refusal>>
    BY <1>1, <1>3, BindingMoves DEF Move
  <1>4. CASE /\ bindingFile = "none" /\ script = "reviews" /\ Move(s, "printing")
             /\ bindingFile' = "torn" /\ UNCHANGED <<stateFile, refusal>>
    BY <1>1, <1>4, BindingMoves DEF Move
  <1>5. CASE bindingFile \notin {"none", hashed[s]} /\ FailFor(s, "binding") /\ UNCHANGED bindingFile
    <2>1. ASSUME edits = 0, ~\E t \in Starts : script = "reviews" /\ place[t] = "killed" PROVE FALSE
      <3>1. bindingFile = "torn"
        BY <1>1, <1>5, <2>1 DEF RunnersInv, RunnersTypes, EditsShow, BindingFirst, Editions
      <3>2. PICK t \in Starts : place[t] = "printing"
        BY <2>1, <3>1 DEF RunnersInv, BindingFirst
      <3>3. t = s
        BY <1>1, <3>2 DEF RunnersInv, OneProducer, Owning
      <3> QED BY <1>1, <3>2, <3>3
    <2>2. "binding" \in Causes /\ Caused(s, "binding")
      BY <2>1, RunnersAssumption DEF Causes, Caused, RunnersInv, RunnersTypes
    <2> QED BY <1>1, <1>2, <1>5, <2>2, FailKeeps
  <1>6. CASE bindingFile = "none" /\ \E n \in DOMAIN sets : sets[n].count > 0
    BY <1>6 DEF RunnersInv, RunnersTypes, Sets, BindingFirst
  <1> QED BY <1>3, <1>4, <1>5, <1>6 DEF BindRun

LEMMA PrintBindingKeeps == ASSUME RunnersInv, NEW s \in Starts, PrintBinding(s) PROVE RunnersInv'
  <1>1. script = "reviews"
    BY DEF PrintBinding, RunnersInv, BindingFirst
  <1> QED BY <1>1, BindingMoves DEF PrintBinding, Move

LEMMA PreflightKeeps == ASSUME RunnersInv, NEW s \in Starts, Preflight(s) PROVE RunnersInv'
  <1>1. /\ place[s] = "bound"
        /\ UNCHANGED <<outsideVars, setAt, hashed, worker, sets, bindingFile, unseen>>
    BY DEF Preflight
  <1>2. ~worker[s].alive /\ unseen \subseteq Starts /\ "bound" \in Owning /\ "check" \in Owning
    BY <1>1, NoWorkerYet DEF Early, Owning, RunnersInv, RunnersTypes
  <1>3. CASE FailFor(s, "changed")
    <2>1. "changed" \in Causes /\ Caused(s, "changed")
      BY DEF Causes, Caused
    <2> QED BY <1>1, <1>2, <1>3, <2>1, FailKeeps
  <1>4. CASE EndAs(s, "STOPPED") /\ UNCHANGED refusal
    BY <1>1, <1>2, <1>4, EndKeeps
  <1>5. CASE Move(s, "check") /\ WriteRunState(s, "RUNNING") /\ UNCHANGED refusal
    <2>1. place' = [place EXCEPT ![s] = "check"] /\ stateFile' = [state |-> "RUNNING", pid |-> s]
      BY <1>5 DEF Move, WriteRunState
    <2>2. place'[s] = "check" /\ \A t \in Starts \ {s} : place'[t] = place[t]
      BY <2>1 DEF RunnersInv, RunnersTypes
    <2>3. /\ setAt' \in [Starts -> 1 .. LastSet] /\ \A t \in Starts : setAt'[t] = setAt[t]
          /\ hashed' \in [Starts -> Editions \cup {"none"}]
          /\ bindingFile' \in Editions \cup {"none", "torn"}
      BY <1>1 DEF RunnersInv, RunnersTypes
    <2>4. place[s] \in Early /\ setAt'[s] = 1 /\ "check" \notin Early
      BY <1>1 DEF RunnersInv, WorkerInPlace, Early
    <2>5. /\ RunnersTypes' /\ OneProducer' /\ WorkerInPlace' /\ SetsInOrder' /\ PartsHaveMakers'
          /\ StateIsOwners' /\ CompleteIsWhole' /\ CausesStand'
      <3>1. \A n \in 1 .. setAt'[s] - 1 : Finished(n)
        BY <2>4
      <3> QED BY <1>1, <1>2, <1>5, <2>1, <2>3, <2>4, <3>1, OwnerMoves
    <2>6. UNCHANGED <<script, world, edits>>
      BY <1>1 DEF outsideVars
    <2>7. BindingFirst'
      <3>1. \A t \in Starts : place[t] \in {"printing", "killed"} => place'[t] = place[t]
        BY <1>1, <2>2
      <3> QED BY <1>1, <2>2, <2>6, <3>1 DEF RunnersInv, BindingFirst, Producing
    <2>8. EditsShow'
      BY <1>1, <2>6 DEF RunnersInv, EditsShow
    <2> QED BY <2>5, <2>7, <2>8 DEF RunnersInv
  <1> QED BY <1>3, <1>4, <1>5 DEF Preflight

\* What is undisturbed, whole and valid is finished.
LEMMA ValidIsFinished ==
    ASSUME RunnersInv, NEW s \in Starts, place[s] \in Producing, Undisturbed(s), Whole(s), ValidSet(s)
    PROVE  Finished(setAt[s])
  <1>1. CASE script = "normalization"
    BY <1>1 DEF ValidSet, ValidNormalization, BindsInputs, Whole, Finished
  <1>2. CASE script = "reviews"
    BY <1>2 DEF ValidSet, ValidReview, BindsInputs, Whole, Finished
  <1>3. CASE script = "recovery"
    <2>1. bindingFile = hashed[s]
      BY <1>3 DEF RunnersInv, BindingFirst
    <2> QED BY <1>3, <2>1 DEF ValidSet, ValidRecovery, BindsInputs, Whole, Finished, Undisturbed
  <1> QED BY <1>1, <1>2, <1>3 DEF RunnersInv, RunnersTypes

LEMMA AdvanceKeeps ==
    ASSUME RunnersInv, NEW s \in Starts, place[s] \in {"check", "waiting"}, ~worker[s].alive,
           Undisturbed(s), Whole(s), ValidSet(s), Advance(s),
           UNCHANGED <<outsideVars, hashed, worker, sets, bindingFile, refusal, unseen>>,
           stateFile' = [state |-> "RUNNING", pid |-> s] \/ UNCHANGED stateFile
    PROVE  RunnersInv'
  <1>1. PICK to \in {"check", "last"} :
           /\ place' = [place EXCEPT ![s] = to]
           /\ to = "check" => setAt[s] < LastSet /\ setAt' = [setAt EXCEPT ![s] = @ + 1]
           /\ to = "last" => ~(setAt[s] < LastSet) /\ UNCHANGED setAt
    BY DEF Advance, Move
  <1>2. place'[s] = to /\ \A t \in Starts \ {s} : place'[t] = place[t]
    BY <1>1 DEF RunnersInv, RunnersTypes
  <1>3. setAt \in [Starts -> 1 .. LastSet] /\ LastSet \in 1 .. 2 * RunLeaves /\ LastSet \in Nat
        /\ setAt[s] \in Nat
    BY SetsAreFew, RunnersAssumption DEF RunnersInv, RunnersTypes
  <1>4. setAt' \in [Starts -> 1 .. LastSet] /\ \A t \in Starts \ {s} : setAt'[t] = setAt[t]
    BY <1>1, <1>3
  <1>5. \A n \in 1 .. setAt[s] : Finished(n)
    <2>1. place[s] \in Producing
      BY DEF Producing
    <2>2. \A n \in 1 .. setAt[s] - 1 : Finished(n)
      BY <2>1 DEF RunnersInv, SetsInOrder
    <2>3. Finished(setAt[s])
      BY <2>1, ValidIsFinished
    <2> QED BY <1>3, <2>2, <2>3
  <1>6. \A n \in 1 .. setAt'[s] - 1 : Finished(n)
    <2>1. setAt'[s] \in {setAt[s], setAt[s] + 1}
      BY <1>1, <1>3
    <2> QED BY <1>3, <1>5, <2>1
  <1>7. to = "last" => \A n \in 1 .. LastSet : Finished(n)
    <2>1. to = "last" => setAt[s] = LastSet
      BY <1>1, <1>3
    <2> QED BY <1>5, <2>1
  <1>8. /\ to \in Owning /\ place[s] \in Owning /\ to \notin Early /\ place[s] \in Producing
        /\ to \in Producing
    BY DEF Owning, Early, Producing
  <1>9. /\ hashed' \in [Starts -> Editions \cup {"none"}]
        /\ bindingFile' \in Editions \cup {"none", "torn"}
    BY DEF RunnersInv, RunnersTypes
  <1>10. /\ RunnersTypes' /\ OneProducer' /\ WorkerInPlace' /\ SetsInOrder' /\ PartsHaveMakers'
         /\ StateIsOwners' /\ CompleteIsWhole' /\ CausesStand'
    BY <1>1, <1>4, <1>6, <1>7, <1>8, <1>9, OwnerMoves
  <1>11. UNCHANGED <<script, world, edits>>
    BY DEF outsideVars
  <1>12. BindingFirst'
    <2>1. \A t \in Starts : place'[t] \in Producing => place[t] \in Producing
      BY <1>2, <1>8
    <2>2. \A t \in Starts : place'[t] \in {"binding", "printing", "bound", "killed"} =>
                              place'[t] = place[t]
      BY <1>2
    <2>3. \A t \in Starts : place[t] \in {"printing", "killed"} => place'[t] = place[t]
      BY <1>2
    <2> QED BY <1>11, <2>1, <2>2, <2>3 DEF RunnersInv, BindingFirst
  <1>13. EditsShow'
    BY <1>11 DEF RunnersInv, EditsShow
  <1> QED BY <1>10, <1>12, <1>13 DEF RunnersInv

LEMMA ReuseSetKeeps == ASSUME RunnersInv, NEW s \in Starts, ReuseSet(s) PROVE RunnersInv'
  <1>1. ~worker[s].alive
    BY NoWorkerYet DEF ReuseSet
  <1> QED BY <1>1, AdvanceKeeps DEF ReuseSet, WriteRunState

LEMMA CollectWorkerKeeps == ASSUME RunnersInv, NEW s \in Starts, CollectWorker(s) PROVE RunnersInv'
  <1>1. CASE Undisturbed(s) /\ Whole(s) /\ ValidSet(s) /\ Advance(s) /\ UNCHANGED <<stateFile, refusal>>
    BY <1>1, AdvanceKeeps DEF CollectWorker
  <1>2. CASE FailFor(s, "worker") /\ UNCHANGED setAt
    <2>1. "worker" \in Causes /\ Caused(s, "worker")
      BY DEF Causes, Caused
    <2> QED BY <1>2, <2>1, FailKeeps DEF CollectWorker
  <1> QED BY <1>1, <1>2 DEF CollectWorker

-----------------------------------------------------------------------------
LEMMA StartWorkerKeeps == ASSUME RunnersInv, NEW s \in Starts, StartWorker(s) PROVE RunnersInv'
  <1>1. /\ place[s] = "check" /\ UNCHANGED <<outsideVars, setAt, hashed, sets, bindingFile, refusal, unseen>>
        /\ worker' = [worker EXCEPT ![s] = [alive |-> TRUE, ok |-> FALSE, of |-> world.inputs, done |-> 0]]
        /\ stateFile' = [state |-> "RUNNING", pid |-> s]
    BY DEF StartWorker, WriteRunState
  <1>2. UNCHANGED <<script, passing, stopAsked, world, edits>>
        /\ LastSet' = LastSet /\ \A n \in Nat : SetSize(n)' = SetSize(n)
    BY <1>1, SizesStay DEF outsideVars
  <1>3. PICK to \in {"forked", "waiting"} : place' = [place EXCEPT ![s] = to]
    BY DEF StartWorker, Move
  <1>4. place'[s] = to /\ \A t \in Starts \ {s} : place'[t] = place[t]
    BY <1>3 DEF RunnersInv, RunnersTypes
  <1>5. /\ worker'[s] = [alive |-> TRUE, ok |-> FALSE, of |-> world.inputs, done |-> 0]
        /\ \A t \in Starts \ {s} : worker'[t] = worker[t]
    BY <1>1 DEF RunnersInv, RunnersTypes
  <1>6. world.inputs \in Editions /\ setAt[s] \in 1 .. 2 * RunLeaves /\ sets[setAt[s]].count \in 0 .. 3
    BY SetsAreFew, RunnersAssumption DEF RunnersInv, RunnersTypes, Worlds, Sets
  <1>7. RunnersTypes'
    <2>1. place' \in [Starts -> Places]
      BY <1>3 DEF RunnersInv, RunnersTypes, Places, Owning
    <2>2. worker' \in [Starts -> Workers]
      BY <1>1, <1>6 DEF RunnersInv, RunnersTypes, Workers
    <2>3. stateFile' \in States
      BY <1>1, TypeWords
    <2> QED BY <1>1, <1>2, <2>1, <2>2, <2>3 DEF RunnersInv, RunnersTypes
  <1>8. place[s] \in Owning /\ to \in Owning /\ place[s] \in Producing /\ to \notin Early
    BY <1>1 DEF Owning, Producing, Early
  <1>9. OneProducer'
    BY <1>4, <1>5, <1>8 DEF RunnersInv, OneProducer
  <1>10. WorkerInPlace'
    <2>1. worker'[s].alive /\ ~worker'[s].ok /\ worker'[s].of # "none" /\ worker'[s].done = 0
      BY <1>5, <1>6 DEF Editions
    <2>2. worker'[s].done <= sets'[setAt'[s]].count
      BY <1>1, <1>6, <2>1
    <2> QED BY <1>1, <1>4, <1>5, <1>8, <2>1, <2>2 DEF RunnersInv, WorkerInPlace
  <1>11. BindingFirst'
    <2>1. bindingFile # "none"
      BY <1>8 DEF RunnersInv, BindingFirst
    <2>2. \A t \in Starts : place[t] \in {"printing", "killed"} => place'[t] = place[t]
      BY <1>1, <1>4
    <2> QED BY <1>1, <1>2, <1>4, <2>1, <2>2 DEF RunnersInv, BindingFirst, Producing
  <1>12. EditsShow'
    <2>1. worker'[s].of = world.inputs
      BY <1>5
    <2> QED BY <1>1, <1>2, <1>5, <2>1 DEF RunnersInv, EditsShow
  <1>13. SetsInOrder'
    <2>1. \A n \in Nat : Finished(n)' = Finished(n)
      BY <1>1, <1>2 DEF Finished
    <2>2. \A t \in Starts : place'[t] \in Producing => place[t] \in Producing /\ setAt[t] \in Nat
      BY <1>4, <1>8, SetsAreFew, RunnersAssumption DEF RunnersInv, RunnersTypes
    <2>3. \A t \in Starts : place'[t] = "last" => place[t] = "last"
      BY <1>4
    <2>4. LastSet \in Nat
      BY SetsAreFew DEF RunnersInv, RunnersTypes
    <2> QED BY <1>1, <1>2, <2>1, <2>2, <2>3, <2>4 DEF RunnersInv, SetsInOrder
  <1>14. PartsHaveMakers'
    BY <1>1, <1>2, <1>4, <1>5 DEF RunnersInv, PartsHaveMakers, Unfinished
  <1>15. StateIsOwners'
    <2>1. ASSUME NEW t \in Starts, place'[t] \in Producing PROVE t = s
      BY <1>4, <1>8, <2>1, TypeWords DEF RunnersInv, OneProducer
    <2> QED BY <1>1, <2>1 DEF StateIsOwners, StateNamesOwner, Producing
  <1>16. CompleteIsWhole'
    BY <1>1 DEF CompleteIsWhole
  <1>17. CausesStand'
    <2>1. ASSUME NEW t \in Starts, NEW why, Caused(t, why) PROVE Caused(t, why)'
      BY <1>1, <1>2, <1>4, <1>5, <2>1 DEF Caused, Unfinished, Over
    <2> QED BY <1>1, <2>1 DEF RunnersInv, CausesStand
  <1> QED BY <1>7, <1>9, <1>10, <1>11, <1>12, <1>13, <1>14, <1>15, <1>16, <1>17 DEF RunnersInv

LEMMA WorkerPublishesKeeps == ASSUME RunnersInv, NEW s \in Starts, WorkerPublishes(s) PROVE RunnersInv'
  <1> DEFINE m == setAt[s]
             next == worker[s].done + 1
  <1>1. /\ worker[s].alive /\ worker[s].done < SetSize(m)
        /\ sets[m].count > 0 => sets[m].of = worker[s].of
        /\ sets' = IF sets[m].count >= next THEN sets
                   ELSE [sets EXCEPT ![m] = [count |-> next, of |-> worker[s].of]]
        /\ worker' = [worker EXCEPT ![s].done = next]
        /\ UNCHANGED <<outsideVars, place, setAt, hashed, bindingFile, stateFile, refusal, unseen>>
    BY DEF WorkerPublishes
  <1>2. UNCHANGED <<script, passing, stopAsked, world, edits>>
        /\ LastSet' = LastSet /\ \A n \in Nat : SetSize(n)' = SetSize(n)
    BY <1>1, SizesStay DEF outsideVars
  <1>3. /\ LastSet \in 1 .. 2 * RunLeaves /\ m \in 1 .. 2 * RunLeaves /\ m \in Nat
        /\ SetSize(m) \in 1 .. 3 /\ worker[s].done \in 0 .. 3 /\ next \in 1 .. SetSize(m)
        /\ worker[s].of \in Editions \cup {"none"}
    BY <1>1, SetsAreFew, RunnersAssumption DEF RunnersInv, RunnersTypes, Workers
  <1> HIDE DEF next
  <1>4. /\ worker'[s].done = next /\ worker'[s].alive
        /\ worker'[s].of = worker[s].of /\ worker'[s].ok = worker[s].ok
        /\ \A t \in Starts \ {s} : worker'[t] = worker[t]
    BY <1>1 DEF RunnersInv, RunnersTypes, Workers
  <1>5. /\ \A n \in 1 .. 2 * RunLeaves : n # m => sets'[n] = sets[n]
        /\ \/ sets[m].count >= next /\ sets'[m] = sets[m]
           \/ sets[m].count < next /\ sets'[m] = [count |-> next, of |-> worker[s].of]
    <2>1. sets[m].count \in 0 .. 3 /\ next \in Nat /\ sets = [n \in 1 .. 2 * RunLeaves |-> sets[n]]
      BY <1>3 DEF RunnersInv, RunnersTypes, Sets
    <2>2. CASE sets[m].count >= next
      BY <1>1, <2>1, <2>2
    <2>3. CASE ~(sets[m].count >= next)
      BY <1>1, <1>3, <2>1, <2>3
    <2> QED BY <2>2, <2>3
  <1>6. /\ worker[s].of # "none" /\ ~worker[s].ok /\ place[s] \notin Early /\ place[s] # "check"
        /\ worker[s].done <= sets[m].count /\ bindingFile # "none"
    BY <1>1 DEF RunnersInv, WorkerInPlace, BindingFirst, Early
  <1>7. RunnersTypes'
    <2>1. worker' \in [Starts -> Workers]
      BY <1>1, <1>3 DEF RunnersInv, RunnersTypes, Workers
    <2>2. sets' \in Sets
      BY <1>1, <1>3 DEF RunnersInv, RunnersTypes, Sets
    <2> QED BY <1>1, <1>2, <2>1, <2>2 DEF RunnersInv, RunnersTypes
  <1>8. OneProducer'
    BY <1>1, <1>4 DEF RunnersInv, OneProducer
  <1>9. WorkerInPlace'
    <2>1. sets'[m].count >= next
      BY <1>3, <1>5
    <2>2. ASSUME NEW t \in Starts, t # s PROVE ~worker'[t].alive /\ worker'[t] = worker[t]
      BY <1>1, <1>4, <2>2 DEF RunnersInv, OneProducer
    <2>3. next \in Nat /\ sets'[m].count \in Nat
      BY <1>3, <1>7 DEF RunnersTypes, Sets
    <2> QED BY <1>1, <1>4, <1>6, <2>1, <2>2, <2>3 DEF RunnersInv, WorkerInPlace
  <1>10. BindingFirst'
    BY <1>1, <1>2, <1>6 DEF RunnersInv, BindingFirst
  <1>11. EditsShow'
    <2>1. edits = 0 => worker[s].of # "edited"
      BY DEF RunnersInv, EditsShow
    <2>2. \A n \in 1 .. 2 * RunLeaves : sets'[n].of \in {sets[n].of, worker[s].of}
      BY <1>5
    <2> QED BY <1>1, <1>2, <1>4, <2>1, <2>2 DEF RunnersInv, EditsShow
  <1>12. \A n \in 1 .. 2 * RunLeaves : sets[n].count = SetSize(n) => sets'[n] = sets[n]
    BY <1>3, <1>5
  <1>13. \A n \in 1 .. 2 * RunLeaves : Finished(n) => Finished(n)'
    BY <1>1, <1>2, <1>12 DEF Finished
  <1>14. SetsInOrder'
    <2>1. ASSUME NEW n \in 1 .. 2 * RunLeaves
          PROVE  sets'[n].count <= SetSize(n)' /\ (sets'[n].count > 0 => sets'[n].of # "none")
      <3>1. CASE n # m
        BY <1>2, <1>5, <3>1 DEF RunnersInv, SetsInOrder
      <3>2. CASE n = m
        <4>1. /\ sets[n].count <= SetSize(n) /\ (sets[n].count > 0 => sets[n].of # "none")
              /\ SetSize(n)' = SetSize(n)
          BY <1>2 DEF RunnersInv, SetsInOrder
        <4> QED BY <1>3, <1>5, <1>6, <3>2, <4>1
      <3> QED BY <3>1, <3>2
    <2>2. ASSUME NEW t \in Starts, place'[t] \in Producing, NEW n \in 1 .. setAt'[t] - 1
          PROVE  Finished(n)'
      <3>1. Finished(n)
        BY <1>1, <2>2 DEF RunnersInv, SetsInOrder
      <3>2. n \in 1 .. 2 * RunLeaves
        <4>1. setAt'[t] \in 1 .. LastSet
          BY <1>1 DEF RunnersInv, RunnersTypes
        <4> QED BY <1>3, <2>2, <4>1, RunnersAssumption
      <3> QED BY <1>13, <3>1, <3>2
    <2>3. ASSUME NEW t \in Starts, place'[t] = "last", NEW n \in 1 .. LastSet'
          PROVE  Finished(n)'
      <3>1. Finished(n)
        BY <1>1, <1>2, <2>3 DEF RunnersInv, SetsInOrder
      <3>2. n \in 1 .. 2 * RunLeaves
        BY <1>2, <1>3, <2>3, RunnersAssumption
      <3> QED BY <1>13, <3>1, <3>2
    <2> QED BY <2>1, <2>2, <2>3 DEF SetsInOrder
  <1>15. PartsHaveMakers'
    <2>1. \A t \in Starts : Unfinished(t) => Unfinished(t)'
      BY <1>4 DEF Unfinished
    <2>2. ASSUME NEW n \in 1 .. 2 * RunLeaves, sets'[n].count > 0, sets'[n].count # SetSize(n)
          PROVE  \E t \in Starts : setAt'[t] = n /\ Unfinished(t)' /\ place'[t] # "check"
      <3>1. CASE n = m
        BY <1>1, <1>6, <2>1, <3>1 DEF Unfinished
      <3>2. CASE n # m
        BY <1>1, <1>5, <2>1, <2>2, <3>2 DEF RunnersInv, PartsHaveMakers
      <3> QED BY <3>1, <3>2
    <2>3. \A n \in 1 .. 2 * RunLeaves : SetSize(n)' = SetSize(n)
      BY <1>2
    <2> QED BY <2>2, <2>3 DEF PartsHaveMakers
  <1>16. StateIsOwners'
    BY <1>1, <1>2 DEF RunnersInv, StateIsOwners, StateNamesOwner
  <1>17. CompleteIsWhole'
    <2>1. ASSUME stateFile'.state = "COMPLETE", NEW n \in 1 .. LastSet PROVE Finished(n)'
      <3>1. Finished(n)
        BY <1>1, <2>1 DEF RunnersInv, CompleteIsWhole, Finished
      <3>2. n \in 1 .. 2 * RunLeaves
        BY <1>3, <2>1, RunnersAssumption
      <3> QED BY <1>13, <3>1, <3>2
    <2> QED BY <1>2, <2>1 DEF CompleteIsWhole, Finished
  <1>18. CausesStand'
    <2>1. ASSUME NEW t \in Starts, NEW why, Caused(t, why) PROVE Caused(t, why)'
      BY <1>1, <1>2, <1>4, <2>1 DEF Caused, Unfinished, Over
    <2> QED BY <1>1, <2>1 DEF RunnersInv, CausesStand
  <1> QED BY <1>7, <1>8, <1>9, <1>10, <1>11, <1>14, <1>15, <1>16, <1>17, <1>18 DEF RunnersInv

LEMMA WorkerEndsKeeps == ASSUME RunnersInv, NEW s \in Starts, WorkerEnds(s) PROVE RunnersInv'
  <1>1. PICK ok \in BOOLEAN :
           /\ ok => worker[s].done = SetSize(setAt[s])
           /\ worker' = [worker EXCEPT ![s].alive = FALSE, ![s].ok = ok]
    BY DEF WorkerEnds
  <1>2. /\ worker[s].alive
        /\ UNCHANGED <<outsideVars, place, setAt, hashed, sets, bindingFile, stateFile, refusal, unseen>>
    BY DEF WorkerEnds
  <1>3. UNCHANGED <<script, passing, stopAsked, world, edits>>
        /\ LastSet' = LastSet /\ \A n \in Nat : SetSize(n)' = SetSize(n)
    BY <1>2, SizesStay DEF outsideVars
  <1>4. /\ ~worker'[s].alive /\ worker'[s].ok = ok
        /\ worker'[s].of = worker[s].of /\ worker'[s].done = worker[s].done
        /\ \A t \in Starts \ {s} : worker'[t] = worker[t]
    BY <1>1 DEF RunnersInv, RunnersTypes, Workers
  <1>5. RunnersTypes'
    <2>1. worker' \in [Starts -> Workers]
      <3>1. worker \in [Starts -> Workers]
        BY DEF RunnersInv, RunnersTypes
      <3> QED BY <1>1, <3>1 DEF Workers
    <2> QED BY <1>2, <1>3, <2>1 DEF RunnersInv, RunnersTypes
  <1>6. OneProducer'
    BY <1>2, <1>4 DEF RunnersInv, OneProducer
  <1>7. /\ place[s] \notin Early /\ worker[s].of # "none" /\ worker[s].done <= sets[setAt[s]].count
    BY <1>2 DEF RunnersInv, WorkerInPlace, Early
  <1>8. WorkerInPlace'
    BY <1>2, <1>4, <1>7 DEF RunnersInv, WorkerInPlace
  <1>9. BindingFirst'
    BY <1>2, <1>3 DEF RunnersInv, BindingFirst
  <1>10. EditsShow'
    BY <1>2, <1>3, <1>4 DEF RunnersInv, EditsShow
  <1>11. \A n \in Nat : Finished(n)' = Finished(n)
    BY <1>2, <1>3 DEF Finished
  <1>12. SetsInOrder'
    <2>1. \A t \in Starts : setAt[t] \in Nat
      BY SetsAreFew, RunnersAssumption DEF RunnersInv, RunnersTypes
    <2>2. LastSet \in Nat
      BY SetsAreFew DEF RunnersInv, RunnersTypes
    <2> QED BY <1>2, <1>3, <1>11, <2>1, <2>2 DEF RunnersInv, SetsInOrder
  <1>13. PartsHaveMakers'
    <2>1. ASSUME NEW n \in 1 .. 2 * RunLeaves, sets[n].count > 0, sets[n].count # SetSize(n)
          PROVE  \E t \in Starts : setAt'[t] = n /\ Unfinished(t)' /\ place'[t] # "check"
      <3>1. PICK t \in Starts : setAt[t] = n /\ Unfinished(t) /\ place[t] # "check"
        BY <2>1 DEF RunnersInv, PartsHaveMakers
      <3>2. sets[n].count < SetSize(n)
        <4>1. sets[n].count <= SetSize(n)
          BY DEF RunnersInv, SetsInOrder
        <4>2. sets[n].count \in 0 .. 3 /\ SetSize(n) \in 1 .. 3
          BY SetsAreFew DEF RunnersInv, RunnersTypes, Sets
        <4> QED BY <2>1, <4>1, <4>2
      <3>3. t = s => ~ok
        <4>1. worker[s].done \in 0 .. 3
          BY DEF RunnersInv, RunnersTypes, Workers
        <4>2. sets[n].count \in 0 .. 3 /\ SetSize(n) \in 1 .. 3
          BY SetsAreFew DEF RunnersInv, RunnersTypes, Sets
        <4> QED BY <1>1, <1>7, <3>1, <3>2, <4>1, <4>2
      <3> QED BY <1>2, <1>4, <3>1, <3>3 DEF Unfinished
    <2>2. \A n \in 1 .. 2 * RunLeaves : SetSize(n)' = SetSize(n)
      BY <1>3
    <2> QED BY <1>2, <2>1, <2>2 DEF PartsHaveMakers
  <1>14. StateIsOwners'
    BY <1>2, <1>3 DEF RunnersInv, StateIsOwners, StateNamesOwner
  <1>15. CompleteIsWhole'
    BY <1>2, <1>3, SetsAreFew DEF RunnersInv, RunnersTypes, CompleteIsWhole
  <1>16. CausesStand'
    <2>1. ASSUME NEW t \in Starts, NEW why, Caused(t, why) PROVE Caused(t, why)'
      BY <1>2, <1>3, <1>4, <2>1 DEF Caused, Unfinished, Over
    <2> QED BY <1>2, <2>1 DEF RunnersInv, CausesStand
  <1> QED BY <1>5, <1>6, <1>8, <1>9, <1>10, <1>12, <1>13, <1>14, <1>15, <1>16 DEF RunnersInv

LEMMA EndGroupKeeps == ASSUME RunnersInv, NEW s \in Starts, EndGroup(s) PROVE RunnersInv'
  <1>1. /\ place[s] = "stopping" /\ place' = [place EXCEPT ![s] = "ended"]
        /\ worker' = [worker EXCEPT ![s].alive = FALSE]
        /\ stateFile' = [state |-> "STOPPED", pid |-> s]
        /\ UNCHANGED <<outsideVars, setAt, hashed, sets, bindingFile, refusal, unseen>>
    BY DEF EndGroup, EndAs, Move, WriteRunState, KnowsStateFile
  <1>2. UNCHANGED <<script, passing, stopAsked, world, edits>>
        /\ LastSet' = LastSet /\ \A n \in Nat : SetSize(n)' = SetSize(n)
    BY <1>1, SizesStay DEF outsideVars
  <1>3. place'[s] = "ended" /\ \A t \in Starts \ {s} : place'[t] = place[t]
    BY <1>1 DEF RunnersInv, RunnersTypes
  <1>4. /\ ~worker'[s].alive /\ worker'[s].ok = worker[s].ok
        /\ worker'[s].of = worker[s].of /\ worker'[s].done = worker[s].done
        /\ \A t \in Starts \ {s} : worker'[t] = worker[t]
    BY <1>1 DEF RunnersInv, RunnersTypes, Workers
  <1>5. RunnersTypes'
    <2>1. worker' \in [Starts -> Workers]
      BY <1>1 DEF RunnersInv, RunnersTypes, Workers
    <2>2. place' \in [Starts -> Places]
      BY <1>1, TypeWords DEF RunnersInv, RunnersTypes
    <2>3. stateFile' \in States
      BY <1>1, TypeWords
    <2> QED BY <1>1, <1>2, <2>1, <2>2, <2>3 DEF RunnersInv, RunnersTypes
  <1>6. OneProducer'
    BY <1>3, <1>4 DEF RunnersInv, OneProducer, Owning
  <1>7. WorkerInPlace'
    BY <1>1, <1>3, <1>4 DEF RunnersInv, WorkerInPlace, Early
  <1>8. BindingFirst'
    <2>1. bindingFile # "none"
      BY <1>1 DEF RunnersInv, BindingFirst, Producing
    <2>2. \A t \in Starts : place[t] \in {"printing", "killed"} => place'[t] = place[t]
      BY <1>1, <1>3
    <2> QED BY <1>1, <1>2, <1>3, <2>1, <2>2 DEF RunnersInv, BindingFirst, Producing
  <1>9. EditsShow'
    BY <1>1, <1>2, <1>4 DEF RunnersInv, EditsShow
  <1>10. SetsInOrder'
    <2>1. \A n \in Nat : Finished(n)' = Finished(n)
      BY <1>1, <1>2 DEF Finished
    <2>2. \A t \in Starts : place'[t] \in Producing => place'[t] = place[t] /\ setAt[t] \in Nat
      BY <1>3, SetsAreFew, RunnersAssumption DEF Producing, RunnersInv, RunnersTypes
    <2>3. LastSet \in Nat /\ "last" \in Producing
      BY SetsAreFew DEF RunnersInv, RunnersTypes, Producing
    <2> QED BY <1>1, <1>2, <2>1, <2>2, <2>3 DEF RunnersInv, SetsInOrder
  <1>11. PartsHaveMakers'
    BY <1>1, <1>2, <1>3, <1>4 DEF RunnersInv, PartsHaveMakers, Unfinished
  <1>12. StateIsOwners'
    <2>1. ASSUME NEW t \in Starts, place'[t] \in Producing PROVE FALSE
      BY <1>1, <1>3, <2>1 DEF RunnersInv, OneProducer, Owning, Producing
    <2> QED BY <1>1, <1>3, <2>1 DEF StateIsOwners, StateNamesOwner, Producing
  <1>13. CompleteIsWhole'
    BY <1>1 DEF CompleteIsWhole
  <1>14. CausesStand'
    <2>1. ASSUME NEW t \in Starts, NEW why, Caused(t, why) PROVE Caused(t, why)'
      BY <1>1, <1>2, <1>3, <1>4, <2>1 DEF Caused, Unfinished, Over
    <2> QED BY <1>1, <2>1 DEF RunnersInv, CausesStand
  <1> QED BY <1>5, <1>6, <1>7, <1>8, <1>9, <1>10, <1>11, <1>12, <1>13, <1>14 DEF RunnersInv

\* What the environment does, and a step that changes nothing of the directory
LEMMA OutsideKeeps ==
    ASSUME RunnersInv, Intervene \/ UNCHANGED runnerVars
    PROVE  RunnersInv'
  <1>1. /\ UNCHANGED <<script, passing, place, setAt, hashed, worker, sets, bindingFile, stateFile,
                       refusal, unseen>>
        /\ LastSet' = LastSet /\ \A n \in Nat : SetSize(n)' = SetSize(n)
    BY SizesStay DEF Intervene, runnerVars
  <1>2. /\ stopAsked' \in BOOLEAN
        /\ UNCHANGED <<world, edits>> \/ (edits' = edits + 1 /\ edits < MaxEdits)
    BY DEF Intervene, runnerVars, RunnersInv, RunnersTypes
  <1>3. world' \in Worlds
    BY DEF Intervene, runnerVars, RunnersInv, RunnersTypes, Worlds
  <1>4. edits \in 0 .. MaxEdits /\ edits' \in 0 .. MaxEdits
        /\ (edits' = 0 => edits = 0 /\ UNCHANGED world) /\ (edits > 0 => edits' > 0)
    BY <1>2, RunnersAssumption DEF RunnersInv, RunnersTypes
  <1>5. RunnersTypes'
    BY <1>1, <1>2, <1>3, <1>4 DEF RunnersInv, RunnersTypes
  <1>6. OneProducer' /\ WorkerInPlace'
    BY <1>1 DEF RunnersInv, OneProducer, WorkerInPlace
  <1>7. BindingFirst'
    BY <1>1 DEF RunnersInv, BindingFirst
  <1>8. EditsShow'
    BY <1>1, <1>4 DEF RunnersInv, EditsShow
  <1>9. SetsInOrder'
    <2>1. \A n \in Nat : Finished(n)' = Finished(n)
      BY <1>1 DEF Finished
    <2>2. (\A t \in Starts : setAt[t] \in Nat) /\ LastSet \in Nat
      BY SetsAreFew, RunnersAssumption DEF RunnersInv, RunnersTypes
    <2> QED BY <1>1, <2>1, <2>2 DEF RunnersInv, SetsInOrder
  <1>10. PartsHaveMakers'
    BY <1>1 DEF RunnersInv, PartsHaveMakers, Unfinished
  <1>11. StateIsOwners'
    BY <1>1 DEF RunnersInv, StateIsOwners, StateNamesOwner
  <1>12. CompleteIsWhole'
    BY <1>1, SetsAreFew DEF RunnersInv, RunnersTypes, CompleteIsWhole
  <1>13. CausesStand'
    <2>1. ASSUME NEW t \in Starts, NEW why, Caused(t, why) PROVE Caused(t, why)'
      BY <1>1, <1>4, <2>1 DEF Caused, Unfinished, Over
    <2> QED BY <1>1, <2>1 DEF RunnersInv, CausesStand
  <1> QED BY <1>5, <1>6, <1>7, <1>8, <1>9, <1>10, <1>11, <1>12, <1>13 DEF RunnersInv

-----------------------------------------------------------------------------
LEMMA RunnersInvNext == ASSUME RunnersInv, [RunnersNext]_runnerVars PROVE RunnersInv'
  <1>1. ASSUME NEW s \in Starts,
               \/ OpenRun(s) \/ LockRun(s) \/ HashInputs(s) \/ BindRun(s) \/ PrintBinding(s)
               \/ Preflight(s) \/ CheckFails(s) \/ StopBetweenSets(s) \/ ReuseSet(s)
        PROVE  RunnersInv'
    BY <1>1, OpenRunKeeps, LockRunKeeps, HashInputsKeeps, BindRunKeeps, PrintBindingKeeps,
       PreflightKeeps, CheckFailsKeeps, StopBetweenSetsKeeps, ReuseSetKeeps
  <1>2. ASSUME NEW s \in Starts,
               \/ StartWorker(s) \/ KnowWorker(s) \/ WorkerPublishes(s) \/ WorkerEnds(s)
               \/ CollectWorker(s) \/ FinishRun(s) \/ TermRun(s) \/ EndGroup(s) \/ KillRun(s)
        PROVE  RunnersInv'
    BY <1>2, StartWorkerKeeps, KnowWorkerKeeps, WorkerPublishesKeeps, WorkerEndsKeeps,
       CollectWorkerKeeps, FinishRunKeeps, TermRunKeeps, EndGroupKeeps, KillRunKeeps
  <1> QED BY <1>1, <1>2, OutsideKeeps DEF RunnersNext

LEMMA RunnersInvImplies == RunnersInv => RunnersTypeOK /\ RunnersTellTruth
  <1> SUFFICES ASSUME RunnersInv PROVE RunnersTypeOK /\ RunnersTellTruth
    OBVIOUS
  <1>1. RunnersTypeOK
    BY DEF RunnersInv, RunnersTypes, RunnersTypeOK, Places, Workers, Sets
  <1>2. StoppedIsQuiet
    BY DEF RunnersInv, StateIsOwners, WorkerInPlace, StoppedIsQuiet
  <1>3. RefusedForCause
    BY DEF RunnersInv, CausesStand, Caused, Unfinished, RefusedForCause
  <1> QED BY <1>1, <1>2, <1>3 DEF RunnersInv, StateIsOwners, RunnersTellTruth

\* What the scripts keep of a run directory has its types.
THEOREM RunnersTypeCorrect == RunnersSpec => []RunnersTypeOK
  BY RunnersInvInit, RunnersInvNext, RunnersInvImplies, PTL DEF RunnersSpec

\* run.state and the refusals of the scripts are true, for any number of starts of one run
\* directory, of leaves and of edits of the inputs, whatever is killed and stopped.
THEOREM RunnersAreTruthful == RunnersSpec => []RunnersTellTruth
  BY RunnersInvInit, RunnersInvNext, RunnersInvImplies, PTL DEF RunnersSpec
=============================================================================
