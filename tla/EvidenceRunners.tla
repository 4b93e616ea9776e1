--------------------------- MODULE EvidenceRunners ---------------------------
(***************************************************************************)
(* The three other scripts that produce evidence in a commit-bound run     *)
(* directory: run_full_normalization.sh, run_oracle_isolation_reviews.sh   *)
(* and run_resolution_recovery.sh.  They share the lock on descriptor 9,   *)
(* which their worker inherits, run.state, run.binding and the stop        *)
(* sentinel; they differ in when they know their state file, how they      *)
(* write the binding, whether the worker has a group of its own, and in    *)
(* what they do with the part of a set that an earlier start has left.     *)
(*                                                                         *)
(* The files of a set are published in order, the manifest last.  Inputs   *)
(* that differ lead to files that differ.  A worker is a nodelm command;   *)
(* what it binds and verifies is EvidenceChain.                            *)
(***************************************************************************)
EXTENDS Naturals, FiniteSets

CONSTANTS Starts,      \* executions of the script, one commit and one run directory
          RunLeaves,   \* leaves of the normalization and of the reviews
          MaxEdits     \* how often somebody edits the inputs or moves HEAD

ASSUME RunnersAssumption == RunLeaves \in Nat \ {0} /\ MaxEdits \in Nat

VARIABLES script,
          passing,       \* the inputs whose reviews PASS
          place,         \* where each start is
          setAt,         \* the set it works on
          hashed,        \* the content it expects in run.binding
          worker,        \* its child
          sets,          \* the published files
          bindingFile, stateFile, stopAsked,
          world, edits,  \* the inputs, and whether HEAD is the commit of the run
          refusal,       \* why a start failed
          unseen         \* starts that were stopped before they knew their worker

runnerVars == <<script, passing, place, setAt, hashed, worker, sets, bindingFile, stateFile,
                stopAsked, world, edits, refusal, unseen>>

Editions == {"sealed", "edited"}   \* sealed are the inputs whose digests the script names
NoWorker == [alive |-> FALSE, ok |-> FALSE, of |-> "none", done |-> 0]

\* Materialization and normalization of every leaf; a review of every leaf; one recovery
LastSet ==
    CASE script = "normalization" -> 2 * RunLeaves
      [] script = "reviews" -> RunLeaves
      [] script = "recovery" -> 1

SetSize(n) ==
    CASE script = "normalization" -> IF n % 2 = 1 THEN 2 ELSE 3
      [] script = "reviews" -> 2
      [] script = "recovery" -> 3

RunnersInit ==
    /\ script \in {"normalization", "reviews", "recovery"}
    /\ passing \in {Editions, {"edited"}}
    /\ place = [s \in Starts |-> "off"]
    /\ setAt = [s \in Starts |-> 1]
    /\ hashed = [s \in Starts |-> "none"]
    /\ worker = [s \in Starts |-> NoWorker]
    /\ sets = [n \in 1 .. 2 * RunLeaves |-> [count |-> 0, of |-> "none"]]
    /\ bindingFile = "none" /\ stateFile = [state |-> "none", pid |-> "nobody"]
    /\ stopAsked = FALSE
    /\ world = [inputs |-> "sealed", clean |-> TRUE] /\ edits = 0
    /\ refusal = [s \in Starts |-> "none"] /\ unseen = {}

Move(s, to) == place' = [place EXCEPT ![s] = to]
WriteRunState(s, st) == stateFile' = [state |-> st, pid |-> s]

\* write_state does nothing while STATE_FILE is empty: only the reviews know it before the lock.
KnowsStateFile(s) == place[s] # "opened" \/ script = "reviews"

\* The exit trap
EndAs(s, st) ==
    /\ Move(s, "ended")
    /\ IF KnowsStateFile(s) THEN WriteRunState(s, st) ELSE UNCHANGED stateFile

FailFor(s, why) == EndAs(s, "FAILED") /\ refusal' = [refusal EXCEPT ![s] = why]

Owning == {"locked", "binding", "printing", "bound", "check", "forked", "waiting", "last",
           "stopping"}

\* Mutant: the lock is the script's alone.
RunLockHeldByScript == \E s \in Starts : place[s] \in Owning

\* A process has descriptor 9 open: a start or the worker it left behind.
RunLockHeld == \E s \in Starts : place[s] \in Owning \/ worker[s].alive

outsideVars == <<script, passing, stopAsked, world, edits>>

-----------------------------------------------------------------------------
OpenRun(s) ==
    /\ place[s] = "off" /\ world.clean /\ Move(s, "opened")
    /\ UNCHANGED <<outsideVars, setAt, hashed, worker, sets, bindingFile, stateFile, refusal, unseen>>

\* flock -n 9
LockRun(s) ==
    /\ place[s] = "opened"
    /\ IF RunLockHeld THEN FailFor(s, "lock")
       ELSE Move(s, "locked") /\ UNCHANGED <<stateFile, refusal>>
    /\ UNCHANGED <<outsideVars, setAt, hashed, worker, sets, bindingFile, unseen>>

\* What run.binding has to say: the commit, and for the recovery the digests of the inputs
HashInputs(s) ==
    /\ place[s] = "locked" /\ Move(s, "binding")
    /\ hashed' = [hashed EXCEPT ![s] = IF script = "recovery" THEN world.inputs ELSE "sealed"]
    /\ IF script = "recovery" THEN WriteRunState(s, "RUNNING") ELSE UNCHANGED stateFile
    /\ UNCHANGED <<outsideVars, setAt, worker, sets, bindingFile, refusal, unseen>>

\* prepare_run_binding: the binding is compared, or written where nothing was published
\* yet; the reviews neither look for files nor rename a temporary one.
BindRun(s) ==
    /\ place[s] = "binding"
    /\ \/ /\ bindingFile = hashed[s]
          /\ Move(s, "bound") /\ UNCHANGED <<bindingFile, stateFile, refusal>>
       \/ /\ bindingFile \notin {"none", hashed[s]}
          /\ FailFor(s, "binding") /\ UNCHANGED bindingFile
       \/ /\ bindingFile = "none" /\ script # "reviews" /\ \E n \in DOMAIN sets : sets[n].count > 0
          /\ FailFor(s, "unbound") /\ UNCHANGED bindingFile
       \/ /\ bindingFile = "none" /\ script # "reviews" /\ \A n \in DOMAIN sets : sets[n].count = 0
          /\ Move(s, "bound") /\ bindingFile' = hashed[s] /\ UNCHANGED <<stateFile, refusal>>
       \/ /\ bindingFile = "none" /\ script = "reviews"
          /\ Move(s, "printing") /\ bindingFile' = "torn" /\ UNCHANGED <<stateFile, refusal>>
    /\ UNCHANGED <<outsideVars, setAt, hashed, worker, sets, unseen>>

\* printf >run.binding, after the shell has created the file
PrintBinding(s) ==
    /\ place[s] = "printing" /\ Move(s, "bound") /\ bindingFile' = hashed[s]
    /\ UNCHANGED <<outsideVars, setAt, hashed, worker, sets, stateFile, refusal, unseen>>

\* RUNNING, the digests of the sealed inputs, and the first look for the sentinel
Preflight(s) ==
    /\ place[s] = "bound"
    /\ \/ /\ script = "normalization" /\ world.inputs # "sealed"
          /\ FailFor(s, "changed")
       \/ /\ ~(script = "normalization" /\ world.inputs # "sealed")
          /\ stopAsked /\ script # "recovery"
          /\ EndAs(s, "STOPPED") /\ UNCHANGED refusal
       \/ /\ ~(script = "normalization" /\ world.inputs # "sealed")
          /\ ~stopAsked \/ script = "recovery"
          /\ Move(s, "check") /\ WriteRunState(s, "RUNNING") /\ UNCHANGED refusal
    /\ UNCHANGED <<outsideVars, setAt, hashed, worker, sets, bindingFile, unseen>>

-----------------------------------------------------------------------------
\* require_code_unchanged, require_run_binding and require_inputs_unchanged
Undisturbed(s) ==
    /\ world.clean
    /\ script = "normalization" => bindingFile = hashed[s]
    /\ script = "recovery" => world.inputs = hashed[s]

Present(s) == sets[setAt[s]].count > 0
Whole(s) == sets[setAt[s]].count = SetSize(setAt[s])

\* validate_terminal: the manifest binds these very inputs and files.  The normalization
\* names the digests of its inputs and takes a manifest that says FAIL; a review has to PASS;
\* the recovery counts its rows again.
BindsInputs(s) == sets[setAt[s]].of = world.inputs
ValidNormalization(s) == BindsInputs(s) /\ world.inputs = "sealed"
ValidReview(s) == BindsInputs(s) /\ world.inputs \in passing
ValidRecovery(s) == BindsInputs(s)

ValidSet(s) ==
    CASE script = "normalization" -> ValidNormalization(s)
      [] script = "reviews" -> ValidReview(s)
      [] script = "recovery" -> ValidRecovery(s)

Advance(s) ==
    IF setAt[s] < LastSet
    THEN Move(s, "check") /\ setAt' = [setAt EXCEPT ![s] = @ + 1]
    ELSE Move(s, "last") /\ UNCHANGED setAt

\* The normalization refuses a part of a set, the reviews take every file for a claim that
\* is to be made again, the recovery looks at whole sets only.
CheckFails(s) ==
    /\ place[s] = "check"
    /\ \/ ~Undisturbed(s) /\ (script = "recovery" => Whole(s)) /\ FailFor(s, "changed")
       \/ /\ Undisturbed(s) /\ script = "normalization" /\ ~stopAsked /\ Present(s) /\ ~Whole(s)
          /\ FailFor(s, "partial")
       \/ /\ Undisturbed(s) /\ script # "reviews" /\ (stopAsked => script = "recovery")
          /\ Whole(s) /\ ~ValidSet(s)
          /\ FailFor(s, "invalid")
    /\ UNCHANGED <<outsideVars, setAt, hashed, worker, sets, bindingFile, unseen>>

StopBetweenSets(s) ==
    /\ place[s] = "check" /\ stopAsked
    /\ IF script = "recovery" THEN ~Whole(s) ELSE Undisturbed(s)
    /\ EndAs(s, "STOPPED")
    /\ UNCHANGED <<outsideVars, setAt, hashed, worker, sets, bindingFile, refusal, unseen>>

ReuseSet(s) ==
    /\ place[s] = "check" /\ Undisturbed(s) /\ (stopAsked => script = "recovery")
    /\ script # "reviews" /\ Whole(s) /\ ValidSet(s)
    /\ Advance(s) /\ WriteRunState(s, "RUNNING")
    /\ UNCHANGED <<outsideVars, hashed, worker, sets, bindingFile, refusal, unseen>>

\* The worker of the normalization runs in the foreground; the others start theirs with
\* setsid in the background and learn its number in the next command.
StartWorker(s) ==
    /\ place[s] = "check" /\ ~stopAsked
    /\ script # "recovery" => Undisturbed(s)
    /\ CASE script = "normalization" -> ~Present(s)
         [] script = "reviews" -> TRUE
         [] script = "recovery" -> ~Whole(s)
    /\ worker' = [worker EXCEPT ![s] = [alive |-> TRUE, ok |-> FALSE, of |-> world.inputs, done |-> 0]]
    /\ Move(s, IF script = "normalization" THEN "waiting" ELSE "forked")
    /\ WriteRunState(s, "RUNNING")
    /\ UNCHANGED <<outsideVars, setAt, hashed, sets, bindingFile, refusal, unseen>>

KnowWorker(s) ==
    /\ place[s] = "forked" /\ Move(s, "waiting")
    /\ UNCHANGED <<outsideVars, setAt, hashed, worker, sets, bindingFile, stateFile, refusal, unseen>>

\* The next file is new, or it is there with the same bytes; the inputs are as they were.
WorkerPublishes(s) ==
    /\ worker[s].alive /\ worker[s].done < SetSize(setAt[s]) /\ world.inputs = worker[s].of
    /\ LET n == setAt[s]
           next == worker[s].done + 1
       IN  /\ sets[n].count > 0 => sets[n].of = worker[s].of
           /\ sets' = IF sets[n].count >= next THEN sets
                      ELSE [sets EXCEPT ![n] = [count |-> next, of |-> worker[s].of]]
           /\ worker' = [worker EXCEPT ![s].done = next]
    /\ UNCHANGED <<outsideVars, place, setAt, hashed, bindingFile, stateFile, refusal, unseen>>

\* It has published everything and exits as its manifest says; or it raises or is killed.
WorkerEnds(s) ==
    /\ worker[s].alive
    /\ \E ok \in BOOLEAN :
          /\ ok => /\ worker[s].done = SetSize(setAt[s])
                   /\ script = "reviews" => worker[s].of \in passing
          /\ worker' = [worker EXCEPT ![s].alive = FALSE, ![s].ok = ok]
    /\ UNCHANGED <<outsideVars, place, setAt, hashed, sets, bindingFile, stateFile, refusal, unseen>>

\* Its exit is collected, the inputs are looked at, the set is validated, and the inputs are
\* looked at once more: one step here, for what the set is validated against is hashed by the
\* validation itself and pinned in the set.
CollectWorker(s) ==
    /\ place[s] = "waiting" /\ ~worker[s].alive
    /\ IF Undisturbed(s) /\ worker[s].ok /\ Whole(s) /\ ValidSet(s)
       THEN Advance(s) /\ UNCHANGED <<stateFile, refusal>>
       ELSE FailFor(s, "worker") /\ UNCHANGED setAt
    /\ UNCHANGED <<outsideVars, hashed, worker, sets, bindingFile, unseen>>

FinishRun(s) ==
    /\ place[s] = "last"
    /\ IF Undisturbed(s) THEN EndAs(s, "COMPLETE") /\ UNCHANGED refusal ELSE FailFor(s, "changed")
    /\ UNCHANGED <<outsideVars, setAt, hashed, worker, sets, bindingFile, unseen>>

-----------------------------------------------------------------------------
\* TERM: bash takes it between two commands, when a foreground child has ended, or in wait.
\* A worker that is known is stopped first.
TermRun(s) ==
    /\ place[s] \in (Owning \cup {"opened"}) \ {"printing", "stopping"}
    /\ script = "normalization" => ~worker[s].alive
    /\ IF place[s] = "waiting" THEN Move(s, "stopping") /\ UNCHANGED stateFile
       ELSE EndAs(s, "STOPPED")
    /\ unseen' = IF place[s] = "forked" THEN unseen \cup {s} ELSE unseen
    /\ UNCHANGED <<outsideVars, setAt, hashed, worker, sets, bindingFile, refusal>>

\* stop_active_process_group, after a grace in which the worker goes on
EndGroup(s) ==
    /\ place[s] = "stopping"
    /\ worker' = [worker EXCEPT ![s].alive = FALSE]
    /\ EndAs(s, "STOPPED")
    /\ UNCHANGED <<outsideVars, setAt, hashed, sets, bindingFile, refusal, unseen>>

KillRun(s) ==
    /\ place[s] \in Owning \cup {"opened"} /\ Move(s, "killed")
    /\ UNCHANGED <<outsideVars, setAt, hashed, worker, sets, bindingFile, stateFile, refusal, unseen>>

\* The operator touches and removes the sentinel; somebody edits the inputs and puts them
\* back, or moves HEAD.
Intervene ==
    /\ \/ stopAsked' = ~stopAsked /\ UNCHANGED <<world, edits>>
       \/ /\ edits < MaxEdits /\ edits' = edits + 1
          /\ \/ \E e \in Editions \ {world.inputs} : world' = [world EXCEPT !.inputs = e]
             \/ world' = [world EXCEPT !.clean = ~@]
          /\ UNCHANGED stopAsked
    /\ UNCHANGED <<script, passing, place, setAt, hashed, worker, sets, bindingFile, stateFile,
                   refusal, unseen>>

RunnersNext ==
    \/ \E s \in Starts :
          \/ OpenRun(s) \/ LockRun(s) \/ HashInputs(s) \/ BindRun(s) \/ PrintBinding(s)
          \/ Preflight(s) \/ CheckFails(s) \/ StopBetweenSets(s) \/ ReuseSet(s)
          \/ StartWorker(s) \/ KnowWorker(s) \/ WorkerPublishes(s) \/ WorkerEnds(s)
          \/ CollectWorker(s) \/ FinishRun(s) \/ TermRun(s) \/ EndGroup(s) \/ KillRun(s)
    \/ Intervene

RunnersSpec == RunnersInit /\ [][RunnersNext]_runnerVars

-----------------------------------------------------------------------------
RunnersTypeOK ==
    /\ \A s \in Starts :
          /\ place[s] \in Owning \cup {"off", "opened", "ended", "killed"}
          /\ setAt[s] \in 1 .. LastSet
          /\ worker[s].done \in 0 .. 3 /\ worker[s].of \in Editions \cup {"none"}
    /\ \A n \in DOMAIN sets : sets[n].count \in 0 .. 3 /\ sets[n].of \in Editions \cup {"none"}
    /\ bindingFile \in Editions \cup {"none", "torn"}
    /\ edits \in 0 .. MaxEdits /\ unseen \subseteq Starts

\* Whoever publishes into the run directory is alone there: two workers never overlap, and
\* no start works while the worker of another one is alive.
OneProducer ==
    \A s, t \in Starts :
        /\ worker[s].alive /\ worker[t].alive => s = t
        /\ place[s] \in Owning /\ (place[t] \in Owning \/ worker[t].alive) => s = t

\* COMPLETE: every set is there to its last file; what the normalization made is of the
\* sealed inputs, the reviews PASS, and the recovery is that of the inputs in the binding.
CompleteIsWhole ==
    stateFile.state = "COMPLETE" =>
        \A n \in 1 .. LastSet :
            /\ sets[n].count = SetSize(n)
            /\ script = "normalization" => sets[n].of = "sealed"
            /\ script = "reviews" => sets[n].of \in passing
            /\ script = "recovery" => sets[n].of = bindingFile

\* run.state names the start that TERM has to be sent to, from its first RUNNING to its end.
\* The reviews are excepted: like the canary runner, a start of them that loses the lock
\* writes FAILED over the state of the owner.
StateNamesOwner ==
    \A s \in Starts :
        script # "reviews" /\ place[s] \in {"check", "forked", "waiting", "last", "stopping"} =>
            stateFile = [state |-> "RUNNING", pid |-> s]

\* STOPPED: the worker of the start that says so is gone, unless the signal came after the
\* fork and before ACTIVE_PID was assigned.
StoppedIsQuiet ==
    \A s \in Starts :
        stateFile = [state |-> "STOPPED", pid |-> s] /\ s \notin unseen => ~worker[s].alive

\* What an earlier start has left is only refused for a cause.  A binding is refused by the
\* recovery when its inputs were edited, and by the reviews when a start was killed between
\* the creation of the file and its content; a part of a set, by the normalization, when a
\* worker did not end well; a whole set when inputs were edited; and files without a
\* binding are never met at all.
RefusedForCause ==
    \A s \in Starts :
        /\ refusal[s] # "unbound"
        /\ refusal[s] = "binding" => edits > 0 \/ \E t \in Starts : script = "reviews" /\ place[t] = "killed"
        /\ refusal[s] = "partial" => \E t \in Starts \ {s} : worker[t].of # "none" /\ ~worker[t].ok
        /\ refusal[s] = "invalid" => edits > 0

\* What the scripts say of their run directories in run.state, and what they refuse there,
\* whatever is killed, stopped, edited and started again
RunnersTellTruth ==
    /\ OneProducer /\ CompleteIsWhole /\ StateNamesOwner /\ StoppedIsQuiet /\ RefusedForCause
=============================================================================
