-------------------------- MODULE CommandExecutor --------------------------
(***************************************************************************)
(* harness/executor.py: one CommandExecutor.run from the request to its     *)
(* CommandResult, with the two threads that capture the output, and the     *)
(* processes of the command, which run, fork and die as they please.        *)
(*                                                                          *)
(* The command leads a session and process group of its own.  A process it  *)
(* forks inherits the group, the disposition of TERM and the output pipes;  *)
(* it may leave the group (setsid), the tree (its parent dies), or close    *)
(* its output.  A process that handles TERM ends some time after it, KILL   *)
(* ends a process as soon as the kernel can: neither is immediate.          *)
(*                                                                          *)
(* There is no clock: a timeout may expire at any moment of the wait it     *)
(* bounds.  The processes and the capture threads are followed until run is *)
(* over.                                                                    *)
(***************************************************************************)
EXTENDS Naturals

CONSTANTS
  Leader,      \* the process Popen starts
  Helpers,     \* the processes the command may fork
  Streams,     \* its output pipes
  None,        \* no value
  Chunk,       \* units of output one buffered read waits for
  Capacity,    \* units of output a result may hold
  MaxWritten   \* bound on the units written to a stream

Procs == Helpers \cup {Leader}

Refusals == {"tool_protocol_failure", "environment_failure", "internal_failure"}
Outcomes == Refusals \cup {"success", "failure", "timeout"}

ASSUME ExecutorAssumption ==
  /\ None \notin Outcomes
  /\ Leader \notin Helpers
  /\ Chunk \in Nat \ {0}
  /\ Capacity \in Nat \ {0}
  /\ MaxWritten \in Nat

VARIABLES
  pc,          \* control location of run
  timedOut,    \* timed_out
  outcome,     \* the outcome of the result
  snapshot,    \* descendants, as psutil listed them
  output,      \* what was rendered of each stream
  life,        \* of each process
  sentence,    \* the strongest signal with an effect each process was sent
  status,      \* the exit status of the leader
  group,       \* the members of the leader's process group
  tree,        \* the descendants psutil will list, until it has
  deaf,        \* the processes that ignore TERM
  holders,     \* the processes that hold the write end of each stream
  written,     \* units written to each stream
  gathered,    \* units in the current, incomplete buffered read
  total,       \* total_bytes of each capture
  reader       \* the state of each capture thread

runVars == <<pc, timedOut, outcome, snapshot, output>>
procVars == <<life, sentence, status, group, tree, deaf, holders>>
captureVars == <<gathered, total, reader>>
vars == <<runVars, procVars, written, captureVars>>

Guarded == {"waiting", "terminate", "snapshot", "children", "leader", "wait1", "wait2"}
Collecting == {"sweep", "join", "rejoin", "render"}
Over == {"done", "raised", "cancelled"}

TypeOK ==
  /\ pc \in {"new"} \cup Guarded \cup Collecting \cup Over
  /\ timedOut \in BOOLEAN
  /\ outcome \in Outcomes \cup {None}
  /\ snapshot \subseteq Helpers
  /\ output \in [Streams -> {None} \cup [kept : 0..Capacity, truncated : BOOLEAN]]
  /\ life \in [Procs -> {"unborn", "running", "zombie", "gone"}]
  /\ sentence \in [Procs -> {"none", "term", "kill"}]
  /\ status \in {None, "ok", "bad"}
  /\ group \subseteq Procs
  /\ tree \subseteq Helpers
  /\ deaf \subseteq Procs
  /\ holders \in [Streams -> SUBSET Procs]
  /\ written \in [Streams -> Nat]
  /\ gathered \in [Streams -> Nat]
  /\ total \in [Streams -> Nat]
  /\ reader \in [Streams -> {"reading", "eof", "error"}]

Init ==
  /\ pc = "new"
  /\ timedOut = FALSE
  /\ outcome = None
  /\ snapshot = {}
  /\ output = [s \in Streams |-> None]
  /\ life = [p \in Procs |-> "unborn"]
  /\ sentence = [p \in Procs |-> "none"]
  /\ status = None
  /\ group = {}
  /\ tree = {}
  /\ deaf = {}
  /\ holders = [s \in Streams |-> {}]
  /\ written = [s \in Streams |-> 0]
  /\ gathered = [s \in Streams |-> 0]
  /\ total = [s \in Streams |-> 0]
  /\ reader = [s \in Streams |-> "reading"]

Running(p) == life[p] = "running"

Goto(from, to) == pc = from /\ pc' = to

(* TERM to a set of processes: those that ignore it are none the wiser. *)
Term(targets) ==
  sentence' = [p \in Procs |->
    IF p \in targets /\ Running(p) /\ p \notin deaf /\ sentence[p] = "none"
      THEN "term" ELSE sentence[p]]

(* KILL to a set of processes. *)
KillAll(targets) ==
  sentence' = [p \in Procs |->
    IF p \in targets /\ Running(p) THEN "kill" ELSE sentence[p]]

(* wait or poll collects the exit status of a leader that has died. *)
Reaped == [life EXCEPT ![Leader] = IF @ = "zombie" THEN "gone" ELSE @]

----------------------------------------------------------------------------
(* The run.                                                                 *)

(* The cwd resolves outside the workspace, or Popen raises: no process.     *)
Refuse(o) ==
  /\ Goto("new", "done")
  /\ outcome' = o
  /\ UNCHANGED <<timedOut, snapshot, output, procVars, written, captureVars>>

(* Popen(start_new_session=True), and both capture threads start. *)
Start ==
  /\ Goto("new", "waiting")
  /\ life' = [life EXCEPT ![Leader] = "running"]
  /\ group' = {Leader}
  /\ holders' = [s \in Streams |-> {Leader}]
  /\ UNCHANGED <<timedOut, outcome, snapshot, output, sentence, status, tree, deaf, written,
                 captureVars>>

(* process.wait returns before the deadline. *)
LeaderExited ==
  /\ life[Leader] = "zombie"
  /\ Goto("waiting", "sweep")
  /\ life' = Reaped
  /\ UNCHANGED <<timedOut, outcome, snapshot, output, sentence, status, group, tree, deaf,
                 holders, written, captureVars>>

(* process.wait raises TimeoutExpired; the leader may have exited just now. *)
Deadline ==
  /\ Goto("waiting", "terminate")
  /\ timedOut' = TRUE
  /\ UNCHANGED <<outcome, snapshot, output, procVars, written, captureVars>>

(* _terminate_process_tree: TERM to the whole group. *)
TermGroup ==
  /\ Goto("terminate", "snapshot")
  /\ Term(group)
  /\ UNCHANGED <<timedOut, outcome, snapshot, output, life, status, group, tree, deaf, holders,
                 written, captureVars>>

(* The descendants of a leader that still runs, and none of one that died.  *)
Snapshot ==
  /\ Goto("snapshot", "children")
  /\ snapshot' = {h \in tree : Running(h)}
  /\ tree' = {}
  /\ UNCHANGED <<timedOut, outcome, output, life, sentence, status, group, deaf, holders,
                 written, captureVars>>

(* wait_procs gives them their grace; those still alive are killed. *)
KillDescendants ==
  /\ Goto("children", "leader")
  /\ KillAll(snapshot)
  /\ snapshot' = {}
  /\ UNCHANGED <<timedOut, outcome, output, life, status, group, tree, deaf, holders,
                 written, captureVars>>

(* process.kill, unless poll finds that the leader has died. *)
KillLeader ==
  /\ Goto("leader", "wait1")
  /\ KillAll({Leader})
  /\ life' = Reaped
  /\ UNCHANGED <<timedOut, outcome, snapshot, output, status, group, tree, deaf, holders,
                 written, captureVars>>

(* _wait_after_termination gets the exit code, in its first or second wait. *)
ReapTerminated ==
  /\ ~Running(Leader)
  /\ pc \in {"wait1", "wait2"}
  /\ pc' = "sweep"
  /\ life' = Reaped
  /\ UNCHANGED <<timedOut, outcome, snapshot, output, sentence, status, group, tree, deaf,
                 holders, written, captureVars>>

(* The first wait times out: KILL to the group and to the leader. *)
FirstGraceOver ==
  /\ life[Leader] # "gone"
  /\ Goto("wait1", "wait2")
  /\ KillAll(group \cup {Leader})
  /\ UNCHANGED <<timedOut, outcome, snapshot, output, life, status, group, tree, deaf, holders,
                 written, captureVars>>

(* The finally clause of a run that ends by an exception: the group of a    *)
(* leader that poll finds dead gets TERM, that of a running one nothing.    *)
Finally ==
  /\ life' = Reaped
  /\ Term(IF Running(Leader) THEN {} ELSE group)

SecondGraceSwallowed ==
  /\ life[Leader] # "gone"
  /\ Goto("wait2", "sweep")
  /\ UNCHANGED <<timedOut, outcome, snapshot, output, procVars, written, captureVars>>

(* The second wait times out: TimeoutExpired leaves run. *)
SecondGraceOver ==
  /\ life[Leader] # "gone"
  /\ Goto("wait2", "raised")
  /\ Finally
  /\ UNCHANGED <<timedOut, outcome, snapshot, output, status, group, tree, deaf, holders,
                 written, captureVars>>

(* KeyboardInterrupt in the thread that called run. *)
Cancel ==
  /\ pc \in Guarded \cup Collecting
  /\ pc' = "cancelled"
  /\ IF pc \in Guarded THEN Finally ELSE UNCHANGED <<life, sentence>>
  /\ UNCHANGED <<timedOut, outcome, snapshot, output, status, group, tree, deaf, holders,
                 written, captureVars>>

(* The finally clause after a wait that returned: TERM to what is left of   *)
(* the group.                                                               *)
Sweep ==
  /\ Goto("sweep", "join")
  /\ Term(group)
  /\ UNCHANGED <<timedOut, outcome, snapshot, output, life, status, group, tree, deaf, holders,
                 written, captureVars>>

Captured == \A s \in Streams : reader[s] # "reading"

(* Both capture threads have ended within their grace. *)
Joined ==
  /\ Captured
  /\ Goto("join", "render")
  /\ UNCHANGED <<timedOut, outcome, snapshot, output, procVars, written, captureVars>>

JoinGivesUp ==
  /\ ~Captured
  /\ Goto("join", "rejoin")
  /\ UNCHANGED <<timedOut, outcome, snapshot, output, procVars, written, captureVars>>

(* A capture thread is still alive: KILL to the group, and join again. *)
JoinTimesOut ==
  /\ ~Captured
  /\ Goto("join", "rejoin")
  /\ KillAll(group)
  /\ UNCHANGED <<timedOut, outcome, snapshot, output, life, status, group, tree, deaf, holders,
                 written, captureVars>>

RejoinedUnbounded ==
  /\ Captured
  /\ Goto("rejoin", "render")
  /\ UNCHANGED <<timedOut, outcome, snapshot, output, procVars, written, captureVars>>

(* The second join ends or times out; nobody asks which. *)
Rejoined ==
  /\ Goto("rejoin", "render")
  /\ UNCHANGED <<timedOut, outcome, snapshot, output, procVars, written, captureVars>>

KeptWhole(s) == total[s]

(* What of a capture a result may hold. *)
Kept(s) == IF total[s] > Capacity THEN Capacity ELSE total[s]

RenderUnflagged(s) ==
  /\ pc = "render"
  /\ output[s] = None
  /\ output' = [output EXCEPT ![s] = [kept |-> Kept(s), truncated |-> FALSE]]
  /\ UNCHANGED <<pc, timedOut, outcome, snapshot, procVars, written, captureVars>>

(* _render_output: what the capture holds by now, cut to capacity. *)
Render(s) ==
  /\ pc = "render"
  /\ output[s] = None
  /\ output' = [output EXCEPT ![s] = [kept |-> Kept(s), truncated |-> total[s] > Capacity]]
  /\ UNCHANGED <<pc, timedOut, outcome, snapshot, procVars, written, captureVars>>

(* The outcome: the timeout, then a capture error, then the exit code. *)
Verdict ==
  CASE timedOut -> "timeout"
    [] \E s \in Streams : reader[s] = "error" -> "internal_failure"
    [] OTHER -> IF status = "ok" THEN "success" ELSE "failure"

ConcludeByStatus ==
  /\ \A s \in Streams : output[s] # None
  /\ Goto("render", "done")
  /\ outcome' = IF status = "ok" THEN "success" ELSE Verdict
  /\ UNCHANGED <<timedOut, snapshot, output, procVars, written, captureVars>>

(* The CommandResult is made. *)
Conclude ==
  /\ \A s \in Streams : output[s] # None
  /\ Goto("render", "done")
  /\ outcome' = Verdict
  /\ UNCHANGED <<timedOut, snapshot, output, procVars, written, captureVars>>

RunStep ==
  \/ \E o \in Refusals : Refuse(o)
  \/ Start \/ LeaderExited \/ Deadline \/ TermGroup \/ Snapshot \/ KillDescendants
  \/ KillLeader \/ ReapTerminated \/ FirstGraceOver \/ SecondGraceOver \/ Sweep
  \/ Joined \/ JoinTimesOut \/ Rejoined \/ Conclude
  \/ \E s \in Streams : Render(s)

----------------------------------------------------------------------------
(* The capture threads: stream.read(65536) of a buffered pipe returns when  *)
(* it has a whole chunk or the pipe is at its end.                          *)

Reading(s) == pc \notin {"new"} \cup Over /\ reader[s] = "reading"

InPipe(s) == written[s] > total[s] + gathered[s]

ReadUnit(s) ==
  /\ Reading(s)
  /\ InPipe(s)
  /\ IF gathered[s] + 1 = Chunk
       THEN /\ total' = [total EXCEPT ![s] = @ + Chunk]
            /\ gathered' = [gathered EXCEPT ![s] = 0]
       ELSE /\ gathered' = [gathered EXCEPT ![s] = @ + 1]
            /\ UNCHANGED total
  /\ UNCHANGED <<runVars, procVars, written, reader>>

(* Nobody holds the write end any more: the last chunk, and the end. *)
ReadEnd(s) ==
  /\ Reading(s)
  /\ ~InPipe(s)
  /\ holders[s] = {}
  /\ total' = [total EXCEPT ![s] = @ + gathered[s]]
  /\ gathered' = [gathered EXCEPT ![s] = 0]
  /\ reader' = [reader EXCEPT ![s] = "eof"]
  /\ UNCHANGED <<runVars, procVars, written>>

(* OSError: the capture records it and closes its end. *)
ReadFails(s) ==
  /\ Reading(s)
  /\ reader' = [reader EXCEPT ![s] = "error"]
  /\ UNCHANGED <<runVars, procVars, written, gathered, total>>

----------------------------------------------------------------------------
(* The processes of the command.  A killed one only dies.                   *)

Acts(p) == pc \notin Over /\ Running(p) /\ sentence[p] # "kill"

(* The tree still matters: psutil is yet to look at it. *)
Listed == pc \in {"waiting", "terminate", "snapshot"}

Fork(p, h) ==
  LET joining(set) == IF p \in set THEN set \cup {h} ELSE set
  IN /\ Acts(p)
     /\ life[h] = "unborn"
     /\ life' = [life EXCEPT ![h] = "running"]
     /\ group' = joining(group)
     /\ tree' = IF Listed /\ p \in tree \cup {Leader} THEN tree \cup {h} ELSE tree
     /\ deaf' = joining(deaf)
     /\ holders' = [s \in Streams |-> joining(holders[s])]
     /\ UNCHANGED <<runVars, sentence, status, written, captureVars>>

(* setsid(2), which a group leader may not call. *)
LeaveGroup(h) ==
  /\ Acts(h)
  /\ h \in group
  /\ group' = group \ {h}
  /\ UNCHANGED <<runVars, life, sentence, status, tree, deaf, holders, written, captureVars>>

(* The parent dies and the process is init's. *)
LeaveTree(h) ==
  /\ Acts(h)
  /\ h \in tree
  /\ tree' = tree \ {h}
  /\ UNCHANGED <<runVars, life, sentence, status, group, deaf, holders, written, captureVars>>

IgnoreTerm(p) ==
  /\ Acts(p)
  /\ p \notin deaf
  /\ deaf' = deaf \cup {p}
  /\ UNCHANGED <<runVars, life, sentence, status, group, tree, holders, written, captureVars>>

CloseStream(p, s) ==
  /\ Acts(p)
  /\ p \in holders[s]
  /\ holders' = [holders EXCEPT ![s] = @ \ {p}]
  /\ UNCHANGED <<runVars, life, sentence, status, group, tree, deaf, written, captureVars>>

Write(p, s) ==
  /\ Acts(p)
  /\ p \in holders[s]
  /\ reader[s] = "reading"
  /\ written[s] < MaxWritten
  /\ written' = [written EXCEPT ![s] = @ + 1]
  /\ UNCHANGED <<runVars, procVars, captureVars>>

(* A process ends, of itself or by a signal; the leader stays a zombie      *)
(* until it is waited for, and what it forked becomes init's.  What the     *)
(* leader was sent is remembered.                                           *)
Die(p, code) ==
  /\ pc \notin Over
  /\ Running(p)
  /\ sentence[p] = "kill" => code = "bad"
  /\ life' = [life EXCEPT ![p] = IF p = Leader THEN "zombie" ELSE "gone"]
  /\ status' = IF p = Leader THEN code ELSE status
  /\ tree' = IF p = Leader THEN {} ELSE tree \ {p}
  /\ group' = group \ {p}
  /\ deaf' = deaf \ {p}
  /\ holders' = [s \in Streams |-> holders[s] \ {p}]
  /\ sentence' = [sentence EXCEPT ![p] = IF p = Leader THEN @ ELSE "none"]
  /\ UNCHANGED <<runVars, written, captureVars>>

ProcessStep ==
  \E p \in Procs :
    \/ \E h \in Helpers : Fork(p, h)
    \/ IgnoreTerm(p)
    \/ \E s \in Streams : CloseStream(p, s) \/ Write(p, s)
    \/ \E code \in {"ok", "bad"} : Die(p, code)

Next ==
  \/ RunStep
  \/ Cancel
  \/ \E s \in Streams : ReadUnit(s) \/ ReadEnd(s) \/ ReadFails(s)
  \/ ProcessStep
  \/ \E h \in Helpers : LeaveGroup(h) \/ LeaveTree(h)

Spec == Init /\ [][Next]_vars

(* The thread that called run goes on, and the waits it makes are bounded.  *)
(* Nothing is assumed of the command, nor of the capture threads.           *)
FairSpec == Spec /\ WF_vars(pc # "new" /\ RunStep)

----------------------------------------------------------------------------
(* SUCCESS is the command's own: a leader that exits well only after run    *)
(* has signalled it, its TERM handler returning 0 say, is not a success     *)
(* (the order of the branches that set outcome).                            *)
SuccessIsUndisturbed ==
  outcome = "success" => status = "ok" /\ sentence[Leader] = "none"

(* When run returns while a capture thread still reads, every process of    *)
(* the group that holds its pipe has been killed: only a process that left  *)
(* the group can keep the pipe open (join, KILL, join).                     *)
PipeHoldersAreOutside ==
  pc = "done" =>
    \A s \in Streams : reader[s] = "reading" =>
      \A p \in holders[s] \cap group : sentence[p] = "kill"

(* Output that is missing from a successful result without being flagged    *)
(* as truncated was lost to a pipe held open, and only after the whole      *)
(* group was killed for it.                                                 *)
LossMeansForce ==
  outcome = "success" =>
    \A s \in Streams :
      output[s].kept < written[s] /\ ~output[s].truncated =>
        \A p \in group : Running(p) => sentence[p] = "kill"

(* run returns a result only when the command has been collected, and it    *)
(* raises TimeoutExpired only of a command that was sent KILL.              *)
LeaderNeverOutlivesRun ==
  /\ pc = "done" => life[Leader] \in {"unborn", "gone"}
  /\ pc = "raised" => timedOut /\ sentence[Leader] = "kill"

(* run ends, whatever the command does with signals, sessions and pipes.    *)
RunEnds == pc = "waiting" ~> pc \in Over

(* "The executor ... terminates the process group/tree on timeout" (the     *)
(* class comment): with TIMEOUT, every process left in the group has been   *)
(* sent a signal that ends it.                                              *)
TimeoutTerminatesGroup ==
  outcome = "timeout" => \A p \in group : Running(p) => sentence[p] # "none"
=============================================================================
