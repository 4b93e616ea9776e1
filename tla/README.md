# A verification project for NodeLM

NodeLM (`src/`) is a Python application, `nodelm`, and a few Bash runners that turn
pinned trajectory datasets into training and evaluation populations: they download and
normalise, join provenance, decontaminate and split, re-run tests in sandboxes, and
publish every result as an immutable artifact that a later step must find unchanged. It
has no server and few threads. What makes it hard is elsewhere: files published
by several processes, long runs that are interrupted and restarted, child processes and
sandboxes that outlive whoever started them, and one large merge over a mutable forest
whose mistakes would leak evaluation data into training.

This directory holds TLA+ modules translated from that code, TLC configurations that
check them on small instances, and TLAPS proofs that hold for every value of the
constants. `PROJECT.json` is the index: the components, the runs, which lines of the source
each definition stands for (`map`), the hazards and the properties aimed at them, the
findings, and for each property a mutation of the model that violates it.

## Running it

    tlasany CanaryRunner.tla
    tlc -workers 2 -config CanaryRunner.cfg MCCanaryRunner
    tlapm ContaminationProofs.tla

Every `X.cfg` is run on the MC module that extends the module it is about: the `Runner*.cfg`
on `MCCanaryRunner`, `ExecutorGroup.cfg` on `MCCommandExecutor`.

## The system

| Component | State it keeps | Operations | What is hard about it | Module |
|---|---|---|---|---|
| artifacts (`artifacts.py`) | files at deterministic paths | `write_immutable_stream` | concurrent publishers, kills, power failures, hooks that raise | `ImmutablePublish`, `WriteOnce` |
| canary runner (`run_resolution_canary.sh`) | run directory: lock, `run.state`, stop sentinel | phases, traps, restart, terminal validation | signals between any two commands, orphaned children, restarts over partial artifacts | `CanaryRunner` |
| canary commands (`cli.py`) | workset, manifests, image lock, case evidence, results | build workset, lock images, evaluate | several publications that must agree, inputs that change, per-case resume | `CanaryRunner`, `CanarySelection`, `CanarySandbox` |
| canary sandboxes (`evaluation/resolution_canary.py`) | image lock, layouts and bundles under a shared root, attempts | lock, prepare, attempt, conclude | tags move, bundles are stale, output is lost, tests share a name | `CanarySandbox` |
| other runners (`run_full_normalization.sh`, `run_oracle_isolation_reviews.sh`, `run_resolution_recovery.sh`) | lock, `run.state`, `run.binding`, sentinel, a worker | resume, stop, restart | workers that outlive their script, partial sets, a binding written in place | `EvidenceRunners` |
| contamination index (`decontamination/contamination.py`, `fingerprints.py`) | SQLite tables: repositories with parents, values, overlaps, splits | exact and near passes, marking, assignment | union-find by bulk updates, a comparison window, propagation of exclusions | `Contamination` |
| command executor (`harness/executor.py`) | a process, its group, two capture threads | `run` | timeout against exit, deaf and escaping descendants, pipes held open | `CommandExecutor` |
| harness sandbox (`harness/sandbox.py`) | a named container per command | `run`, image readiness | the client dies, the container does not; readiness is cached | `PodmanRun` |
| aliases, split, pilot (`decontamination/split.py`, `datasets/pilot.py`) | alias map, split manifest | resolve, publish, draw | walks over aliases that share tails, names nobody resolves | `PilotSplit` |
| task provenance (`provenance/task_provenance.py`) | three tables | project | a row that contradicts one already admitted | `TaskProjection` |
| normalization (`provenance/pipeline.py`, `normalize.py`, `trace_projection.py`, `manifests.py`) | decisions per rollout, artifact, rejections, manifest | stream, decide, publish | rows of one rollout that disagree, conservation of rows, publication order | `TraceNormalization` |
| oracle isolation, gold, cohort (`provenance/oracle_isolation.py`, `gold.py`, `cohort.py`) | index of claimed samples, attestations | claim, scan, attest, audit, bind | claim exactly once in any order; a PASS that covers less than it says | `OracleReview` |
| resolution recovery (`provenance/resolution.py`) | labels per key, conflicts, candidates, requests | index, transfer, queue, publish | unanimity over duplicates and languages | `ResolutionRecovery` |
| canary selection (`provenance/resolution_canary.py`) | none | bounded cover, replay | rows that share a rollout or a reference | `CanarySelection` |
| staging, transfer, audit, lineage (`datasets/*`), the publishing commands of `cli.py` | private copies, receipts, manifests | capture, stage, derive, publish | a source swapped between hashing and parsing, a kill between two publications | `EvidenceChain` |
| teacher rollouts (`teacher/*`) | attempt records | solve, restore, apply, run, write | a status that must not be stronger than its evidence | `TeacherRollout` |
| training lifecycle (`training/*`, `evaluation/fixture.py`) | weights, optimizer, checkpoint, report | load, step, save, reload, resume, infer, evaluate | two launches over one checkpoint and inputs that change | `TrainingLifecycle` |
| policy, discovery, licenses, doctor, schemas | none | validation and reports | stateless | none |

The components meet in four places. Everything is published through `write_immutable_stream`,
so the promise of `WriteOnce` is what the others build on (elsewhere one publication is one
step, except for case evidence, whose temporary name matters). A command
reads what earlier commands published and binds it by digest: `EvidenceChain` is about the
files and identities, `Pipeline` about the rows in them. The runners talk to their children through
exit codes, process groups, an inherited lock descriptor and the artifacts. The sandboxes are
driven through `CommandExecutor.run`.

What makes each component correct, in a sentence: an artifact is whole and never
replaced; a run directory has one writer and COMPLETE means a consistent chain; related
samples share a split and benchmark relatives are excluded; the outcome of a command is its
own and `run` returns; a sandbox does not outlive the call that owns it; a label is transferred
only when all evidence agrees; rows are neither lost nor counted twice; a PASS covers every
raw row; a verdict is true of the image that was locked; a manifest says only what is so; and
nobody reports an execution that did not happen.

## The modules

Every definition is followed in `map` by the lines it stands for. Comments in the modules name
the calls. Names follow the source where they can.

### `WriteOnce`, `ImmutablePublish`

`WriteOnce` is the promise: a path is absent or holds one content; nothing but a
power failure takes it back to absent, and only while its directory entry is not settled.

`ImmutablePublish` is `write_immutable_stream`, one action per system call that another
process can see: `mkstemp` (`OpenTemporary`), the writer (`Write`), flush + fsync + digest
(`SyncAndHash`), the hook (`BeforePublish`), `os.link` (`Link`, `LinkTaken`), the comparison
(`Compare`) and the `finally` (`Cleanup`). `Raise` is an exception of the writer, the fsync or
the hook; `Kill` is a death that skips the `finally`. `WriteBack` and `PowerFailure` are the
file system: bytes that were not fsynced are torn, names that were not written back may
vanish. The code fsyncs the file and never its directory; the model says so, and
`ReturnedIsPublished` is accordingly limited to the epoch in which the call ended.

An inode is named by the call that created it, so `entry[p]` relates a name to the
call whose bytes are there. Digest equality is not assumed anywhere: `_files_equal` compares
contents.

### `CanaryRunner`

Several launches of the script over one commit-bound run directory, each with its control
location, and the active child each may have. The lock is the flock on descriptor 9, which
children inherit: `Holds(l)` is true as long as the launch *or* its child lives. A trap runs
between two commands of the shell or inside `wait`; `Signal` is therefore enabled at control
locations only, and leads through `stop_active_process_group`, the container sweep and
the write of STOPPED. `Kill` is what no trap sees. The child's steps are those of the three
commands in `cli.py`, with the hooks that compare the inputs at each publication, the evidence
of each case with its temporary name, and the execution manifest published last.

The inputs have versions, and `InputsChange` replaces one by any other: by something new, or by what was there
before. The launch hashes them (`pinned`) and compares after each phase; the child hashes them itself (`seen`), reads
them later (`drawn`) and compares before each link; neither hears of the other's hashes. So a workset of other
inputs than the pinned ones can pass every check: the inputs are others while the child reads them, and are
put back behind it, before the next comparison. The ghost `restored` marks the launches to which that may have
happened: the pinned version came back after the child had hashed, in the phase that builds. `OnlyRestoredInputsEscape`
exempts them, and only from agreeing with `pinned`; without the exemption TLC finds it violated.

The content of an artifact is what the properties tell apart: the workset is the version of
the inputs it was built from, a manifest or image lock the workset it binds, evidence a verdict.
What is abstracted: what a workset selects, digests, the text of `run.state` beyond
`state=` and `pid=`, and the checks of arguments and of the checkout before the lock.

### `Contamination`

`build_contamination_index` from the loaded tables on: the exact pass, the near pass, the
marking of benchmark overlap, the compression of the forest and the assignment of splits. One
step per query that changes something: `StartFind`/`Climb`/`ReachRoot` are the iterations of
`_find_root` with its path compression, `LinkRoots` the bulk
`UPDATE ... WHERE parent = child`. A text is a value with a length, and how many characters
`SequenceMatcher` matches between two texts is an input (`matched`), bounded by
both lengths and symmetric as `is_near_duplicate` makes it by trying both directions. The length
window is translated with its floor and ceiling, over integers: the threshold is
`Num / Den`. Groups are taken in any order, which includes the code's.

### `CommandExecutor`

One `CommandExecutor.run`: the wait, the timeout path (`TermGroup`, `Snapshot`,
`KillDescendants`, `KillLeader`, both waits of `_wait_after_termination`), the `finally`, the
joins, the rendering and the choice of the outcome. Beside it run the capture threads, whose
`stream.read(65536)` is a *buffered* read (it returns only with a whole chunk or at the
end of the pipe), and the processes of the command, which fork, leave the group (`setsid`),
leave the tree (their parent dies), ignore TERM, close and write their output and die. These last
actions are the environment, marked external in `map`. There is no clock: a bounded wait may
time out at any moment.

### `TaskProjection`, `TraceNormalization`, `OracleReview`

The rows of a task snapshot are read once (`ReadTaskRow`) into the three tables of
`task_provenance_projection`; an instance leaves the admitted table as soon as any row of it
fails a check or disagrees (`MarkConflict`), and the row it was admitted from becomes a
rejection with the others. The admitted records are handed to the normalization of the leaves, in
the order of the script: rows are classified one by one, the finished projection decides for each
rollout which row is the sample, and artifact, rejections and manifest are published. A row is a
record of what decisions depend on; its digest is the row. `OracleReview` claims the samples
of a leaf with its raw rows, attests, audits gold exposure and builds a cohort. What makes a single sample
acceptable, and what a recorded context contains, are inputs (`clean`, `reference`, `shown`, `tools`).

### `ResolutionRecovery`, `CanarySelection`

`build-resolution-recovery` indexes labelled observations and open targets, takes
conflicts, candidates and requests from the index, counts, and publishes three files; the checks of the
manifest after the publication are actions, so that a refusal there would leave files
without a manifest. `CanarySelection` continues on what was published: the bounded cover of the strata,
the replay of the chosen rows from the snapshot, the private tasks, the cases and their
manifest. Ids are digests, so any order of them is taken.

### `CanarySandbox`

The image of one case: inspected by tag, copied or pulled, locked by digest; then the two
attempts, each in a sandbox of its own, and the oracle over what they printed. `MoveTag`,
`LockElsewhere`, `UnpackElsewhere` and `PruneImage` are other runs and the operator; an attempt may
time out, be truncated, parse to less than it ran, or fail to be cleaned up; `StopEvaluation` kills the command, which
is started again. `truth` says which tests pass in which image with and without the patch: tests
are taken to be deterministic. `mixed` is a ghost: another run replaced the layout under the shared image
root after this run had copied it and before its lock was published, or after the check of its manifest and before
the unpacking; it stays set, whatever comes of it. The code does not exclude it, and `VerdictIsTheTasksOwn`
exempts it.

### `PilotSplit`

Aliases are resolved walk by walk with the shared cache of `_resolve`, every sample gets the split of
its resolved repository (any division; how groups come to a split is `Contamination`), the split manifest
is written, read and bound, and `build-pilot` filters, orders and bounds. The pilot does not
resolve aliases: it compares the names in the samples.

### `PodmanRun`, `TrainingLifecycle`, `TeacherRollout`

`PodmanRun` is `RootlessPodmanExecutor.run`: cached readiness, the client that may time out, the
container that goes on without it, the forced removal in the `finally`. That nothing creates
a container after the client was collected rests on `LeaderNeverOutlivesRun` of `CommandExecutor`.

`TrainingLifecycle` is `training run-lifecycle` for several launches over the same inputs, checkpoint
directory and report: identify, stage, the eight stages in their order with their preconditions
(any of them may raise), the completion boundary, the fixture evaluation with its two test runs, the report.
Weights are who made the steps and how many. The trust root `AuthorizedPilots` is a constant; in this
commit `AUTHORIZED_PILOT_MANIFEST_SHA256_BY_SAMPLES_SHA256` is empty and every launch ends at the validation, so the
instance follows the tests, which fill it in.

`TeacherRollout` is `run_teacher_rollouts` with and without a local runner: what the adapter says of
itself, the clone of the base commit, the patch, the protected tests, the container, the record of every seed,
and their publication.

### `EvidenceRunners`

The three other scripts, several starts of one of them over one commit-bound directory. They share the
lock on descriptor 9 which a worker inherits, `run.state`, `run.binding` and the sentinel; what differs
is a condition on `script` in the action: when the state file is known, how the binding is written, whether the
worker runs in the foreground, and what is done with a partial set (refused, replayed or
ignored). `CollectWorker` takes the comparison of the inputs, the validation of the set and the second comparison as
one step: what the validation reads is pinned by digests in the set itself. `TermRun` is a trap between two commands or in `wait`, `KillRun` what no trap sees; `Intervene` is
the operator's sentinel and somebody editing inputs or moving HEAD.

### `Pipeline`

The data commands handed each other's results, and the independent jobs beside them. Commands of
different jobs share no state, so a behaviour is of one job and the others stay in their initial
state; `PipelineTypeOK` says so. `HandOverProvenance` and `Conclude` are the hand-overs, `NothingIsStranded` the
property of all publishers together: the validation of a manifest over artifacts already published does not fail
because of their rows. (Kills and changing inputs between the publications are in `EvidenceChain`.)
In a scan of the review a sample was normalized from the row that claims it, so the comparison of their fields
(`raw_normalized_binding_mismatch`) has nothing to find and is left out.

### `EvidenceChain`

The commands of `cli.py` as publishers of files bound by digests: what each captures, what the code pins,
what it derives its outputs from, what it reads in place, which hook runs before each
link, and what its manifest records, as tables over which one set of actions runs (`Capture`, `Stage`,
`CheckFile`, `Link`, `GiveUp`, `Crash`, `Overwrite`, `PutBack`, `Remove`). The content of a file is the set of files it
carries a foreign version of. The hook hashes one file after the other (`CheckFile`), the inputs first and
then the outputs published so far, and `os.link` is a step of its own, as in `artifacts.py`: a file may be overwritten,
put back or removed between any two of them. A snapshot of several files counts as one file whose turn is
the end of its check. Four exemptions are the code's and are stated in the tables or properties:
- A file disturbed after its turn in the hook and before the link goes unseen. The ghost `slipped` is the set of these
  files, and `ManifestTellsTruth` says nothing of them and holds of every other file; it is reset with each hook.
- The workset command reads the recovery, the candidates, the queue, the contract and the receipts in place, after
  it has hashed them. The recovery is parsed and bound again (`BoundRecovery`); of the candidates and the queue, an
  overwrite that is put back goes unseen, as far as the origin of the outputs is concerned.
- `audit-snapshot` stages its snapshot and does not look at it again.
- The pilot does not compare its registry with that of its leaf.

### How far a model goes

Each model stops at the edge its component controls. The proofs and the runs say nothing about
bytes inside artifacts, wording, redaction, exact lengths of time, or Python's numerics.

## What the runs check

| Run | Instance | States | Properties |
|---|---|---|---|
| `ImmutablePublish` | 3 calls, 2 paths, 2 contents, 1 power failure; symmetric in all three | 123,475 | type, `NoTornArtifact`, `ReturnedIsPublished`, `AbortLeavesNothing`, refinement of `WriteOnce` |
| `CanaryRunner` | 2 launches, 2 cases, 2 verdicts, 2 input versions, 2 replacements of the inputs, podman; symmetric in the launches | 4.1 M | type, `OneWriter`, `CompleteMeansWhole`, `OnlyRestoredInputsEscape`, `RestartsNeverCollide` |
| `CanaryRunnerLive` | 2 launches, 1 case, 1 verdict, 1 input version | 209 k | `LockIsFreed` |
| `Contamination` | 4 samples over 4 repositories, 2 tasks, 2 patches, threshold 4/5, all texts and 4 match tables | 2.9 M | type, `FlatForest`, `NoLeakage`, `BenchmarkExcluded`, `GroupsAreComponents`, `BuildTerminates` |
| `Pipeline` | per job, see below | 3.1 M | `PipelineTypeOK`, `EveryTaskRowIsAccounted`, `AdmittedExactlyWhenUnanimous`, `OneSamplePerHonestRollout`, `PassMeansEveryRawRow`, `ConclusionsAreEarned`, `RecoveryIsSound`, `WorksetIsWhole`, `VerdictIsTheTasksOwn`, `PilotAvoidsEvaluation`, `ClaimsWereExecuted`, `RunnersTellTruth`, `NothingIsStranded` |
| `EvidenceChain` | 3 chains, 1 kill, 2 disturbances of any file | 439 k | type, `NormalizedIsReplayed`, `ManifestTellsTruth`, `RestartCompletes` |
| `CommandExecutor` | leader and 2 helpers, 1 stream, chunk of 2, capacity 1, 2 units written | 1.1 M | type, `SuccessIsUndisturbed`, `PipeHoldersAreOutside`, `LossMeansForce`, `LeaderNeverOutlivesRun`, `RunEnds` |

`CHECK_DEADLOCK FALSE` stands where the component ends: publications, the build and `run` are
over when they are over. The canary runner is checked for deadlock.

Why the bounds are enough. Three calls are the least in which two race for a path while
the third publishes elsewhere or retries after the outage. Two launches give a loser of the lock,
an orphan under a new launch, and a restart after any interruption; two replacements are the least in
which inputs are put back; two cases give evidence
complete for one and missing for the other; the liveness run
needs no changing inputs, for `CommandFails` and `ChildRaises` take the same exits. Four repositories are the least that merge
into two groups of two and then into one; the lengths 4 and 6 at threshold 4/5 put a pair on each edge
of the window. Two helpers let one hold a pipe outside the group while another is deaf inside it; a
chunk of 2 is the least at which a read can hold back data, a capacity of 1 the least that truncates.

The instance of `Pipeline`, job by job. Normalization: up to 4 task rows of 2 instances (valid, invalid,
disagreeing, nameless), leaves of 3 and 1 raw rows out of 9 that agree or disagree with one another
in each thing a decision depends on; three rows of one rollout are the least in which a
third meets a conflict of the first two. Recovery: up to 2 labelled rows out of 5 and 4 target rows out of 8 over two
partitions, so that a rollout can be shared across and inside partitions and two languages can meet in a key. A case: 2 images
that disagree in whether the patch resolves the task, 3 tests of which two share a name, one kill, two
moves of tags, layouts and stores. Split: 3 repositories with 2 aliases (a walk that shares its tail with
another), 3 samples. Training: 2 launches and 2 overwrites of the inputs, the least in which one is put back. Teacher: 2 seeds
with and without a runner. Scripts: 2 starts of each, 2 leaves, 1 edit of the inputs or HEAD, the sentinel
freely set and removed: a loser of the lock, a start over what a killed one left, and a worker alive under the
next start.

`EvidenceChain` has one kill and two disturbances: with two, a file is overwritten and put back
inside one command, or an artifact and its manifest are replaced together, or one file changes before its turn
in the hook and another after its own.

Some properties are conjunctions: `RecoveryIsSound` is `TransferIsUnanimous` and `TargetsAreSettledOnce`,
`ClaimsWereExecuted` is `ReportTellsTruth`, `RolloutsTellTruth` and `NoContainerIsLeft`, and
`RunnersTellTruth` is `OneProducer`, `CompleteIsWhole`, `StateNamesOwner`, `StoppedIsQuiet` and
`RefusedForCause`. What the last ones exempt is behaviour of the code: a start of the reviews that
loses the lock writes FAILED over the owner's state (as the canary runner does); between the fork of the worker and
`ACTIVE_PID=$!` TERM records STOPPED while the worker goes on; and a review killed between the creation
of `run.binding` and its content makes every later start refuse.

Five more runs end in a violation. Each states a sentence of the repository that
the code does not keep (`findings` has the quotations):

| Run | Sentence | What TLC finds |
|---|---|---|
| `RunnerRunState` | run.state's pid is the one to signal | the loser of the lock overwrites run.state with FAILED and its own pid, since the exit trap is armed and the path is set before `flock` |
| `RunnerWorkset` | workset publication is reusable after an interruption | killed between the workset and its manifest, every later launch says "require operator review" |
| `RunnerEvidence` | a restart reuses completed cases | a temporary name left in the evidence directory makes every later launch raise |
| `RunnerSandbox` | the runner cleans the active sandbox and records STOPPED | the chroot sandbox has its own session and is never swept |
| `ExecutorGroup` | the executor terminates the process group on timeout | a process forked after the snapshot and deaf to TERM is never sent KILL |

Two of the passing properties are sharpened by what they do *not* say. `LossMeansForce`
allows unflagged loss after the group was killed: the buffered read does lose the last
partial chunk when a process outside the group holds the pipe, with SUCCESS and
`stdout_truncated` false. `ReturnedIsPublished` does not survive a power failure: nothing fsyncs
the directory.

## Fairness

`ImmutablePublish`, `Pipeline` and the safety run of `CanaryRunner` need none. `EvidenceChain` has
`WF(Work)`: a command that runs goes on, and the operator runs again what is still wanted; nothing is
assumed of kills and disturbances, and `RestartCompletes` is about behaviours in which the files are
right from some point on. `Contamination` has
`WF(Next)`: it is a sequential program that nobody pauses for ever. `CommandExecutor` assumes that the
thread that called `run` goes on once it has started (`WF` of `RunStep`), every wait it makes having a
timeout; it assumes nothing of the command or the capture threads, so `RunEnds` holds of a
command that never dies and a pipe that never ends. `CanaryRunner` assumes that a live launch goes
on after it was started, that a live child does, and that a sandbox with a live client ends, for its
client has a timeout. It assumes nothing of a sandbox whose client is dead, of the operator or
of the inputs. `LockIsFreed` would fail without fairness of the children, which is the point:
a child that hung for ever would keep every later launch out.

## What is proved

TLAPS checks these for every value of the constants that satisfies the ASSUMEs of the module
(every ASSUME is also evaluated by TLC in the runs).

`ImmutablePublishProofs`: type correctness, `NoTornArtifact`, `ReturnedIsPublished`,
`AbortLeavesNothing`, and that `Spec` implements `WriteOnce`. None of them is inductive. The invariant adds
what a phase says of the call's bytes (past the fsync they are synced: `PhaseInv`), that a name leads to
a synced inode of a call that created it there (`EntryInv`), and that a success about to be
returned is already true (`SuccessInv`). The refinement then needs that a linked
content never changes: only `Link` writes `entry`, and only onto a free name.

`ContaminationProofs`: type correctness, `FlatForest`, `NoLeakage`, `BenchmarkExcluded` and
`GroupsAreComponents`, for every population, every threshold and every order of the groups. `NoLeakage` is an argument in two
halves. `WindowIsSafe` is arithmetic: texts that match well enough have lengths within the
window, so no related pair escaped comparison. The invariant follows one group
at a time: each group already taken is either merged (its repositories have one parent) or in progress (each of
its repositories is to be looked up, being looked up, or hangs from a root already found). A later union
keeps earlier groups merged because the forest is flat at every step, `Climb` and path
compression included, and that is exactly what `UPDATE ... WHERE parent = child` depends on.
`GroupsAreComponents` is the converse as well: nothing is merged that is not linked. Its reference is stated
without paths, two repositories are apart when a set that no link leads out of holds one without the other, so
that no induction over a path is needed: `GroupInv` says that no such set tells what is being walked, or what
hangs from a root, apart, and that a parent is never larger than its child; and the
repositories of one root are such a set, by the argument of `NoLeakage`.

`CommandExecutorProofs`: type correctness and the four safety properties, for any number of helpers, streams
and units. The invariant says what each stage has secured: past the waits the leader is collected,
after `JoinTimesOut` every member of the group is sentenced to KILL (a sentenced process cannot fork,
so the group cannot gain an unsentenced one), and a capture that reached the end of its pipe has
everything that was written.

`CanaryRunnerProofs`: type correctness, `OneWriter`, `CompleteMeansWhole`, `OnlyRestoredInputsEscape` and
`RestartsNeverCollide`, for any number of launches, cases, versions of the inputs and replacements. `OneWriter`
rests on nobody going past the lock without having taken it: every step but `Flock` only closes descriptors, so `Holds` only
shrinks. The others rest on `RunnerInv`: since there is one writer, what a phase left on disk is still there when
the next phase looks. It says where a child may be for each location of its launch
(`ChildInPlace`), that there is evidence only of cases under a locked image, and at most one temporary name,
that of a live child (`EvidenceInOrder`), that results are those of the evidence (`ResultsAreEvidence`), and how
the inputs a launch hashed, those its child hashed and read and those the workset binds agree
(`InputsInOrder`, `WorksetInOrder`). The first is where replacements bite: what a child hashed and read is what its
launch pinned, or the inputs are others *now*, which the launch will find, or they were put back (`AsPinned`). A
terminal check that passed stays true because only the launch that made it may write.

`EvidenceRunnersProofs`: type correctness and `RunnersTellTruth`, for any number of starts, leaves and edits.
`RunnersInv` says where a start may have a worker, that the binding is there before the first
file and is never replaced once whole, that the sets behind a start are finished for good, and
who has left the part of a set that another start finds.

`EvidenceChainProofs`: type correctness, `NormalizedIsReplayed` and the action property `ManifestTellsTruth`, for any
number of kills and of files overwritten, put back and removed. `ChainInv` says that what a
running command has captured is right wherever the command pins or replays it
(`CapturedRight`), that a foreign output has a source that accounts for it, captured foreign or read in place and then
bound to be found by the hook (`TaintHasSource`, `Accounts`), that a file the hook has been at is as it found it or
has slipped (`HookInOrder`), so that at the link all the others are as the manifest records them,
and that a foreign manifest over rows names the foreign rows (`ManifestsNameTheirRows`), which is why normalizing
from it is refused. Lemmas state what the table of the commands says, so that the steps are proved once and not
command by command.

`ProvenanceProofs`, over `Pipeline`: `EveryTaskRowIsAccounted`, `AdmittedExactlyWhenUnanimous`, `RecoveryIsSound`,
`OneSamplePerHonestRollout`, `PassMeansEveryRawRow`, `ConclusionsAreEarned`, `WorksetIsWhole`,
`PilotAvoidsEvaluation` and `NothingIsStranded`, for any rows, any number of them and any order.
- Projection. The invariant says of each instance how its table entries, its conflict mark and the rejections of
  its rows belong together (`SettledRightly`), since one new row may change all of them at once; each of
  the six ways in which a row is taken has a lemma. The projection is type correct by itself.
- Recovery (`RecoveryInv`). The tables of the index are the images of the rows read so far (`IndexIsOfRows`), the
  counters are the sizes of sets of places (`RowsAreCounted`), and the outputs are what the index
  defines (`OutputsAreOfIndex`). That a refusal has one of two reasons is counting: targets that are not
  lost number as many as the rows exactly when no row is there twice, and the requests partition those queued.
- Normalization (`NormInv`). A classified leaf is decided as its rows demand, the leaves after the current one are
  untouched, and a decision depends on the rows and the provenance only, which later steps leave alone. The first
  row of a key exists because a set of naturals has a least element; a group of rows is free of
  conflict exactly when all its rows are the same and normalize.
- Manifest of a leaf (`ManifestAlwaysHolds`). The projection cannot raise; each of its rows is
  admitted or refused for one of four codes, so that the sum over the codes can be written out; admitted
  rows are of different keys, none in conflict, and a key in conflict has two rows. Hence `NothingIsStranded`.
- Review (`ReviewInv`). What a scan has claimed is what the leaf admitted among the rows scanned so far, and its
  three counters are functions of that set (`ScanIsRight`). At the end it has claimed all of
  them, so the counters agree with the rows exactly when every row had a sample and was
  isolated (`ScanConcludes`), and what is written then always validates. A cohort counts each sample once because a
  sample id tells the leaf and, in a leaf, no raw row is admitted twice (`SamplesOfMembers`).
- Canary workset (`CanaryInv`). Filling in the first items one by one stops at the first fill that is large enough,
  which is no larger than the maximum (`FilledWithinBounds`), so a cover that is not empty is a
  cover (`CoverCovers`). Each candidate of a published recovery is one open row of the snapshot, and an
  open row can be replayed, so what has been replayed determines what has been found again.
- Split and pilot (`PilotInv`). Every alias that is resolved has the end of its target, which is no alias
  (`AliasesInOrder`), and the aliases of a walk follow one another. So following aliases, however far, does not
  change what a repository comes to (`EndsAgree`, by the least step at which it would), and a name the
  split lists is its own end.

`ExecutionProofs`: `VerdictIsTheTasksOwn`, for any images, tests, names, kills and moves by others. The
invariant follows the digest from the lock to the bundle (`ImageChain`), says that what an attempt
reports is what passes in that image or nothing (`ResultsAreTrue`), and that a sandbox is left
only where the outcome says so (`LeftIsMarked`). `ImageChain` and `ResultsAreTrue` hold as long as
no layout was `mixed`. And `ClaimsWereExecuted`, for any number of launches, attempts and kills, along `ClaimsInv`:
a call of the sandbox that is believed leaves no container (`BoxesInv`); a launch holds at each of its stages what
the stage before gave it, the checkpoint is of one launch only, and a status is earned by the tests that were shown
(`TrainingInv`); every attempt of a teacher works on a clone of its own and every record is of
such an attempt (`TeacherInv`). The steps of a launch share nothing but the checkpoint and the report, so the
lemmas say of each action what it does to its own launch and that the other launches stand.
`JobsAreTheirComponents` carries the theorems about evaluation and about the runners over to `Pipeline`
(`VerdictsOfThePipeline`, `RunnersOfThePipeline`). `PipelineTypeOK` puts the invariants of all
components side by side (`DataTyped`, `ClaimsInv`), with the phases and bounds that none of them needed
(`RowsAreBounded`, `RecoveryBounded`, `HostTyped` and the like), and `AtRest`: a component
the job has no part in is in its initial state, which a step only keeps because no command writes to
the state of another job.

Only model-checked: the liveness properties `RunEnds`, `BuildTerminates`, `LockIsFreed` and
`RestartCompletes` (liveness under fairness is out of the prover's reach). Every other property of a
passing run is a theorem.

What checks and proofs rest on, besides the ASSUMEs: a digest identifies its content; tests are
deterministic; a test command exits 0 only when every test it ran passed; the podman client creates nothing
once it is collected; and inputs that differ lead to files that differ.

## Plan

Done: `ImmutablePublish` with `WriteOnce`, `Contamination`, `CommandExecutor`, `CanaryRunner`, `EvidenceChain`,
`TaskProjection`, `TraceNormalization`, `OracleReview`, `ResolutionRecovery`, `CanarySelection`, `CanarySandbox`,
`EvidenceRunners`, `PodmanRun`, `TrainingLifecycle`, `TeacherRollout` and `PilotSplit`, checked, and their safety
proved.

What is left: the two hazards without a property (the sweep of another run directory's containers and the image
root shared between directories), the rounding of the window's bounds, the windows between a check and its
use that the properties exempt (`slipped`, `restored`, `mixed`), each with its reason in `PROJECT.json`, and the
parts below.

## Not modelled, and why

Parsing, schemas, logging, redaction and wording: data without state. Network reads and machine reports
(`doctor`, `remote_verify.sh`): I/O without a protocol. The license gate, the policy, discovery and patch checks
of the harness, the adapters and the registry of models: stateless validation. The findings of a
dataset audit (`datasets/audit.py`): a function of the rows. The chroot launcher's mounts, limits and
seccomp filter and the checks of a rootfs's paths: what they promise is a property of the kernel.
The numerics of training and of floating-point bounds: outside TLA+ (the window is
exact here; a double's rounding at an integral quotient is listed as a hazard). `SequenceMatcher`'s own
algorithm: an input with the bounds its definition guarantees. Process-group numbers and their reuse: a group
is the set of its members. Other run directories on the same machine: the sweep of the canary runner removes
their containers as well, which is listed as a hazard. `PROJECT.json` says of each component what is left.
