--------------------------- MODULE TaskProjection ---------------------------
(***************************************************************************)
(* task_provenance_projection: the task rows of a pinned snapshot are read *)
(* once, in file order, into three tables.  An instance is admitted only   *)
(* as long as every row that names it says the same; the first row that    *)
(* disagrees, before or after, turns all of them into rejections.          *)
(*                                                                         *)
(* Rows are numbered from 1 in the order they are read.  A row says which  *)
(* instance it is about, which of the projection's checks it fails, and    *)
(* what it would be projected to.                                          *)
(***************************************************************************)
EXTENDS Integers, Sequences, TLC

CONSTANTS Ids,          \* instance ids
          NoId,         \* a row without a usable instance_id
          Payloads,     \* what a row is projected to (repository, commit, license, language)
          TaskRows,     \* the rows a snapshot may hold
          MaxTaskRows   \* how many it holds at most

\* The checks of project_task_provenance in the order they are made.
Checks == <<"license_not_allowed", "missing_instance_id", "invalid_repository",
            "invalid_base_commit", "missing_language">>

ASSUME TaskRowsAssumption ==
    /\ NoId \notin Ids
    /\ TaskRows \subseteq [id : Ids \cup {NoId}, fails : SUBSET (1 .. Len(Checks)),
                           payload : Payloads]
    /\ \A row \in TaskRows : row.id = NoId => row.fails # {}

VARIABLES taskRead,        \* the rows read so far
          tasks,           \* table tasks: the row an instance is admitted from, 0 if none
          taskConflicts,   \* table conflicts
          taskRejections   \* table rejections, by row number

taskVars == <<taskRead, tasks, taskConflicts, taskRejections>>

None == "none"
Conflicting == "conflicting_task_provenance"
Duplicate == "duplicate_task_provenance"

-----------------------------------------------------------------------------
Valid(row) == row.fails = {}

\* The reason code of the TaskProjectionError: that of the first failed check.
Cause(row) == Checks[CHOOSE c \in row.fails : \A d \in row.fails : c <= d]

Rejected(i, code, cause) == [id |-> i, code |-> code, cause |-> cause]

\* _insert_rejection of the row being read
RowNumber == Len(taskRead) + 1
WithRejection(table, row, code, cause) ==
    [n \in DOMAIN table \cup {RowNumber} |->
        IF n = RowNumber THEN Rejected(row.id, code, cause) ELSE table[n]]

\* _reclassify_rejections_as_conflict: the former reason stays as the cause.
Reclassify(table, i) ==
    [n \in DOMAIN table |->
        IF table[n].id # i \/ table[n].code = Conflicting THEN table[n]
        ELSE Rejected(i, Conflicting, table[n].code)]

\* Mutant: the row the instance was admitted from is deleted and nothing is left of it.
MarkConflictForgetting(table, i) == Reclassify(table, i)

\* What _mark_instance_conflict does to the rejections: the row the instance was
\* admitted from, if any, is rejected too.
MarkConflict(table, i) ==
    [n \in DOMAIN table \cup ({tasks[i]} \ {0}) |->
        IF n = tasks[i] THEN Rejected(i, Conflicting, None) ELSE Reclassify(table, i)[n]]

\* Mutant: only admitted rows are looked up.
HasNoRejection(i) == FALSE

HasRejection(i) == \E n \in DOMAIN taskRejections : taskRejections[n].id = i

-----------------------------------------------------------------------------
ProjectionInit ==
    /\ taskRead = <<>>
    /\ tasks = [i \in Ids |-> 0]
    /\ taskConflicts = {}
    /\ taskRejections = <<>>

\* No instance can be named: the row is rejected on its own.
RejectUnidentified(row) ==
    /\ row.id = NoId
    /\ taskRejections' = WithRejection(taskRejections, row, Cause(row), None)
    /\ UNCHANGED <<tasks, taskConflicts>>

\* The instance is in conflict already, whatever this row says.
RejectInConflict(row) ==
    /\ row.id \in taskConflicts
    /\ taskRejections' = WithRejection(taskRejections, row, Conflicting,
                                       IF Valid(row) THEN None ELSE Cause(row))
    /\ UNCHANGED <<tasks, taskConflicts>>

\* The row fails a check.  When its instance was admitted, that is a conflict.
RejectInvalid(row) ==
    /\ ~Valid(row) /\ row.id \in Ids \ taskConflicts
    /\ LET rejected == WithRejection(taskRejections, row, Cause(row), None)
       IN  IF tasks[row.id] = 0
           THEN taskRejections' = rejected /\ UNCHANGED <<tasks, taskConflicts>>
           ELSE /\ taskRejections' = MarkConflict(rejected, row.id)
                /\ tasks' = [tasks EXCEPT ![row.id] = 0]
                /\ taskConflicts' = taskConflicts \cup {row.id}

\* The first row of its instance.
AdmitFirst(row) ==
    /\ Valid(row) /\ row.id \in Ids \ taskConflicts
    /\ tasks[row.id] = 0 /\ ~HasRejection(row.id)
    /\ tasks' = [tasks EXCEPT ![row.id] = RowNumber]
    /\ UNCHANGED <<taskConflicts, taskRejections>>

RejectDuplicate(row) ==
    /\ Valid(row) /\ row.id \in Ids \ taskConflicts
    /\ tasks[row.id] # 0 /\ taskRead[tasks[row.id]].payload = row.payload
    /\ taskRejections' = WithRejection(taskRejections, row, Duplicate, None)
    /\ UNCHANGED <<tasks, taskConflicts>>

\* A valid row after an invalid one, or one with another payload.
RejectContradiction(row) ==
    /\ Valid(row) /\ row.id \in Ids \ taskConflicts
    /\ IF tasks[row.id] = 0 THEN HasRejection(row.id)
                            ELSE taskRead[tasks[row.id]].payload # row.payload
    /\ taskRejections' = WithRejection(MarkConflict(taskRejections, row.id), row, Conflicting, None)
    /\ tasks' = [tasks EXCEPT ![row.id] = 0]
    /\ taskConflicts' = taskConflicts \cup {row.id}

ReadTaskRow(row) ==
    /\ Len(taskRead) < MaxTaskRows
    /\ taskRead' = Append(taskRead, row)
    /\ \/ RejectUnidentified(row) \/ RejectInConflict(row) \/ RejectInvalid(row)
       \/ AdmitFirst(row) \/ RejectDuplicate(row) \/ RejectContradiction(row)

ProjectionNext == \E row \in TaskRows : ReadTaskRow(row)

ProjectionSpec == ProjectionInit /\ [][ProjectionNext]_taskVars

-----------------------------------------------------------------------------
RowsOf(i) == {n \in 1 .. Len(taskRead) : taskRead[n].id = i}

\* iter_admitted: the record of every admitted instance
Admitted == [i \in {j \in Ids : tasks[j] # 0} |-> taskRead[tasks[i]].payload]

\* The tables hold rows that were read.
ProjectionTypeOK ==
    /\ taskRead \in Seq(TaskRows)
    /\ tasks \in [Ids -> 0 .. Len(taskRead)]
    /\ taskConflicts \subseteq Ids
    /\ DOMAIN taskRejections \subseteq 1 .. Len(taskRead)

\* Every row that was read is either the one an instance is admitted from or it
\* is among the rejections, and never both: deleting the admitted row in
\* _mark_instance_conflict has to leave a rejection for it.
EveryTaskRowIsAccounted ==
    DOMAIN taskRejections = (1 .. Len(taskRead)) \ {tasks[i] : i \in Ids}

\* An instance crosses the join exactly when all of its rows are valid and say
\* the same, in whatever order they came; and the first of them is the one kept.
AdmittedExactlyWhenUnanimous ==
    \A i \in Ids :
        /\ tasks[i] # 0 <=> /\ RowsOf(i) # {}
                            /\ \A n, m \in RowsOf(i) : /\ Valid(taskRead[n])
                                                       /\ taskRead[n].payload = taskRead[m].payload
        /\ tasks[i] # 0 => tasks[i] \in RowsOf(i) /\ \A n \in RowsOf(i) : tasks[i] <= n
=============================================================================
