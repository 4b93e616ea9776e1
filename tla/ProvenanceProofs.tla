-------------------------- MODULE ProvenanceProofs --------------------------
(***************************************************************************)
(* Proofs about the data pipeline: what is admitted of a snapshot of task  *)
(* records, of a leaf of traces and of the rows of a resolution recovery,  *)
(* for any rows in any order, what the oracle-isolation review, the audit  *)
(* of gold exposure and the cohort conclude from it, what a canary workset *)
(* covers of a recovery, that what is published gets its manifest, and     *)
(* that a pilot stays away from what is evaluated.                         *)
(***************************************************************************)
EXTENDS Pipeline, FiniteSetTheorems, SequenceTheorems, TLAPS

-----------------------------------------------------------------------------
\* The projection of task provenance

Tables ==
    /\ taskRead \in Seq(TaskRows)
    /\ tasks \in [Ids -> 0 .. Len(taskRead)]
    /\ taskConflicts \subseteq Ids
    /\ DOMAIN taskRejections \subseteq 1 .. Len(taskRead)

\* A rejection carries the instance of its row, so that HasRejection finds it.
Names(table, rows) == \A n \in DOMAIN table : table[n].id = rows[n].id
RejectionsNameTheirRows == Names(taskRejections, taskRead)

\* What the tables say of one instance: the row it is admitted from is the first of its rows
\* and all of them agree; a conflict is one; and what is neither admitted nor in conflict
\* has had no valid row.
AgreesWithRows(i) ==
    \A n \in RowsOf(i) : /\ tasks[i] <= n /\ Valid(taskRead[n])
                         /\ taskRead[n].payload = taskRead[tasks[i]].payload
Disagree(i) ==
    \E n, m \in RowsOf(i) : ~Valid(taskRead[n]) \/ taskRead[n].payload # taskRead[m].payload
NoneValid(i) == \A n \in RowsOf(i) : ~Valid(taskRead[n])

SettledRightly(i) ==
    /\ tasks[i] # 0 => tasks[i] \in RowsOf(i) /\ AgreesWithRows(i)
    /\ i \in taskConflicts => tasks[i] = 0 /\ Disagree(i)
    /\ i \notin taskConflicts /\ tasks[i] = 0 => NoneValid(i)

TaskInv ==
    /\ Tables /\ RejectionsNameTheirRows /\ EveryTaskRowIsAccounted
    /\ \A i \in Ids : SettledRightly(i)

-----------------------------------------------------------------------------
\* What reading one more row does to the rows of an instance.
LEMMA RowsAfterReading ==
    ASSUME Tables, NEW row \in TaskRows, taskRead' = Append(taskRead, row)
    PROVE  /\ taskRead' \in Seq(TaskRows)
           /\ Len(taskRead) \in Nat /\ Len(taskRead') = RowNumber
           /\ RowNumber = Len(taskRead) + 1
           /\ \A n \in 1 .. Len(taskRead) : taskRead'[n] = taskRead[n]
           /\ taskRead'[RowNumber] = row
           /\ \A i : RowsOf(i)' = IF row.id = i THEN RowsOf(i) \cup {RowNumber} ELSE RowsOf(i)
           /\ \A i : RowsOf(i) \subseteq 1 .. Len(taskRead)
  <1>1. /\ taskRead' \in Seq(TaskRows)
        /\ Len(taskRead) \in Nat /\ Len(taskRead') = RowNumber
        /\ RowNumber = Len(taskRead) + 1
        /\ \A n \in 1 .. Len(taskRead) : taskRead'[n] = taskRead[n]
        /\ taskRead'[RowNumber] = row
    BY DEF Tables, RowNumber
  <1>2. \A i : RowsOf(i)' = IF row.id = i THEN RowsOf(i) \cup {RowNumber} ELSE RowsOf(i)
    BY <1>1 DEF RowsOf
  <1> QED BY <1>1, <1>2 DEF RowsOf

\* A row belongs to one instance only, so that no two instances are admitted from one row,
\* and an instance without a rejection that is not admitted has no rows.
LEMMA RowsAreOfOneInstance ==
    ASSUME TaskInv
    PROVE  /\ \A i, j \in Ids : tasks[i] # 0 /\ tasks[i] = tasks[j] => i = j
           /\ \A i \in Ids : tasks[i] = 0 /\ ~HasRejection(i) => RowsOf(i) = {}
  <1>1. \A i, j \in Ids : tasks[i] # 0 /\ tasks[i] = tasks[j] => i = j
    BY DEF TaskInv, SettledRightly, RowsOf
  <1>2. ASSUME NEW i \in Ids, tasks[i] = 0, NEW n \in RowsOf(i)
        PROVE  HasRejection(i)
    <2>1. \A j \in Ids : tasks[j] # n
      BY <1>2 DEF TaskInv, SettledRightly, RowsOf
    <2> QED BY <1>2, <2>1
            DEF TaskInv, EveryTaskRowIsAccounted, RejectionsNameTheirRows, Names, HasRejection, RowsOf
  <1> QED BY <1>1, <1>2

-----------------------------------------------------------------------------
LEMMA TaskInvInit == ASSUME ProjectionInit PROVE TaskInv
  <1> USE DEF ProjectionInit
  <1>1. \A i : RowsOf(i) = {}
    <2>1. Len(taskRead) = 0
      OBVIOUS
    <2>2. 1 .. Len(taskRead) = {}
      BY <2>1
    <2> QED BY <2>2 DEF RowsOf
  <1>2. Tables
    BY DEF Tables
  <1>3. EveryTaskRowIsAccounted
    BY DEF EveryTaskRowIsAccounted
  <1>4. \A i \in Ids : SettledRightly(i)
    BY <1>1 DEF SettledRightly, NoneValid
  <1> QED BY <1>2, <1>3, <1>4 DEF TaskInv, RejectionsNameTheirRows, Names

\* The row of one instance changes nothing about another one.
LEMMA KeepsOthers ==
    ASSUME TaskInv, NEW row \in TaskRows, taskRead' = Append(taskRead, row),
           NEW i \in Ids, i # row.id, tasks'[i] = tasks[i],
           i \in taskConflicts' <=> i \in taskConflicts
    PROVE  SettledRightly(i)'
  <1>1. RowsOf(i)' = RowsOf(i) /\ \A n \in RowsOf(i) : taskRead'[n] = taskRead[n]
    BY RowsAfterReading DEF TaskInv
  <1>2. SettledRightly(i)
    BY DEF TaskInv
  <1>3. /\ Disagree(i)' <=> Disagree(i)
        /\ NoneValid(i)' <=> NoneValid(i)
    BY <1>1 DEF Disagree, NoneValid, Valid, RowsOf
  <1>4. ASSUME tasks[i] # 0 PROVE AgreesWithRows(i)'
    <2>1. tasks[i] \in RowsOf(i) /\ AgreesWithRows(i)
      BY <1>2, <1>4 DEF SettledRightly
    <2> QED BY <1>1, <2>1 DEF AgreesWithRows, Valid, RowsOf
  <1> QED BY <1>1, <1>2, <1>3, <1>4 DEF SettledRightly

-----------------------------------------------------------------------------
\* What each of the six outcomes of a row has to start from
ReadsIn(row) == TaskInv /\ row \in TaskRows /\ taskRead' = Append(taskRead, row)

LEMMA ReadFacts ==
    ASSUME NEW row, ReadsIn(row)
    PROVE  /\ Names(taskRejections, taskRead') /\ taskRead'[RowNumber] = row
           /\ \A i \in Ids : tasks[i] # 0 => tasks[i] \in 1 .. Len(taskRead)
                                           /\ taskRead'[tasks[i]].id = i
           /\ row.id \in Ids \cup {NoId} /\ NoId \notin Ids /\ row.id = NoId => ~Valid(row)
  <1>1. TaskInv /\ row \in TaskRows /\ taskRead' = Append(taskRead, row)
    BY DEF ReadsIn
  <1>2. Tables /\ RejectionsNameTheirRows /\ \A i \in Ids : SettledRightly(i)
    BY <1>1 DEF TaskInv
  <1>3. Names(taskRejections, taskRead')
    BY <1>1, <1>2, RowsAfterReading DEF Tables, RejectionsNameTheirRows, Names
  <1>4. \A i \in Ids : tasks[i] # 0 => tasks[i] \in 1 .. Len(taskRead) /\ taskRead'[tasks[i]].id = i
    BY <1>1, <1>2, RowsAfterReading DEF SettledRightly, RowsOf
  <1> QED BY <1>1, <1>2, <1>3, <1>4, RowsAfterReading, TaskRowsAssumption DEF Valid

\* A row that is rejected without a change to what is admitted.
LEMMA RejectedAlone ==
    ASSUME NEW row, ReadsIn(row), NEW code, NEW cause,
           taskRejections' = WithRejection(taskRejections, row, code, cause),
           UNCHANGED <<tasks, taskConflicts>>
    PROVE  /\ Tables' /\ RejectionsNameTheirRows' /\ EveryTaskRowIsAccounted'
           /\ \A i \in Ids : i # row.id => SettledRightly(i)'
  <1>1. TaskInv /\ Tables /\ row \in TaskRows /\ taskRead' = Append(taskRead, row)
    BY DEF ReadsIn, TaskInv
  <1>2. DOMAIN taskRejections' = DOMAIN taskRejections \cup {RowNumber}
        /\ Names(taskRejections', taskRead')
    <2>1. Names(taskRejections, taskRead') /\ taskRead'[RowNumber] = row
      BY ReadFacts
    <2> QED BY <2>1 DEF Names, WithRejection, Rejected
  <1>3. Tables'
    BY <1>1, <1>2, RowsAfterReading DEF Tables
  <1>4. EveryTaskRowIsAccounted'
    BY <1>1, <1>2, RowsAfterReading, ReadFacts DEF EveryTaskRowIsAccounted, TaskInv
  <1>5. \A i \in Ids : i # row.id => SettledRightly(i)'
    BY <1>1, KeepsOthers
  <1> QED BY <1>2, <1>3, <1>4, <1>5 DEF RejectionsNameTheirRows

\* A row with which its instance goes from the admitted, or from nothing, to the conflicts.
LEMMA RejectedAsConflict ==
    ASSUME NEW row, ReadsIn(row), row.id \in Ids,
           DOMAIN taskRejections'
               = DOMAIN taskRejections \cup {RowNumber} \cup ({tasks[row.id]} \ {0}),
           Names(taskRejections', taskRead'),
           tasks' = [tasks EXCEPT ![row.id] = 0],
           taskConflicts' = taskConflicts \cup {row.id},
           Disagree(row.id)'
    PROVE  TaskInv'
  <1>1. TaskInv /\ Tables /\ row \in TaskRows /\ taskRead' = Append(taskRead, row)
    BY DEF ReadsIn, TaskInv
  <1>2. Tables'
    BY <1>1, RowsAfterReading DEF Tables
  <1>3. EveryTaskRowIsAccounted'
    <2>1. {tasks'[i] : i \in Ids} \cup {0} = ({tasks[i] : i \in Ids} \ {tasks[row.id]}) \cup {0}
      BY <1>1, RowsAreOfOneInstance DEF Tables
    <2>2. DOMAIN taskRejections = (1 .. Len(taskRead)) \ {tasks[i] : i \in Ids}
      BY <1>1 DEF TaskInv, EveryTaskRowIsAccounted
    <2>3. /\ Len(taskRead) \in Nat /\ Len(taskRead)' = Len(taskRead) + 1
          /\ RowNumber = Len(taskRead) + 1
      BY <1>1, RowsAfterReading
    <2>4. {tasks[i] : i \in Ids} \subseteq 0 .. Len(taskRead)
      BY <1>1 DEF Tables
    <2>5. tasks[row.id] \in {tasks[i] : i \in Ids}
      OBVIOUS
    <2>6. (1 .. Len(taskRead) + 1) \ {tasks'[i] : i \in Ids}
            = ((1 .. Len(taskRead)) \ {tasks[i] : i \in Ids})
              \cup {Len(taskRead) + 1} \cup ({tasks[row.id]} \ {0})
      <3> DEFINE T == {tasks[i] : i \in Ids}
      <3> DEFINE U == {tasks'[i] : i \in Ids}
      <3> HIDE DEF T, U
      <3>1. U \cup {0} = (T \ {tasks[row.id]}) \cup {0} /\ tasks[row.id] \in T
            /\ T \in SUBSET (0 .. Len(taskRead)) /\ Len(taskRead) \in Nat
        BY <2>1, <2>3, <2>4, <2>5 DEF T, U
      <3>2. \A n \in U : n = 0 \/ (n \in T /\ n # tasks[row.id])
        BY <3>1
      <3>3. \A n \in T : n = tasks[row.id] \/ n = 0 \/ n \in U
        BY <3>1
      <3>4. (1 .. Len(taskRead) + 1) \ U
            = ((1 .. Len(taskRead)) \ T) \cup {Len(taskRead) + 1} \cup ({tasks[row.id]} \ {0})
        <4> DEFINE L == Len(taskRead)
        <4> DEFINE t == tasks[row.id]
        <4>1. L \in Nat /\ t \in T /\ T \subseteq 0 .. L
          BY <3>1
        <4>2. /\ \A n \in U : n = 0 \/ (n \in T /\ n # t)
              /\ \A n \in T : n = t \/ n = 0 \/ n \in U
          BY <3>2, <3>3
        <4> HIDE DEF L, t
        <4>3. (1 .. L + 1) \ U = ((1 .. L) \ T) \cup {L + 1} \cup ({t} \ {0})
          <5>1. ASSUME NEW n
                PROVE  n \in (1 .. L + 1) \ U
                         <=> n \in ((1 .. L) \ T) \cup {L + 1} \cup ({t} \ {0})
            BY <4>1, <4>2
          <5> QED BY <5>1
        <4> QED BY <4>3 DEF L, t
      <3> QED BY <3>4 DEF T, U
    <2> QED BY <2>2, <2>3, <2>6 DEF EveryTaskRowIsAccounted
  <1>4. \A i \in Ids : i # row.id => SettledRightly(i)'
    BY <1>1, KeepsOthers DEF Tables
  <1>5. SettledRightly(row.id)'
    BY <1>1 DEF SettledRightly, Tables
  <1> QED BY <1>2, <1>3, <1>4, <1>5 DEF TaskInv, RejectionsNameTheirRows

\* The rows of the row's own instance
LEMMA OwnRows ==
    ASSUME NEW row, ReadsIn(row)
    PROVE  /\ RowNumber \in RowsOf(row.id)' /\ taskRead'[RowNumber] = row
           /\ \A n \in RowsOf(row.id) : /\ n \in RowsOf(row.id)' /\ n < RowNumber
                                        /\ n \in Nat /\ taskRead'[n] = taskRead[n]
           /\ \A n \in RowsOf(row.id)' : n = RowNumber \/ n \in RowsOf(row.id)
           /\ RowNumber \in Nat \ {0}
  <1>1. Tables /\ row \in TaskRows /\ taskRead' = Append(taskRead, row)
    BY DEF ReadsIn, TaskInv
  <1> QED BY <1>1, RowsAfterReading

LEMMA UnidentifiedKeeps ==
    ASSUME NEW row, ReadsIn(row), RejectUnidentified(row) PROVE TaskInv'
  <1>1. \A i \in Ids : i # row.id
    BY TaskRowsAssumption DEF RejectUnidentified
  <1>2. /\ Tables' /\ RejectionsNameTheirRows' /\ EveryTaskRowIsAccounted'
        /\ \A i \in Ids : i # row.id => SettledRightly(i)'
    BY RejectedAlone DEF RejectUnidentified
  <1> QED BY <1>1, <1>2 DEF TaskInv

LEMMA InConflictKeeps ==
    ASSUME NEW row, ReadsIn(row), RejectInConflict(row) PROVE TaskInv'
  <1>1. /\ Tables' /\ RejectionsNameTheirRows' /\ EveryTaskRowIsAccounted'
        /\ \A i \in Ids : i # row.id => SettledRightly(i)'
    BY RejectedAlone DEF RejectInConflict
  <1>2. row.id \in Ids /\ tasks[row.id] = 0 /\ Disagree(row.id)
    BY DEF RejectInConflict, ReadsIn, TaskInv, Tables, SettledRightly
  <1>3. Disagree(row.id)'
    BY <1>2, OwnRows DEF Disagree, Valid
  <1>4. SettledRightly(row.id)'
    BY <1>2, <1>3 DEF RejectInConflict, SettledRightly
  <1> QED BY <1>1, <1>4 DEF TaskInv

LEMMA DuplicateKeeps ==
    ASSUME NEW row, ReadsIn(row), RejectDuplicate(row) PROVE TaskInv'
  <1>1. /\ Tables' /\ RejectionsNameTheirRows' /\ EveryTaskRowIsAccounted'
        /\ \A i \in Ids : i # row.id => SettledRightly(i)'
    BY RejectedAlone DEF RejectDuplicate
  <1>2. /\ row.id \in Ids \ taskConflicts /\ tasks[row.id] # 0 /\ tasks[row.id] \in RowsOf(row.id)
        /\ AgreesWithRows(row.id)
        /\ Valid(row) /\ taskRead[tasks[row.id]].payload = row.payload
    BY DEF RejectDuplicate, ReadsIn, TaskInv, SettledRightly
  <1>3. AgreesWithRows(row.id)' /\ tasks'[row.id] \in RowsOf(row.id)'
    BY <1>2, OwnRows DEF RejectDuplicate, AgreesWithRows, Valid
  <1>4. SettledRightly(row.id)'
    BY <1>2, <1>3 DEF RejectDuplicate, SettledRightly
  <1> QED BY <1>1, <1>4 DEF TaskInv

LEMMA InvalidKeeps ==
    ASSUME NEW row, ReadsIn(row), RejectInvalid(row) PROVE TaskInv'
  <1>1. ~Valid(row) /\ row.id \in Ids \ taskConflicts
    BY DEF RejectInvalid
  <1>2. CASE tasks[row.id] = 0
    <2>1. /\ Tables' /\ RejectionsNameTheirRows' /\ EveryTaskRowIsAccounted'
          /\ \A i \in Ids : i # row.id => SettledRightly(i)'
      BY <1>2, RejectedAlone DEF RejectInvalid
    <2>2. NoneValid(row.id)
      BY <1>1, <1>2 DEF ReadsIn, TaskInv, SettledRightly
    <2>3. NoneValid(row.id)'
      BY <1>1, <2>2, OwnRows DEF NoneValid, Valid
    <2>4. SettledRightly(row.id)'
      BY <1>1, <1>2, <2>3 DEF RejectInvalid, SettledRightly
    <2> QED BY <2>1, <2>4 DEF TaskInv
  <1>3. CASE tasks[row.id] # 0
    <2> DEFINE rejected == WithRejection(taskRejections, row, Cause(row), None)
    <2>1. /\ taskRejections' = MarkConflict(rejected, row.id)
          /\ tasks' = [tasks EXCEPT ![row.id] = 0]
          /\ taskConflicts' = taskConflicts \cup {row.id}
      BY <1>3 DEF RejectInvalid
    <2>2. DOMAIN rejected = DOMAIN taskRejections \cup {RowNumber} /\ Names(rejected, taskRead')
      <3>1. Names(taskRejections, taskRead') /\ taskRead'[RowNumber] = row
        BY ReadFacts
      <3> QED BY <3>1 DEF Names, WithRejection, Rejected
    <2> HIDE DEF rejected
    <2>3. /\ DOMAIN taskRejections'
                = DOMAIN taskRejections \cup {RowNumber} \cup ({tasks[row.id]} \ {0})
          /\ Names(taskRejections', taskRead')
      <3>1. tasks[row.id] # 0 => taskRead'[tasks[row.id]].id = row.id
        BY <1>1, ReadFacts
      <3>2. \A n \in DOMAIN rejected : Reclassify(rejected, row.id)[n].id = rejected[n].id
        BY DEF Reclassify, Rejected
      <3>3. 0 \notin DOMAIN rejected
        BY <2>2, OwnRows DEF ReadsIn, TaskInv, Tables
      <3> QED BY <2>1, <2>2, <3>1, <3>2, <3>3 DEF MarkConflict, Names, Rejected
    <2>4. Disagree(row.id)'
      BY <1>1, OwnRows DEF Disagree, Valid
    <2> QED BY <1>1, <2>1, <2>3, <2>4, RejectedAsConflict
  <1> QED BY <1>2, <1>3

LEMMA ContradictionKeeps ==
    ASSUME NEW row, ReadsIn(row), RejectContradiction(row) PROVE TaskInv'
  <1> DEFINE marked == MarkConflict(taskRejections, row.id)
  <1>1. /\ Valid(row) /\ row.id \in Ids \ taskConflicts
        /\ taskRejections' = WithRejection(marked, row, Conflicting, None)
        /\ tasks' = [tasks EXCEPT ![row.id] = 0]
        /\ taskConflicts' = taskConflicts \cup {row.id}
    BY DEF RejectContradiction
  <1>2. DOMAIN marked = DOMAIN taskRejections \cup ({tasks[row.id]} \ {0}) /\ Names(marked, taskRead')
    <2>1. /\ Names(taskRejections, taskRead') /\ 0 \notin DOMAIN taskRejections
          /\ tasks[row.id] # 0 => taskRead'[tasks[row.id]].id = row.id
      BY <1>1, ReadFacts DEF ReadsIn, TaskInv, Tables
    <2>2. \A n \in DOMAIN taskRejections :
             Reclassify(taskRejections, row.id)[n].id = taskRejections[n].id
      BY DEF Reclassify, Rejected
    <2> QED BY <2>1, <2>2 DEF MarkConflict, Names, Rejected
  <1> HIDE DEF marked
  <1>3. /\ DOMAIN taskRejections'
              = DOMAIN taskRejections \cup {RowNumber} \cup ({tasks[row.id]} \ {0})
        /\ Names(taskRejections', taskRead')
    <2>1. taskRead'[RowNumber] = row
      BY ReadFacts
    <2> QED BY <1>1, <1>2, <2>1 DEF Names, WithRejection, Rejected
  <1>4. Disagree(row.id)'
    <2>1. CASE tasks[row.id] = 0
      <3>1. PICK n \in DOMAIN taskRejections : taskRejections[n].id = row.id
        BY <2>1 DEF RejectContradiction, HasRejection
      <3>2. n \in RowsOf(row.id)
        BY <3>1 DEF ReadsIn, TaskInv, Tables, RejectionsNameTheirRows, Names, RowsOf
      <3>3. ~Valid(taskRead[n])
        BY <1>1, <2>1, <3>2 DEF ReadsIn, TaskInv, SettledRightly, NoneValid
      <3> QED BY <3>2, <3>3, OwnRows DEF Disagree, Valid
    <2>2. CASE tasks[row.id] # 0
      <3>1. tasks[row.id] \in RowsOf(row.id) /\ taskRead[tasks[row.id]].payload # row.payload
        BY <1>1, <2>2 DEF RejectContradiction, ReadsIn, TaskInv, SettledRightly
      <3> QED BY <3>1, OwnRows DEF Disagree
    <2> QED BY <2>1, <2>2
  <1> QED BY <1>1, <1>3, <1>4, RejectedAsConflict

LEMMA AdmitFirstKeeps ==
    ASSUME NEW row, ReadsIn(row), AdmitFirst(row) PROVE TaskInv'
  <1>1. /\ TaskInv /\ Tables /\ row \in TaskRows /\ taskRead' = Append(taskRead, row)
        /\ Valid(row) /\ row.id \in Ids \ taskConflicts
        /\ tasks[row.id] = 0 /\ ~HasRejection(row.id)
        /\ tasks' = [tasks EXCEPT ![row.id] = RowNumber]
        /\ UNCHANGED <<taskConflicts, taskRejections>>
    BY DEF AdmitFirst, ReadsIn, TaskInv
  <1>2. Tables'
    BY <1>1, RowsAfterReading DEF Tables
  <1>3. RejectionsNameTheirRows'
    BY <1>1, ReadFacts DEF RejectionsNameTheirRows
  <1>4. EveryTaskRowIsAccounted'
    <2>1. {tasks'[i] : i \in Ids} \ {0} = ({tasks[i] : i \in Ids} \ {0}) \cup {RowNumber}
      BY <1>1, OwnRows DEF Tables
    <2>2. DOMAIN taskRejections = (1 .. Len(taskRead)) \ {tasks[i] : i \in Ids}
      BY <1>1 DEF TaskInv, EveryTaskRowIsAccounted
    <2>3. /\ Len(taskRead) \in Nat /\ Len(taskRead)' = Len(taskRead) + 1
          /\ RowNumber = Len(taskRead) + 1
      BY <1>1, RowsAfterReading
    <2> QED BY <1>1, <2>1, <2>2, <2>3 DEF EveryTaskRowIsAccounted
  <1>5. \A i \in Ids : i # row.id => SettledRightly(i)'
    BY <1>1, KeepsOthers DEF Tables
  <1>6. SettledRightly(row.id)'
    <2>1. RowsOf(row.id) = {}
      BY <1>1, RowsAreOfOneInstance
    <2>2. tasks'[row.id] = RowNumber
      BY <1>1 DEF Tables
    <2>3. AgreesWithRows(row.id)'
      <3>1. \A n \in RowsOf(row.id)' : n = RowNumber
        BY <2>1, OwnRows
      <3>2. taskRead'[RowNumber] = row /\ RowNumber \in Nat
        BY OwnRows
      <3> QED BY <1>1, <2>2, <3>1, <3>2 DEF AgreesWithRows, Valid, RowsOf
    <2> QED BY <1>1, <2>2, <2>3, OwnRows DEF SettledRightly
  <1> QED BY <1>2, <1>3, <1>4, <1>5, <1>6 DEF TaskInv

-----------------------------------------------------------------------------
LEMMA TaskInvNext == ASSUME TaskInv, [ProjectionNext]_taskVars PROVE TaskInv'
  <1>1. CASE UNCHANGED taskVars
    BY <1>1 DEF taskVars, TaskInv, Tables, RejectionsNameTheirRows, Names, EveryTaskRowIsAccounted,
                SettledRightly, AgreesWithRows, Disagree, NoneValid, RowsOf, Valid
  <1>2. ASSUME NEW row \in TaskRows, ReadTaskRow(row) PROVE TaskInv'
    <2>1. ReadsIn(row)
      BY <1>2 DEF ReadsIn, ReadTaskRow
    <2> QED BY <1>2, <2>1, UnidentifiedKeeps, InConflictKeeps, InvalidKeeps, AdmitFirstKeeps,
               DuplicateKeeps, ContradictionKeeps DEF ReadTaskRow
  <1> QED BY <1>1, <1>2 DEF ProjectionNext

\* An instance is admitted exactly when all of its rows are valid and agree.
LEMMA TaskInvIsUnanimous == ASSUME TaskInv PROVE AdmittedExactlyWhenUnanimous
  <1>1. ASSUME NEW i \in Ids, tasks[i] # 0
        PROVE  /\ RowsOf(i) # {} /\ tasks[i] \in RowsOf(i)
               /\ \A n, m \in RowsOf(i) : /\ Valid(taskRead[n])
                                           /\ taskRead[n].payload = taskRead[m].payload
               /\ \A n \in RowsOf(i) : tasks[i] <= n
    BY <1>1 DEF TaskInv, SettledRightly, AgreesWithRows
  <1>2. ASSUME NEW i \in Ids, tasks[i] = 0
        PROVE  ~ /\ RowsOf(i) # {}
                 /\ \A n, m \in RowsOf(i) : /\ Valid(taskRead[n])
                                             /\ taskRead[n].payload = taskRead[m].payload
    BY <1>2 DEF TaskInv, SettledRightly, Disagree, NoneValid
  <1> QED BY <1>1, <1>2 DEF AdmittedExactlyWhenUnanimous

LEMMA TaskInvariant == ProjectionSpec => []TaskInv
  BY TaskInvInit, TaskInvNext, PTL DEF ProjectionSpec

\* The tables only hold rows that were read.
THEOREM TypeCorrectness == ProjectionSpec => []ProjectionTypeOK
  <1>1. TaskInv => ProjectionTypeOK
    BY DEF TaskInv, Tables, ProjectionTypeOK
  <1> QED BY <1>1, TaskInvariant, PTL

\* No row of task_provenance_projection is lost or counted twice, for every snapshot.
THEOREM RowsAreAccounted == ProjectionSpec => []EveryTaskRowIsAccounted
  <1>1. TaskInv => EveryTaskRowIsAccounted
    BY DEF TaskInv
  <1> QED BY <1>1, TaskInvariant, PTL

\* What is admitted does not depend on the order of the rows: an instance is, from its first
\* row, exactly when all of its rows are valid and agree.
THEOREM AdmissionIsUnanimous == ProjectionSpec => []AdmittedExactlyWhenUnanimous
  <1>1. TaskInv => AdmittedExactlyWhenUnanimous
    BY TaskInvIsUnanimous
  <1> QED BY <1>1, TaskInvariant, PTL

-----------------------------------------------------------------------------
\* The resolution recovery

Labelled(row) == Eligible(row) /\ row.label # "unknown"
Open(row) == Eligible(row) /\ row.label = "unknown"

ObservationOf(read) ==
    [key |-> Key(read[2]), label |-> read[2].label, ref |-> Reference(read[1], read[2]),
     language |-> read[2].language]
TargetOf(read) ==
    [key |-> Key(read[2]), ref |-> Reference(read[1], read[2]), language |-> read[2].language]

\* The places of the target rows that are open, of a language nobody asked for, or labelled
OpenPlaces == {n \in DOMAIN targetRead : Open(targetRead[n][2])}
IneligiblePlaces == {n \in DOMAIN targetRead : ~Eligible(targetRead[n][2])}
KnownPlaces == {n \in DOMAIN targetRead : Labelled(targetRead[n][2])}
LabelledPlaces == {n \in DOMAIN labeledRead : Labelled(labeledRead[n][2])}

RowsAreRead ==
    /\ labeledRead \in Seq(LabeledPartitions \X LabeledRows)
    /\ targetRead \in Seq(TargetPartitions \X TargetRows)

\* Unless the index met a row it could not read, its tables are those of the rows read.
IndexIsOfRows ==
    /\ observations = {ObservationOf(labeledRead[n]) : n \in LabelledPlaces}
    /\ targets = {TargetOf(targetRead[n]) : n \in OpenPlaces}

RowsAreCounted ==
    /\ accounting.total = Len(targetRead)
    /\ accounting.ineligible = Cardinality(IneligiblePlaces)
    /\ accounting.known = Cardinality(KnownPlaces)

OutputsAreOfIndex ==
    /\ ~GroupsClash
    /\ conflicts = {k \in TargetKeys : Cardinality(LabelsOf(k)) > 1}
    /\ candidates = UNION {CandidatesFor(k) : k \in TransferredKeys}
    /\ requests = {RequestFor(k) : k \in TargetKeys \ TransferredKeys}

ChecksHold == conflicts = {} /\ Accounted(RecoveryCounts) /\ OutcomesAddUp(RecoveryCounts)

RecoveryInv ==
    /\ recPhase \in {"labeled", "targets", "built", "checked", "published", "refused", "failed"}
    /\ RowsAreRead
    /\ recPhase # "failed" => IndexIsOfRows /\ RowsAreCounted
    /\ IF Built THEN OutputsAreOfIndex ELSE candidates = {} /\ requests = {}
    /\ recPhase \in {"checked", "published"} => ChecksHold
    /\ recPhase = "refused" => ~ChecksHold

-----------------------------------------------------------------------------
\* The image of a finite set is finite, no larger, and as large only when nothing coincides.
LEMMA ImageOfFinite ==
    ASSUME NEW S, IsFiniteSet(S), NEW f, DOMAIN f = S, f = [x \in S |-> f[x]], NEW T,
           T = {f[x] : x \in S}
    PROVE  /\ IsFiniteSet(T) /\ Cardinality(T) \in Nat /\ Cardinality(S) \in Nat
           /\ Cardinality(T) <= Cardinality(S)
           /\ Cardinality(T) = Cardinality(S) <=> \A x, y \in S : f[x] = f[y] => x = y
  <1>1. f \in Surjection(S, T)
    BY DEF Surjection
  <1>2. f \in Injection(S, T) <=> \A x, y \in S : f[x] = f[y] => x = y
    <2>1. f \in [S -> T]
      OBVIOUS
    <2> QED BY <2>1 DEF Injection, IsInjective
  <1> QED BY <1>1, <1>2, FS_Surjection, FS_CardinalityType

\* The places of a sequence are finitely many, and so are those of some of its members.
LEMMA PlacesAreFinite ==
    ASSUME NEW D, NEW s \in Seq(D), NEW P \in SUBSET DOMAIN s
    PROVE  /\ IsFiniteSet(DOMAIN s) /\ Cardinality(DOMAIN s) = Len(s)
           /\ IsFiniteSet(P) /\ Cardinality(P) \in Nat
  <1>1. DOMAIN s = 1 .. Len(s) /\ Len(s) \in Nat
    OBVIOUS
  <1>2. IsFiniteSet(1 .. Len(s)) /\ Cardinality(1 .. Len(s)) = Len(s)
    <2>1. \A n \in Nat : /\ IsFiniteSet(1 .. n)
                         /\ Cardinality(1 .. n) = IF 1 > n THEN 0 ELSE n - 1 + 1
      BY FS_Interval
    <2> QED BY <2>1, <1>1
  <1>3. IsFiniteSet(DOMAIN s) /\ Cardinality(DOMAIN s) = Len(s)
    BY <1>1, <1>2
  <1> QED BY <1>3, FS_Subset, FS_CardinalityType

LEMMA DisjointUnion ==
    ASSUME NEW S, NEW T, IsFiniteSet(S), IsFiniteSet(T), S \cap T = {}
    PROVE  /\ IsFiniteSet(S \cup T)
           /\ Cardinality(S \cup T) = Cardinality(S) + Cardinality(T)
           /\ Cardinality(S) \in Nat /\ Cardinality(T) \in Nat
  BY FS_Union, FS_EmptySet, FS_CardinalityType

-----------------------------------------------------------------------------
\* What the tables of the index say of the rows.

RefOf(n) == Reference(targetRead[n][1], targetRead[n][2])

LEMMA ReadsOfRows ==
    ASSUME RowsAreRead
    PROVE  /\ \A n \in DOMAIN labeledRead :
                 labeledRead[n] = <<labeledRead[n][1], labeledRead[n][2]>>
                    /\ labeledRead[n][2] \in LabeledRows
           /\ \A n \in DOMAIN targetRead :
                 /\ targetRead[n] = <<targetRead[n][1], targetRead[n][2]>>
                 /\ targetRead[n][2] \in TargetRows
  BY DEF RowsAreRead

\* A target is known by its reference, which holds the row.
LEMMA TargetsByReference ==
    ASSUME RowsAreRead, IndexIsOfRows
    PROVE  /\ \A t \in targets : t.key = Key(t.ref.row) /\ t.language = t.ref.row.language
           /\ \A t, u \in targets : t.ref = u.ref => t = u
           /\ {t.ref : t \in targets} = OpenTargets
           /\ \A n \in OpenPlaces : \E t \in targets : t.ref = RefOf(n)
           /\ \A n, m \in DOMAIN targetRead :
                 RefOf(n) = RefOf(m) <=> targetRead[n] = targetRead[m]
  <1>1. \A t \in targets : \E n \in OpenPlaces :
           /\ t = [key |-> Key(targetRead[n][2]), ref |-> RefOf(n),
                   language |-> targetRead[n][2].language]
           /\ RefOf(n).row = targetRead[n][2]
    BY DEF IndexIsOfRows, TargetOf, RefOf, Reference
  <1>2. \A t \in targets : t.key = Key(t.ref.row) /\ t.language = t.ref.row.language
    BY <1>1
  <1>3. \A t, u \in targets : t.ref = u.ref => t = u
    BY <1>1
  <1>4. OpenTargets = {RefOf(n) : n \in OpenPlaces}
    BY DEF OpenTargets, OpenPlaces, Open, RefOf
  <1>5. \A n \in OpenPlaces : \E t \in targets : t.ref = RefOf(n)
    <2>1. \A n \in OpenPlaces : TargetOf(targetRead[n]).ref = RefOf(n)
      BY DEF TargetOf, RefOf
    <2>2. \A n \in OpenPlaces : TargetOf(targetRead[n]) \in targets
      BY DEF IndexIsOfRows
    <2> QED BY <2>1, <2>2
  <1>6. \A n, m \in DOMAIN targetRead : RefOf(n) = RefOf(m) <=> targetRead[n] = targetRead[m]
    <2>1. \A n \in DOMAIN targetRead :
             RefOf(n).partition = targetRead[n][1] /\ RefOf(n).row = targetRead[n][2]
      BY DEF RefOf, Reference
    <2>2. \A n \in DOMAIN targetRead : targetRead[n] = <<targetRead[n][1], targetRead[n][2]>>
      BY ReadsOfRows
    <2> QED BY <2>1, <2>2 DEF RefOf
  <1>7. {t.ref : t \in targets} = OpenTargets
    <2>1. \A t \in targets : t.ref \in OpenTargets
      BY <1>1, <1>4
    <2> QED BY <2>1, <1>4, <1>5
  <1> QED BY <1>2, <1>3, <1>5, <1>6, <1>7

LEMMA TablesAreFinite ==
    ASSUME RowsAreRead, IndexIsOfRows
    PROVE  /\ IsFiniteSet(targets) /\ IsFiniteSet(observations)
           /\ \A k : /\ IsFiniteSet(LabelsOf(k)) /\ IsFiniteSet(LanguagesOf(k))
                     /\ IsFiniteSet(TargetsOf(k))
  <1>1. IsFiniteSet(targets)
    <2> DEFINE f == [n \in OpenPlaces |-> TargetOf(targetRead[n])]
    <2>1. IsFiniteSet(OpenPlaces)
      BY PlacesAreFinite DEF RowsAreRead, OpenPlaces
    <2>2. targets = {f[n] : n \in OpenPlaces}
      BY DEF IndexIsOfRows
    <2>3. DOMAIN f = OpenPlaces /\ f = [n \in OpenPlaces |-> f[n]]
      OBVIOUS
    <2> HIDE DEF f
    <2> QED BY <2>1, <2>2, <2>3, ImageOfFinite
  <1>2. IsFiniteSet(observations)
    <2> DEFINE f == [n \in LabelledPlaces |-> ObservationOf(labeledRead[n])]
    <2>1. IsFiniteSet(LabelledPlaces)
      BY PlacesAreFinite DEF RowsAreRead, LabelledPlaces
    <2>2. observations = {f[n] : n \in LabelledPlaces}
      BY DEF IndexIsOfRows
    <2>3. DOMAIN f = LabelledPlaces /\ f = [n \in LabelledPlaces |-> f[n]]
      OBVIOUS
    <2> HIDE DEF f
    <2> QED BY <2>1, <2>2, <2>3, ImageOfFinite
  <1>3. ASSUME NEW k PROVE IsFiniteSet(LabelsOf(k))
    <2> DEFINE f == [o \in ObservationsOf(k) |-> o.label]
    <2>1. IsFiniteSet(ObservationsOf(k))
      BY <1>2, FS_Subset DEF ObservationsOf
    <2>2. LabelsOf(k) = {f[o] : o \in ObservationsOf(k)}
      BY DEF LabelsOf
    <2>3. DOMAIN f = ObservationsOf(k) /\ f = [o \in ObservationsOf(k) |-> f[o]]
      OBVIOUS
    <2> HIDE DEF f
    <2> QED BY <2>1, <2>2, <2>3, ImageOfFinite
  <1>4. ASSUME NEW k PROVE IsFiniteSet(TargetsOf(k)) /\ IsFiniteSet(LanguagesOf(k))
    <2> DEFINE f == [t \in TargetsOf(k) |-> t.language]
    <2>1. IsFiniteSet(TargetsOf(k))
      BY <1>1, FS_Subset DEF TargetsOf
    <2>2. LanguagesOf(k) = {f[t] : t \in TargetsOf(k)}
      BY DEF LanguagesOf
    <2>3. DOMAIN f = TargetsOf(k) /\ f = [t \in TargetsOf(k) |-> f[t]]
      OBVIOUS
    <2> HIDE DEF f
    <2> QED BY <2>1, <2>2, <2>3, ImageOfFinite
  <1> QED BY <1>1, <1>2, <1>3, <1>4

-----------------------------------------------------------------------------
\* What is built of the index

EvidenceOf(t) == {o.ref : o \in {x \in ObservationsOf(t.key) : x.language = t.language}}
LabelOf(k) == CHOOSE l \in LabelsOf(k) : TRUE
CandidateOf(t) ==
    [key |-> t.key, label |-> LabelOf(t.key), language |-> t.language, ref |-> t.ref,
     evidence |-> EvidenceOf(t)]

Transferred == {t \in targets : t.key \in TransferredKeys}
Queued == targets \ Transferred

LEMMA LabelsAreLabels ==
    ASSUME RowsAreRead, IndexIsOfRows
    PROVE  \A k : LabelsOf(k) \subseteq Labels
  <1>1. \A n \in LabelledPlaces : labeledRead[n][2].label \in Labels
    BY RecoveryAssumption, ReadsOfRows DEF LabelledPlaces, Labelled
  <1>2. \A o \in observations : \E n \in LabelledPlaces : o.label = labeledRead[n][2].label
    BY DEF IndexIsOfRows, ObservationOf
  <1> QED BY <1>1, <1>2 DEF LabelsOf, ObservationsOf

\* The targets of a key are in one language, since the groups do not clash.
LEMMA OneLanguage ==
    ASSUME RowsAreRead, IndexIsOfRows, ~GroupsClash
    PROVE  \A t \in targets : /\ LanguagesOf(t.key) = {t.language}
                              /\ LanguageOf(t.key) = t.language
  <1> SUFFICES ASSUME NEW t \in targets
               PROVE  LanguagesOf(t.key) = {t.language} /\ LanguageOf(t.key) = t.language
    OBVIOUS
  <1>1. t.key \in TargetKeys /\ t.language \in LanguagesOf(t.key)
    BY DEF TargetKeys, LanguagesOf, TargetsOf
  <1>2. IsFiniteSet(LanguagesOf(t.key))
    BY TablesAreFinite
  <1>3. Cardinality(LanguagesOf(t.key)) \in Nat /\ ~(Cardinality(LanguagesOf(t.key)) > 1)
    BY <1>1, <1>2, FS_CardinalityType DEF GroupsClash
  <1>4. Cardinality(LanguagesOf(t.key)) # 0
    BY <1>1, <1>2, FS_EmptySet
  <1>5. Cardinality(LanguagesOf(t.key)) = 1
    BY <1>3, <1>4
  <1>6. \E x : LanguagesOf(t.key) = {x}
    BY <1>2, <1>5, FS_Singleton
  <1>7. LanguagesOf(t.key) = {t.language}
    BY <1>1, <1>6
  <1> QED BY <1>7 DEF LanguageOf

LEMMA OutputsOfTargets ==
    ASSUME RowsAreRead, IndexIsOfRows, OutputsAreOfIndex
    PROVE  /\ candidates = {CandidateOf(t) : t \in Transferred}
           /\ requests = {RequestFor(t.key) : t \in Queued}
           /\ \A t \in Queued : {u \in targets : u.key = t.key} \subseteq Queued
  <1>1. \A k : CandidatesFor(k) = {CandidateOf(t) : t \in TargetsOf(k)}
    BY DEF CandidatesFor, CandidateOf, LabelOf, EvidenceOf, TargetsOf
  <1>2. TransferredKeys \subseteq TargetKeys
    BY DEF TransferredKeys
  <1>3. Transferred = UNION {TargetsOf(k) : k \in TransferredKeys}
    BY DEF Transferred, TargetsOf
  <1>4. candidates = {CandidateOf(t) : t \in Transferred}
    <2>1. candidates = UNION {{CandidateOf(t) : t \in TargetsOf(k)} : k \in TransferredKeys}
      BY <1>1 DEF OutputsAreOfIndex
    <2> HIDE DEF CandidateOf
    <2> QED BY <2>1, <1>3
  <1>5. TargetKeys \ TransferredKeys = {t.key : t \in Queued}
    BY <1>2 DEF TargetKeys, Queued, Transferred
  <1>6. requests = {RequestFor(t.key) : t \in Queued}
    BY <1>5 DEF OutputsAreOfIndex
  <1> QED BY <1>4, <1>6 DEF Queued, Transferred

LEMMA TransfersAreUnanimous ==
    ASSUME RowsAreRead, IndexIsOfRows, OutputsAreOfIndex
    PROVE  \A t \in Transferred :
              /\ LabelsOf(t.key) = {LabelOf(t.key)} /\ LabelOf(t.key) \in Labels
              /\ \E o \in ObservationsOf(t.key) : o.language = t.language
  <1> SUFFICES ASSUME NEW t \in Transferred
               PROVE  /\ LabelsOf(t.key) = {LabelOf(t.key)} /\ LabelOf(t.key) \in Labels
                      /\ \E o \in ObservationsOf(t.key) : o.language = t.language
    OBVIOUS
  <1>1. LanguageOf(t.key) = t.language
    BY OneLanguage DEF Transferred, OutputsAreOfIndex
  <1>2. /\ Cardinality(LabelsOf(t.key)) = 1
        /\ \E o \in ObservationsOf(t.key) : o.language = t.language
    BY <1>1 DEF Transferred, TransferredKeys, HasUnanimousLabel
  <1>3. \E x : LabelsOf(t.key) = {x}
    BY <1>2, TablesAreFinite, FS_Singleton
  <1>4. LabelsOf(t.key) = {LabelOf(t.key)}
    BY <1>3 DEF LabelOf
  <1> QED BY <1>2, <1>4, LabelsAreLabels

\* No labelled row contradicts a transfer.
WitnessesOf(k) ==
    {n \in DOMAIN labeledRead : /\ Key(labeledRead[n][2]) = k
                                /\ Eligible(labeledRead[n][2])
                                /\ labeledRead[n][2].label \in Labels}

LEMMA TransferredRightly ==
    ASSUME RowsAreRead, IndexIsOfRows, OutputsAreOfIndex
    PROVE  TransferIsUnanimous
  <1> DEFINE Unanimous(k, label, language) ==
        /\ \A n \in WitnessesOf(k) : labeledRead[n][2].label = label
        /\ \E n \in WitnessesOf(k) : labeledRead[n][2].language = language
  <1>a. SUFFICES \A t \in Transferred : Unanimous(t.key, LabelOf(t.key), t.language)
    <2>1. \A c \in candidates : \E t \in Transferred :
             c.key = t.key /\ c.label = LabelOf(t.key) /\ c.ref = t.ref
      BY OutputsOfTargets DEF CandidateOf
    <2>2. \A t \in Transferred : t.ref.row.language = t.language
      BY TargetsByReference DEF Transferred
    <2>3. TransferIsUnanimous <=> \A c \in candidates : Unanimous(c.key, c.label, c.ref.row.language)
      BY DEF TransferIsUnanimous, WitnessesOf
    <2> HIDE DEF Unanimous
    <2> QED BY <2>1, <2>2, <2>3
  <1> TAKE t \in Transferred
  <1> DEFINE W == WitnessesOf(t.key)
  <1>1. W = {n \in LabelledPlaces : Key(labeledRead[n][2]) = t.key}
    <2>1. \A n \in DOMAIN labeledRead : labeledRead[n][2].label \in Labels \cup {"unknown"}
      BY RecoveryAssumption, ReadsOfRows
    <2> QED BY <2>1 DEF LabelledPlaces, Labelled, Labels, WitnessesOf
  <1> HIDE DEF W
  <1>2. \A n \in LabelledPlaces : /\ ObservationOf(labeledRead[n]).key = Key(labeledRead[n][2])
                                  /\ ObservationOf(labeledRead[n]).label = labeledRead[n][2].label
                                  /\ ObservationOf(labeledRead[n]).language = labeledRead[n][2].language
    BY DEF ObservationOf
  <1>3. ObservationsOf(t.key) = {ObservationOf(labeledRead[n]) : n \in W}
    BY <1>1, <1>2 DEF ObservationsOf, IndexIsOfRows
  <1>4. \A n \in W : labeledRead[n][2].label \in LabelsOf(t.key)
    BY <1>1, <1>2, <1>3 DEF LabelsOf
  <1>5. \E n \in W : labeledRead[n][2].language = t.language
    BY <1>1, <1>2, <1>3, TransfersAreUnanimous
  <1> QED BY <1>4, <1>5, TransfersAreUnanimous DEF W

-----------------------------------------------------------------------------
\* Every open target is settled once.

LEMMA SettledOnce ==
    ASSUME RowsAreRead, IndexIsOfRows, OutputsAreOfIndex
    PROVE  /\ {c.ref : c \in candidates} \cup UNION {r.refs : r \in requests} = OpenTargets
           /\ \A ref \in OpenTargets :
                 Cardinality({c \in candidates : c.ref = ref})
                     + Cardinality({r \in requests : ref \in r.refs}) = 1
  <1>1. \A c \in candidates : \E t \in Transferred : c = CandidateOf(t)
    BY OutputsOfTargets
  <1>2. \A t \in Transferred : CandidateOf(t) \in candidates
    BY OutputsOfTargets
  <1>3. \A t : CandidateOf(t).ref = t.ref
    BY DEF CandidateOf
  <1>4. \A r \in requests : \E t \in Queued : r = RequestFor(t.key)
    BY OutputsOfTargets
  <1>5. \A t \in Queued : RequestFor(t.key) \in requests
    BY OutputsOfTargets
  <1>6. \A k : RequestFor(k).refs = {t.ref : t \in TargetsOf(k)} /\ RequestFor(k).key = k
    BY DEF RequestFor
  <1>7. \A t, u \in targets : u.ref \in RequestFor(t.key).refs <=> u.key = t.key
    BY <1>6, TargetsByReference DEF TargetsOf
  <1>8. \A t \in Queued : \A ref \in RequestFor(t.key).refs :
           \E u \in Queued : u.ref = ref /\ u.key = t.key
    BY <1>6, OutputsOfTargets DEF TargetsOf
  <1>9. targets = Transferred \cup Queued /\ Transferred \cap Queued = {}
    BY DEF Queued, Transferred
  <1>a. {c.ref : c \in candidates} = {t.ref : t \in Transferred}
    BY <1>1, <1>2, <1>3
  <1>b. UNION {r.refs : r \in requests} = {t.ref : t \in Queued}
    <2>1. ASSUME NEW r \in requests, NEW ref \in r.refs PROVE ref \in {t.ref : t \in Queued}
      BY <1>4, <1>8
    <2>2. ASSUME NEW t \in Queued
          PROVE  t.ref \in RequestFor(t.key).refs /\ RequestFor(t.key) \in requests
      BY <1>5, <1>7, <1>9
    <2> QED BY <2>1, <2>2
  <1>c. {c.ref : c \in candidates} \cup UNION {r.refs : r \in requests} = OpenTargets
    BY <1>a, <1>b, <1>9, TargetsByReference
  <1>e. Cardinality({}) = 0 /\ \A x : Cardinality({x}) = 1
    BY FS_EmptySet, FS_Singleton
  <1>d. ASSUME NEW t \in targets
        PROVE  Cardinality({c \in candidates : c.ref = t.ref})
                  + Cardinality({r \in requests : t.ref \in r.refs}) = 1
    <2>1. CASE t \in Transferred
      <3>1. {c \in candidates : c.ref = t.ref} = {CandidateOf(t)}
        BY <2>1, <1>1, <1>2, <1>3, <1>9, TargetsByReference
      <3>2. {r \in requests : t.ref \in r.refs} = {}
        BY <2>1, <1>4, <1>8, <1>9, TargetsByReference
      <3>3. /\ Cardinality({c \in candidates : c.ref = t.ref}) = 1
            /\ Cardinality({r \in requests : t.ref \in r.refs}) = 0
        BY <3>1, <3>2, <1>e
      <3> QED BY <3>3
    <2>2. CASE t \in Queued
      <3>1. {c \in candidates : c.ref = t.ref} = {}
        BY <2>2, <1>1, <1>3, <1>9, TargetsByReference
      <3>2. {r \in requests : t.ref \in r.refs} = {RequestFor(t.key)}
        BY <2>2, <1>4, <1>5, <1>7, <1>9
      <3>3. /\ Cardinality({c \in candidates : c.ref = t.ref}) = 0
            /\ Cardinality({r \in requests : t.ref \in r.refs}) = 1
        BY <3>1, <3>2, <1>e
      <3> QED BY <3>3
    <2> QED BY <2>1, <2>2, <1>9
  <1> QED BY <1>c, <1>d, TargetsByReference

-----------------------------------------------------------------------------
\* The counts: of the targets, those given a label and those queued; they are as many as the
\* open places unless a row is repeated.

Repeated ==
    \E n, m \in DOMAIN targetRead : n # m /\ targetRead[n] = targetRead[m] /\ RefOf(n) \in OpenTargets

LEMMA CandidatesAreCounted ==
    ASSUME RowsAreRead, IndexIsOfRows, OutputsAreOfIndex
    PROVE  /\ Cardinality(candidates) = Cardinality(Transferred)
           /\ IsFiniteSet(candidates) /\ IsFiniteSet(Transferred)
  <1>1. IsFiniteSet(Transferred)
    BY TablesAreFinite, FS_Subset DEF Transferred
  <1> DEFINE f == [t \in Transferred |-> CandidateOf(t)]
  <1>2. candidates = {f[t] : t \in Transferred}
    BY OutputsOfTargets
  <1>3. \A t, u \in Transferred : f[t] = f[u] => t = u
    <2>1. \A t \in Transferred : f[t].ref = t.ref
      BY DEF CandidateOf
    <2> HIDE DEF f
    <2> QED BY <2>1, TargetsByReference DEF Transferred
  <1>4. DOMAIN f = Transferred /\ f = [t \in Transferred |-> f[t]]
    OBVIOUS
  <1> HIDE DEF f
  <1> QED BY <1>1, <1>2, <1>3, <1>4, ImageOfFinite

\* A pair of a request and one of its targets is known by the target.
LEMMA QueueIsCounted ==
    ASSUME RowsAreRead, IndexIsOfRows, OutputsAreOfIndex
    PROVE  /\ QueuedTargets = Cardinality(Queued) /\ IsFiniteSet(Queued)
           /\ Cardinality(requests) \in Nat /\ Cardinality(requests) <= QueuedTargets
           /\ Cardinality(requests) = 0 <=> QueuedTargets = 0
  <1>1. IsFiniteSet(Queued)
    BY TablesAreFinite, FS_Subset DEF Queued
  <1> DEFINE f == [t \in Queued |-> <<RequestFor(t.key), t.ref>>]
             g == [t \in Queued |-> RequestFor(t.key)]
             pairs == UNION {{r} \X r.refs : r \in requests}
  <1>2. requests = {g[t] : t \in Queued}
    BY OutputsOfTargets
  <1>3. \A t \in Queued : \A ref :
           ref \in RequestFor(t.key).refs <=> \E u \in Queued : u.ref = ref /\ u.key = t.key
    <2>1. \A k : RequestFor(k).refs = {t.ref : t \in TargetsOf(k)}
      BY DEF RequestFor
    <2>2. \A t \in Queued : \A u \in targets : u.key = t.key => u \in Queued
      BY OutputsOfTargets
    <2> QED BY <2>1, <2>2 DEF TargetsOf, Queued
  <1>4. pairs = {f[t] : t \in Queued}
    <2>1. ASSUME NEW r \in requests, NEW ref \in r.refs PROVE <<r, ref>> \in {f[t] : t \in Queued}
      <3>1. PICK t \in Queued : r = RequestFor(t.key)
        BY <1>2
      <3>2. PICK u \in Queued : u.ref = ref /\ u.key = t.key
        BY <2>1, <3>1, <1>3
      <3>3. f[u] = <<r, ref>>
        BY <3>1, <3>2
      <3> QED BY <3>3
    <2>2. ASSUME NEW t \in Queued PROVE f[t] \in {RequestFor(t.key)} \X RequestFor(t.key).refs
      BY <1>3
    <2>3. \A t \in Queued : RequestFor(t.key) \in requests
      BY <1>2
    <2>4. ASSUME NEW p \in pairs PROVE p \in {f[t] : t \in Queued}
      <3>1. PICK r \in requests : p \in {r} \X r.refs
        OBVIOUS
      <3>2. p = <<r, p[2]>> /\ p[2] \in r.refs
        BY <3>1
      <3> HIDE DEF f, pairs
      <3> QED BY <2>1, <3>2
    <2> QED BY <2>2, <2>3, <2>4
  <1>5. \A t, u \in Queued : f[t] = f[u] => t = u
    <2>1. \A t, u \in Queued : f[t] = f[u] => t.ref = u.ref
      OBVIOUS
    <2> QED BY <2>1, TargetsByReference DEF Queued
  <1>6. /\ DOMAIN f = Queued /\ f = [t \in Queued |-> f[t]]
        /\ DOMAIN g = Queued /\ g = [t \in Queued |-> g[t]]
    OBVIOUS
  <1>7. QueuedTargets = Cardinality(pairs)
    BY DEF QueuedTargets
  <1>8. requests = {} <=> Queued = {}
    BY <1>2
  <1> HIDE DEF f, g, pairs
  <1>9. Cardinality(pairs) = Cardinality(Queued)
    BY <1>1, <1>4, <1>5, <1>6, ImageOfFinite
  <1>a. /\ IsFiniteSet(requests) /\ Cardinality(requests) \in Nat
        /\ Cardinality(requests) <= Cardinality(Queued)
    BY <1>1, <1>2, <1>6, ImageOfFinite
  <1>b. Cardinality(requests) = 0 <=> Cardinality(Queued) = 0
    BY <1>1, <1>8, <1>a, FS_EmptySet
  <1> QED BY <1>1, <1>7, <1>9, <1>a, <1>b

\* The places of the target rows are of one of the three kinds.
LEMMA PlacesAreCounted ==
    ASSUME RowsAreRead, RowsAreCounted
    PROVE  /\ accounting.ineligible \in Nat /\ accounting.known \in Nat /\ accounting.total \in Nat
           /\ Cardinality(OpenPlaces) \in Nat
           /\ accounting.total = accounting.ineligible + accounting.known + Cardinality(OpenPlaces)
  <1>1. /\ IsFiniteSet(OpenPlaces) /\ Cardinality(OpenPlaces) \in Nat
        /\ IsFiniteSet(IneligiblePlaces) /\ IsFiniteSet(KnownPlaces)
        /\ Cardinality(DOMAIN targetRead) = Len(targetRead)
    BY PlacesAreFinite DEF RowsAreRead, OpenPlaces, IneligiblePlaces, KnownPlaces
  <1>2. /\ DOMAIN targetRead = (IneligiblePlaces \cup KnownPlaces) \cup OpenPlaces
        /\ IneligiblePlaces \cap KnownPlaces = {}
        /\ (IneligiblePlaces \cup KnownPlaces) \cap OpenPlaces = {}
    BY DEF OpenPlaces, IneligiblePlaces, KnownPlaces, Open, Labelled
  <1>3. /\ IsFiniteSet(IneligiblePlaces \cup KnownPlaces)
        /\ Cardinality(IneligiblePlaces \cup KnownPlaces)
             = Cardinality(IneligiblePlaces) + Cardinality(KnownPlaces)
        /\ Cardinality(IneligiblePlaces) \in Nat /\ Cardinality(KnownPlaces) \in Nat
    BY <1>1, <1>2, DisjointUnion
  <1>4. Cardinality((IneligiblePlaces \cup KnownPlaces) \cup OpenPlaces)
           = Cardinality(IneligiblePlaces \cup KnownPlaces) + Cardinality(OpenPlaces)
    BY <1>1, <1>2, <1>3, DisjointUnion
  <1>5. accounting.total = Cardinality((IneligiblePlaces \cup KnownPlaces) \cup OpenPlaces)
    BY <1>1, <1>2 DEF RowsAreCounted
  <1> QED BY <1>1, <1>3, <1>4, <1>5 DEF RowsAreCounted

LEMMA TargetsAreCounted ==
    ASSUME RowsAreRead, IndexIsOfRows
    PROVE  /\ Cardinality(targets) \in Nat /\ Cardinality(OpenPlaces) \in Nat
           /\ Cardinality(targets) = Cardinality(OpenPlaces) <=> ~Repeated
  <1> DEFINE f == [n \in OpenPlaces |-> TargetOf(targetRead[n])]
  <1>1. IsFiniteSet(OpenPlaces)
    BY PlacesAreFinite DEF RowsAreRead, OpenPlaces
  <1>2. targets = {f[n] : n \in OpenPlaces}
    BY DEF IndexIsOfRows
  <1>3. DOMAIN f = OpenPlaces /\ f = [n \in OpenPlaces |-> f[n]]
    OBVIOUS
  <1>4. \A n, m \in OpenPlaces : f[n] = f[m] <=> targetRead[n] = targetRead[m]
    <2>1. \A n \in OpenPlaces : f[n].ref = RefOf(n)
      BY DEF TargetOf, RefOf
    <2>2. \A n, m \in OpenPlaces : targetRead[n] = targetRead[m] => f[n] = f[m]
      OBVIOUS
    <2> QED BY <2>1, <2>2, TargetsByReference DEF OpenPlaces
  <1>5. \A n \in DOMAIN targetRead : RefOf(n) \in OpenTargets <=> n \in OpenPlaces
    <2>1. OpenTargets = {RefOf(n) : n \in OpenPlaces}
      BY DEF OpenTargets, OpenPlaces, Open, RefOf
    <2>2. \A n, m \in DOMAIN targetRead : RefOf(n) = RefOf(m) => targetRead[n] = targetRead[m]
      BY TargetsByReference
    <2>3. \A n, m \in DOMAIN targetRead :
             targetRead[n] = targetRead[m] /\ m \in OpenPlaces => n \in OpenPlaces
      BY DEF OpenPlaces
    <2>4. OpenPlaces \subseteq DOMAIN targetRead
      BY DEF OpenPlaces
    <2> QED BY <2>1, <2>2, <2>3, <2>4
  <1>6. ~Repeated <=> \A n, m \in OpenPlaces : f[n] = f[m] => n = m
    <2>1. OpenPlaces \subseteq DOMAIN targetRead
      BY DEF OpenPlaces
    <2>2. \A n, m \in DOMAIN targetRead : targetRead[n] = targetRead[m] => RefOf(n) = RefOf(m)
      BY TargetsByReference
    <2> HIDE DEF f
    <2> QED BY <2>1, <2>2, <1>4, <1>5 DEF Repeated
  <1> HIDE DEF f
  <1> QED BY <1>1, <1>2, <1>3, <1>6, ImageOfFinite

\* What the counts add up to never fails; that all rows are accounted for tells a repeated row.
LEMMA CountsAreRight ==
    ASSUME RowsAreRead, IndexIsOfRows, RowsAreCounted, OutputsAreOfIndex
    PROVE  /\ OutcomesAddUp(RecoveryCounts)
           /\ Accounted(RecoveryCounts) <=> ~Repeated
  <1> DEFINE n == RecoveryCounts
  <1>1. /\ n.target_row_count = accounting.total /\ n.ineligible = accounting.ineligible
        /\ n.already_known = accounting.known /\ n.candidate_rows = Cardinality(candidates)
        /\ n.candidate_unique = Cardinality({c.key : c \in candidates})
        /\ n.resolved = CandidatesWith("resolved") /\ n.unresolved = CandidatesWith("unresolved")
        /\ n.queued = QueuedTargets /\ n.queue_unique = Cardinality(requests)
    BY DEF RecoveryCounts
  <1> HIDE DEF n
  <1>2. Cardinality(candidates) \in Nat /\ IsFiniteSet(candidates)
    BY CandidatesAreCounted, FS_CardinalityType
  <1>3. n.resolved + n.unresolved = n.candidate_rows
    <2> DEFINE S == {c \in candidates : c.label = "resolved"}
               T == {c \in candidates : c.label = "unresolved"}
    <2>1. IsFiniteSet(S) /\ IsFiniteSet(T)
      BY <1>2, FS_Subset
    <2>2. \A c \in candidates : c.label \in Labels
      <3>1. \A c \in candidates : \E t \in Transferred : c.label = LabelOf(t.key)
        BY OutputsOfTargets DEF CandidateOf
      <3> QED BY <3>1, TransfersAreUnanimous
    <2>3. S \cup T = candidates /\ S \cap T = {}
      BY <2>2 DEF Labels
    <2>4. n.resolved = Cardinality(S) /\ n.unresolved = Cardinality(T)
      BY <1>1 DEF CandidatesWith
    <2> HIDE DEF S, T
    <2>5. Cardinality(S \cup T) = Cardinality(S) + Cardinality(T)
      BY <2>1, <2>3, DisjointUnion
    <2> QED BY <1>1, <2>3, <2>4, <2>5
  <1>4. /\ n.candidate_unique <= n.candidate_rows
        /\ (n.candidate_unique = 0) <=> (n.candidate_rows = 0)
    <2> DEFINE f == [c \in candidates |-> c.key]
               keys == {c.key : c \in candidates}
    <2>1. keys = {f[c] : c \in candidates} /\ DOMAIN f = candidates /\ f = [c \in candidates |-> f[c]]
      OBVIOUS
    <2>2. keys = {} <=> candidates = {}
      OBVIOUS
    <2>3. n.candidate_unique = Cardinality(keys)
      BY <1>1
    <2> HIDE DEF f, keys
    <2>4. IsFiniteSet(keys) /\ Cardinality(keys) <= Cardinality(candidates)
      BY <1>2, <2>1, ImageOfFinite
    <2>5. Cardinality(keys) = 0 <=> Cardinality(candidates) = 0
      BY <1>2, <2>2, <2>4, FS_EmptySet
    <2> QED BY <1>1, <2>3, <2>4, <2>5
  <1>5. n.queue_unique <= n.queued /\ ((n.queue_unique = 0) <=> (n.queued = 0))
    BY <1>1, QueueIsCounted
  <1>6. Accounted(n) <=> ~Repeated
    <2>1. /\ Cardinality(Transferred) \in Nat /\ Cardinality(Queued) \in Nat
          /\ Cardinality(targets) = Cardinality(Transferred) + Cardinality(Queued)
      <3>1. targets = Transferred \cup Queued /\ Transferred \cap Queued = {}
        BY DEF Queued, Transferred
      <3> QED BY <3>1, CandidatesAreCounted, QueueIsCounted, DisjointUnion
    <2>2. Accounted(n) <=> accounting.ineligible + accounting.known + Cardinality(Transferred)
                              + Cardinality(Queued) = accounting.total
      BY <1>1, CandidatesAreCounted, QueueIsCounted DEF Accounted
    <2> QED BY <2>1, <2>2, PlacesAreCounted, TargetsAreCounted
  <1> QED BY <1>3, <1>4, <1>5, <1>6 DEF OutcomesAddUp, n

LEMMA InvIsSound ==
    ASSUME RecoveryInv
    PROVE  RecoveryIsSound
  <1>1. CASE Built
    <2>1. RowsAreRead /\ IndexIsOfRows /\ RowsAreCounted /\ OutputsAreOfIndex
      BY <1>1 DEF RecoveryInv, Built
    <2>2. ChecksHold <=> conflicts = {} /\ ~Repeated
      BY <2>1, CountsAreRight DEF ChecksHold
    <2>3. recPhase # "built" => (recPhase = "refused" <=> conflicts # {} \/ Repeated)
      BY <1>1, <2>2 DEF RecoveryInv, Built
    <2>4. Repeated <=> \E n, m \in DOMAIN targetRead :
                          /\ n # m /\ targetRead[n] = targetRead[m]
                          /\ Reference(targetRead[n][1], targetRead[n][2]) \in OpenTargets
      BY DEF Repeated, RefOf
    <2>5. TargetsAreSettledOnce
      BY <2>1, <2>3, <2>4, SettledOnce DEF TargetsAreSettledOnce
    <2> QED BY <2>1, <2>5, TransferredRightly DEF RecoveryIsSound
  <1>2. CASE ~Built
    BY <1>2 DEF RecoveryInv, RecoveryIsSound, TransferIsUnanimous, TargetsAreSettledOnce
  <1> QED BY <1>1, <1>2

-----------------------------------------------------------------------------
\* The steps

LEMMA LabelledStep ==
    ASSUME RecoveryInv, NEW p \in LabeledPartitions, NEW row \in LabeledRows, IndexLabeled(p, row)
    PROVE  RecoveryInv'
  <1>1. /\ labeledRead' = Append(labeledRead, <<p, row>>) /\ targetRead' = targetRead
        /\ targets' = targets /\ accounting' = accounting
        /\ candidates' = candidates /\ requests' = requests /\ conflicts' = conflicts
        /\ recPhase = "labeled" /\ recPhase' \in {"labeled", "failed"}
        /\ RowsAreRead /\ IndexIsOfRows /\ RowsAreCounted
        /\ candidates = {} /\ requests = {}
    BY DEF IndexLabeled, outputVars, RecoveryInv, Built
  <1>2. RowsAreRead'
    BY <1>1 DEF RowsAreRead
  <1>3. recPhase' # "failed" => RowsAreCounted'
    BY <1>1 DEF RowsAreCounted, IneligiblePlaces, KnownPlaces
  <1>4. recPhase' # "failed" => IndexIsOfRows'
    <2> SUFFICES ASSUME recPhase' # "failed" PROVE IndexIsOfRows'
      OBVIOUS
    <2> DEFINE L == Len(labeledRead)
    <2>1. /\ L \in Nat /\ DOMAIN labeledRead = 1 .. L /\ DOMAIN labeledRead' = 1 .. L + 1
          /\ labeledRead'[L + 1] = <<p, row>> /\ \A n \in 1 .. L : labeledRead'[n] = labeledRead[n]
      BY <1>1 DEF RowsAreRead
    <2> HIDE DEF L
    <2>2. LabelledPlaces' = LabelledPlaces \cup (IF Labelled(row) THEN {L + 1} ELSE {})
      BY <2>1 DEF LabelledPlaces
    <2>3. \A n \in LabelledPlaces : labeledRead'[n] = labeledRead[n]
      BY <2>1 DEF LabelledPlaces
    <2>4. observations' =
             observations \cup (IF Labelled(row) THEN {ObservationOf(<<p, row>>)} ELSE {})
      BY <1>1 DEF IndexLabeled, Labelled, ObservationOf
    <2>5. observations' = {ObservationOf(labeledRead'[n]) : n \in LabelledPlaces'}
      BY <1>1, <2>1, <2>2, <2>3, <2>4 DEF IndexIsOfRows
    <2>6. targets' = {TargetOf(targetRead'[n]) : n \in OpenPlaces'}
      BY <1>1 DEF IndexIsOfRows, OpenPlaces
    <2> QED BY <2>5, <2>6 DEF IndexIsOfRows
  <1> QED BY <1>1, <1>2, <1>3, <1>4 DEF RecoveryInv, Built

LEMMA TargetStep ==
    ASSUME RecoveryInv, NEW p \in TargetPartitions, NEW row \in TargetRows, IndexTarget(p, row)
    PROVE  RecoveryInv'
  <1>1. /\ targetRead' = Append(targetRead, <<p, row>>) /\ labeledRead' = labeledRead
        /\ observations' = observations
        /\ candidates' = candidates /\ requests' = requests /\ conflicts' = conflicts
        /\ recPhase = "targets" /\ recPhase' \in {"targets", "failed"}
        /\ RowsAreRead /\ IndexIsOfRows /\ RowsAreCounted
        /\ candidates = {} /\ requests = {}
    BY DEF IndexTarget, outputVars, RecoveryInv, Built
  <1>2. RowsAreRead'
    BY <1>1 DEF RowsAreRead
  <1> DEFINE L == Len(targetRead)
  <1>3. /\ L \in Nat /\ DOMAIN targetRead = 1 .. L /\ DOMAIN targetRead' = 1 .. L + 1
        /\ targetRead'[L + 1] = <<p, row>> /\ \A n \in 1 .. L : targetRead'[n] = targetRead[n]
        /\ Len(targetRead') = L + 1
    BY <1>1 DEF RowsAreRead
  <1> HIDE DEF L
  <1>4. /\ OpenPlaces' = OpenPlaces \cup (IF Open(row) THEN {L + 1} ELSE {})
        /\ KnownPlaces' = KnownPlaces \cup (IF Labelled(row) THEN {L + 1} ELSE {})
        /\ IneligiblePlaces' = IneligiblePlaces \cup (IF ~Eligible(row) THEN {L + 1} ELSE {})
    BY <1>3 DEF OpenPlaces, KnownPlaces, IneligiblePlaces
  <1>5. ASSUME recPhase' # "failed" PROVE IndexIsOfRows'
    <2>1. \A n \in OpenPlaces : targetRead'[n] = targetRead[n]
      BY <1>3 DEF OpenPlaces
    <2>2. targets' = targets \cup (IF Open(row) THEN {TargetOf(<<p, row>>)} ELSE {})
      BY <1>1, <1>5 DEF IndexTarget, Open, TargetOf
    <2>3. targets' = {TargetOf(targetRead'[n]) : n \in OpenPlaces'}
      BY <1>1, <1>3, <1>4, <2>1, <2>2 DEF IndexIsOfRows
    <2>4. observations' = {ObservationOf(labeledRead'[n]) : n \in LabelledPlaces'}
      BY <1>1 DEF IndexIsOfRows, LabelledPlaces
    <2> QED BY <2>3, <2>4 DEF IndexIsOfRows
  <1>6. ASSUME recPhase' # "failed" PROVE RowsAreCounted'
    <2>1. /\ accounting'.total = accounting.total + 1
          /\ accounting'.ineligible = accounting.ineligible + (IF ~Eligible(row) THEN 1 ELSE 0)
          /\ accounting'.known = accounting.known + (IF Labelled(row) THEN 1 ELSE 0)
      BY <1>1, <1>6 DEF IndexTarget, Labelled
    <2>2. /\ IsFiniteSet(IneligiblePlaces) /\ Cardinality(IneligiblePlaces) \in Nat
          /\ IsFiniteSet(KnownPlaces) /\ Cardinality(KnownPlaces) \in Nat
      BY <1>1, PlacesAreFinite DEF RowsAreRead, IneligiblePlaces, KnownPlaces
    <2>3. L + 1 \notin IneligiblePlaces /\ L + 1 \notin KnownPlaces
      BY <1>3 DEF IneligiblePlaces, KnownPlaces
    <2>4. /\ Cardinality(IneligiblePlaces \cup {L + 1}) = Cardinality(IneligiblePlaces) + 1
          /\ Cardinality(KnownPlaces \cup {L + 1}) = Cardinality(KnownPlaces) + 1
      BY <2>2, <2>3, FS_AddElement
    <2>5. Cardinality(IneligiblePlaces') = accounting'.ineligible
      <3>1. accounting.ineligible = Cardinality(IneligiblePlaces)
        BY <1>1 DEF RowsAreCounted
      <3>2. CASE ~Eligible(row)
        <4>1. IneligiblePlaces' = IneligiblePlaces \cup {L + 1}
          BY <1>4, <3>2
        <4> QED BY <4>1, <3>1, <3>2, <2>1, <2>4
      <3>3. CASE ~(~Eligible(row))
        <4>1. IneligiblePlaces' = IneligiblePlaces
          BY <1>4, <3>3
        <4> QED BY <4>1, <3>1, <3>3, <2>1, <2>2
      <3> QED BY <3>2, <3>3
    <2>6. Cardinality(KnownPlaces') = accounting'.known
      <3>1. accounting.known = Cardinality(KnownPlaces)
        BY <1>1 DEF RowsAreCounted
      <3>2. CASE Labelled(row)
        <4>1. KnownPlaces' = KnownPlaces \cup {L + 1}
          BY <1>4, <3>2
        <4> QED BY <4>1, <3>1, <3>2, <2>1, <2>4
      <3>3. CASE ~(Labelled(row))
        <4>1. KnownPlaces' = KnownPlaces
          BY <1>4, <3>3
        <4> QED BY <4>1, <3>1, <3>3, <2>1, <2>2
      <3> QED BY <3>2, <3>3
    <2> QED BY <1>1, <1>3, <2>1, <2>5, <2>6 DEF RowsAreCounted, L
  <1> QED BY <1>1, <1>2, <1>5, <1>6 DEF RecoveryInv, Built

\* What the outputs and the checks say is a matter of the tables alone.
LEMMA TablesStand ==
    ASSUME UNCHANGED <<inputVars, outputVars>>
    PROVE  /\ RowsAreRead' <=> RowsAreRead
           /\ IndexIsOfRows' <=> IndexIsOfRows
           /\ RowsAreCounted' <=> RowsAreCounted
           /\ OutputsAreOfIndex' <=> OutputsAreOfIndex
           /\ ChecksHold' <=> ChecksHold
           /\ candidates' = candidates /\ requests' = requests
  <1>1. /\ labeledRead' = labeledRead /\ targetRead' = targetRead /\ observations' = observations
        /\ targets' = targets /\ accounting' = accounting
        /\ candidates' = candidates /\ requests' = requests /\ conflicts' = conflicts
    BY DEF inputVars, outputVars
  <1>2. RowsAreRead' <=> RowsAreRead
    BY <1>1 DEF RowsAreRead
  <1>3. IndexIsOfRows' <=> IndexIsOfRows
    BY <1>1 DEF IndexIsOfRows, LabelledPlaces, OpenPlaces
  <1>4. RowsAreCounted' <=> RowsAreCounted
    BY <1>1 DEF RowsAreCounted, IneligiblePlaces, KnownPlaces
  <1>5. OutputsAreOfIndex' <=> OutputsAreOfIndex
    BY <1>1 DEF OutputsAreOfIndex, GroupsClash, TargetKeys, LabelsOf, ObservationsOf, LanguagesOf,
                TargetsOf, LanguageOf, TransferredKeys, HasUnanimousLabel, CandidatesFor, RequestFor
  <1>6. RecoveryCounts' = RecoveryCounts
    BY <1>1 DEF RecoveryCounts, QueuedTargets, CandidatesWith
  <1>7. ChecksHold' <=> ChecksHold
    BY <1>1, <1>6 DEF ChecksHold, Accounted, OutcomesAddUp
  <1> QED BY <1>1, <1>2, <1>3, <1>4, <1>5, <1>7

LEMMA OutputStep ==
    ASSUME RecoveryInv, MaterializeOutputs
    PROVE  RecoveryInv'
  <1>1. /\ labeledRead' = labeledRead /\ targetRead' = targetRead /\ observations' = observations
        /\ targets' = targets /\ accounting' = accounting
        /\ recPhase = "targets" /\ RowsAreRead /\ IndexIsOfRows /\ RowsAreCounted
        /\ candidates = {} /\ requests = {}
    BY DEF MaterializeOutputs, inputVars, RecoveryInv, Built
  <1>2. RowsAreRead' /\ IndexIsOfRows' /\ RowsAreCounted'
    BY <1>1 DEF RowsAreRead, IndexIsOfRows, LabelledPlaces, OpenPlaces, RowsAreCounted,
                IneligiblePlaces, KnownPlaces
  <1>3. CASE GroupsClash
    BY <1>1, <1>2, <1>3 DEF MaterializeOutputs, RecoveryInv, Built
  <1>4. CASE ~GroupsClash
    <2>1. OutputsAreOfIndex'
      <3>1. /\ TargetKeys' = TargetKeys /\ TransferredKeys' = TransferredKeys
            /\ GroupsClash' <=> GroupsClash
            /\ \A k : LabelsOf(k)' = LabelsOf(k)
            /\ \A k : CandidatesFor(k)' = CandidatesFor(k) /\ RequestFor(k)' = RequestFor(k)
        BY <1>1 DEF GroupsClash, TargetKeys, LabelsOf, ObservationsOf, LanguagesOf, TargetsOf,
                    LanguageOf, TransferredKeys, HasUnanimousLabel, CandidatesFor, RequestFor
      <3>2. /\ conflicts' = {k \in TargetKeys : Cardinality(LabelsOf(k)) > 1}
            /\ candidates' = UNION {CandidatesFor(k) : k \in TransferredKeys}
            /\ requests' = {RequestFor(k) : k \in TargetKeys \ TransferredKeys}
        BY <1>4 DEF MaterializeOutputs
      <3> QED BY <1>4, <3>1, <3>2 DEF OutputsAreOfIndex
    <2>2. recPhase' = "built"
      BY <1>4 DEF MaterializeOutputs
    <2> QED BY <1>2, <2>1, <2>2 DEF RecoveryInv, Built
  <1> QED BY <1>3, <1>4

LEMMA RecoveryKeepsInv == RecoveryInv /\ [RecoveryNext]_recVars => RecoveryInv'
  <1> SUFFICES ASSUME RecoveryInv, [RecoveryNext]_recVars PROVE RecoveryInv'
    OBVIOUS
  <1>1. CASE LabeledDone
    BY <1>1, TablesStand DEF LabeledDone, RecoveryInv, Built
  <1>2. CASE CheckOutputs
    <2>1. recPhase = "built" /\ recPhase' = IF ChecksHold THEN "checked" ELSE "refused"
      BY <1>2 DEF CheckOutputs, ChecksHold
    <2> QED BY <1>2, <2>1, TablesStand DEF CheckOutputs, RecoveryInv, Built
  <1>3. CASE PublishRecovery
    <2>1. recPhase = "checked" /\ ChecksHold
      BY <1>3 DEF PublishRecovery, RecoveryInv
    <2>2. conflicts = {} => RecoveryCounts.conflicts = 0
      BY FS_EmptySet DEF RecoveryCounts
    <2>3. recPhase' = "published"
      BY <1>3, <2>1, <2>2 DEF PublishRecovery, ManifestHolds, ChecksHold
    <2> QED BY <1>3, <2>1, <2>3, TablesStand DEF PublishRecovery, RecoveryInv, Built
  <1>4. CASE UNCHANGED recVars
    BY <1>4, TablesStand DEF recVars, RecoveryInv, Built
  <1> QED BY <1>1, <1>2, <1>3, <1>4, LabelledStep, TargetStep, OutputStep DEF RecoveryNext

LEMMA RecoveryStartsRight == RecoveryInit => RecoveryInv
  <1> SUFFICES ASSUME RecoveryInit PROVE RecoveryInv
    OBVIOUS
  <1>1. RowsAreRead /\ DOMAIN labeledRead = {} /\ DOMAIN targetRead = {} /\ Len(targetRead) = 0
    BY DEF RecoveryInit, RowsAreRead
  <1>2. LabelledPlaces = {} /\ OpenPlaces = {} /\ IneligiblePlaces = {} /\ KnownPlaces = {}
    BY <1>1 DEF LabelledPlaces, OpenPlaces, IneligiblePlaces, KnownPlaces
  <1>3. IndexIsOfRows
    BY <1>2 DEF RecoveryInit, IndexIsOfRows
  <1>4. RowsAreCounted
    BY <1>1, <1>2, FS_EmptySet DEF RecoveryInit, RowsAreCounted
  <1> QED BY <1>1, <1>3, <1>4 DEF RecoveryInit, RecoveryInv, Built

\* For any rows of any partitions in any order, a label is transferred only when every
\* labelled row of the task and patch carries it, every open target is settled once, and
\* nothing but a conflict or a repeated target stops the publication.
THEOREM RecoveriesAreSound == RecoverySpec => []RecoveryIsSound
  <1>1. RecoveryInv => RecoveryIsSound
    BY InvIsSound
  <1> QED BY <1>1, RecoveryStartsRight, RecoveryKeepsInv, PTL DEF RecoverySpec

-----------------------------------------------------------------------------
\* The normalization of the leaves

LEMMA LeastOfNaturals ==
    ASSUME NEW S \in SUBSET Nat, S # {}
    PROVE  Min(S) \in S /\ \A n \in S : Min(S) <= n
  <1> DEFINE R == OpToRel(<, Nat)
  <1>1. IsWellFoundedOn(R, Nat)
    BY NatLessThanWellFounded
  <1>2. R = {ss \in Nat \X Nat : ss[1] < ss[2]}
    BY DEF OpToRel
  <1> HIDE DEF R
  <1>3. \E n \in S : \A m \in S : ~(<<m, n>> \in R)
    BY <1>1, WFMin
  <1>4. \A m, n \in Nat : m < n => <<m, n>> \in R
    BY <1>2
  <1>5. PICK n \in S : \A m \in S : ~(<<m, n>> \in R)
    BY <1>3
  <1>6. \A m \in S : m \in Nat /\ n \in Nat /\ ~(m < n)
    BY <1>4, <1>5
  <1>7. \A m \in S : n <= m
    BY <1>6
  <1> QED BY <1>5, <1>7 DEF Min

LEMMA TwoAreMoreThanOne ==
    ASSUME NEW S, IsFiniteSet(S), NEW x \in S, NEW y \in S, x # y
    PROVE  Cardinality(S) > 1
  <1>1. Cardinality(S) \in Nat
    BY FS_CardinalityType
  <1>2. Cardinality(S) # 0
    BY FS_EmptySet
  <1>3. Cardinality(S) # 1
    BY FS_Singleton
  <1> QED BY <1>1, <1>2, <1>3

\* A leaf that was decided is decided as its rows demand.
DecidedRight(p) == decisions[p] = [n \in RowNumbers(p) |-> Decision(p, n)]

LeafTypes ==
    /\ leaf \in DOMAIN Leaves
    /\ DOMAIN provenance \subseteq Ids
    /\ rawRows \in [1 .. Len(Leaves) -> Seq(TraceRows)]
    /\ decisions = [p \in 1 .. Len(Leaves) |-> decisions[p]]
    /\ normStatus = [p \in 1 .. Len(Leaves) |-> normStatus[p]]

NormInv ==
    /\ LeafTypes
    /\ normPhase \in {"waiting", "reading", "classified", "derived", "failed", "stranded", "complete"}
    /\ normPhase = "waiting" => leaf = 1
    /\ \A p \in DOMAIN Leaves :
          /\ Classified(p) => DecidedRight(p)
          /\ p > leaf => ~Classified(p)
          /\ normStatus[p] = "PASS" => Classified(p)
    /\ normPhase \in {"waiting", "reading"} => ~Classified(leaf)
    /\ normPhase \in {"classified", "derived"} => Classified(leaf)

-----------------------------------------------------------------------------
\* What the projection decides

LEMMA RowsOfLeaf ==
    ASSUME LeafTypes, NEW p \in DOMAIN Leaves
    PROVE  /\ p \in 1 .. Len(Leaves) /\ rawRows[p] \in Seq(TraceRows)
           /\ RowNumbers(p) = 1 .. Len(rawRows[p]) /\ Len(rawRows[p]) \in Nat
           /\ IsFiniteSet(RowNumbers(p)) /\ Cardinality(RowNumbers(p)) = Len(rawRows[p])
           /\ \A n \in RowNumbers(p) : rawRows[p][n] \in TraceRows
  <1>1. p \in 1 .. Len(Leaves) /\ rawRows[p] \in Seq(TraceRows)
    BY TraceRowsAssumption DEF LeafTypes
  <1>2. RowNumbers(p) = 1 .. Len(rawRows[p]) /\ Len(rawRows[p]) \in Nat
    BY <1>1 DEF RowNumbers
  <1>3. \A n \in RowNumbers(p) : rawRows[p][n] \in TraceRows
    BY <1>1, <1>2
  <1>4. IsFiniteSet(RowNumbers(p)) /\ Cardinality(RowNumbers(p)) = Len(rawRows[p])
    BY <1>1, PlacesAreFinite DEF RowNumbers
  <1> QED BY <1>1, <1>2, <1>3, <1>4

LEMMA DigestsAreFinite ==
    ASSUME LeafTypes, NEW p \in DOMAIN Leaves, NEW R \in SUBSET RowNumbers(p)
    PROVE  IsFiniteSet({rawRows[p][n] : n \in R})
  <1> DEFINE f == [n \in R |-> rawRows[p][n]]
  <1>1. IsFiniteSet(R)
    BY RowsOfLeaf, FS_Subset
  <1> DEFINE T == {rawRows[p][n] : n \in R}
  <1>2. DOMAIN f = R /\ f = [n \in R |-> f[n]] /\ T = {f[n] : n \in R}
    OBVIOUS
  <1> HIDE DEF f
  <1>3. IsFiniteSet(T)
    <2> HIDE DEF T
    <2> QED BY <1>1, <1>2, ImageOfFinite
  <1> QED BY <1>3

\* Only the first row of a key is admitted, and only when all of its rows are the same.
LEMMA AdmittedRightly ==
    ASSUME LeafTypes, NEW p \in DOMAIN Leaves, DecidedRight(p), NEW n \in RowNumbers(p)
    PROVE  n \in AdmittedRows(p) <=>
              /\ KeyAt(p, n) # NoKey
              /\ n = Min(RowsWith(p, KeyAt(p, n)))
              /\ \A m \in RowsWith(p, KeyAt(p, n)) :
                    Normalizes(rawRows[p][m]) /\ rawRows[p][m] = rawRows[p][n]
  <1> DEFINE k == KeyAt(p, n)
  <1>1. n \in AdmittedRows(p) <=> Decision(p, n).admitted
    BY DEF DecidedRight, AdmittedRows
  <1>2. Decision(p, n).admitted <=> /\ k # NoKey /\ ~InConflict(p, k) /\ ValidWith(p, k) # {}
                                    /\ n = Min(RowsWith(p, k))
    <2> HIDE DEF k
    <2>1. CASE k = NoKey
      BY <2>1 DEF Decision, Refuse, k
    <2>2. CASE k # NoKey /\ InConflict(p, k)
      BY <2>2 DEF Decision, Refuse, k
    <2>3. CASE k # NoKey /\ ~InConflict(p, k) /\ ValidWith(p, k) = {}
      BY <2>3 DEF Decision, Refuse, k
    <2>4. CASE k # NoKey /\ ~InConflict(p, k) /\ ValidWith(p, k) # {}
      BY <2>4 DEF Decision, Refuse, Admit, k
    <2> QED BY <2>1, <2>2, <2>3, <2>4
  <1> DEFINE same == \A m \in RowsWith(p, k) :
                        Normalizes(rawRows[p][m]) /\ rawRows[p][m] = rawRows[p][n]
  <1>3. n \in RowsWith(p, k) /\ RowsWith(p, k) \subseteq RowNumbers(p)
    BY DEF RowsWith
  <1>4. ASSUME same PROVE ~InConflict(p, k) /\ ValidWith(p, k) # {}
    <2>1. DigestsOf(p, k) = {rawRows[p][n]}
      BY <1>3, <1>4 DEF DigestsOf
    <2>2. ValidWith(p, k) = RowsWith(p, k)
      BY <1>4 DEF ValidWith
    <2> HIDE DEF k
    <2>3. Cardinality(DigestsOf(p, k)) = 1
      BY <2>1, FS_Singleton
    <2> QED BY <2>2, <2>3, <1>3 DEF InConflict
  <1>5. ASSUME ~InConflict(p, k), ValidWith(p, k) # {} PROVE same
    <2>1. ValidWith(p, k) = RowsWith(p, k) /\ ~(Cardinality(DigestsOf(p, k)) > 1)
      BY <1>5 DEF InConflict
    <2>2. IsFiniteSet(DigestsOf(p, k))
      BY <1>3, DigestsAreFinite DEF DigestsOf
    <2>3. \A m \in RowsWith(p, k) : rawRows[p][m] \in DigestsOf(p, k)
      BY DEF DigestsOf
    <2>4. \A m \in RowsWith(p, k) : rawRows[p][m] = rawRows[p][n]
      BY <2>1, <2>2, <2>3, <1>3, TwoAreMoreThanOne
    <2> QED BY <2>1, <2>4 DEF ValidWith
  <1> HIDE DEF same
  <1>6. n \in AdmittedRows(p) <=> k # NoKey /\ n = Min(RowsWith(p, k)) /\ same
    BY <1>1, <1>2, <1>4, <1>5
  <1> QED BY <1>6 DEF same

\* The rows that say they are of one rollout are those with its key, if its instance was admitted.
LEMMA ClaimantsAreOfAKey ==
    ASSUME LeafTypes, NEW p \in DOMAIN Leaves, NEW inst \in Ids, NEW rollout \in Rollouts
    PROVE  IF inst \in DOMAIN provenance
           THEN /\ Claimants(p, inst, rollout) = RowsWith(p, <<p, inst, rollout>>)
                /\ <<p, inst, rollout>> # NoKey
           ELSE \A n \in Claimants(p, inst, rollout) :
                   KeyAt(p, n) = NoKey /\ ~Normalizes(rawRows[p][n])
  <1>1. <<p, inst, rollout>> # NoKey
    BY DEF NoKey
  <1>2. CASE inst \in DOMAIN provenance
    <2>1. \A n \in RowNumbers(p) :
             KeyAt(p, n) = <<p, inst, rollout>> <=>
                rawRows[p][n].family /\ rawRows[p][n].inst = inst /\ rawRows[p][n].rollout = rollout
      BY <1>1, <1>2, TraceRowsAssumption DEF KeyAt, RolloutKey
    <2> QED BY <1>1, <1>2, <2>1 DEF Claimants, RowsWith
  <1>3. CASE inst \notin DOMAIN provenance
    BY <1>3 DEF Claimants, KeyAt, RolloutKey, Normalizes, Acceptable
  <1> QED BY <1>2, <1>3

\* Of a leaf that is decided as its rows demand
LEMMA OneOfEveryRollout ==
    ASSUME LeafTypes, NEW p \in DOMAIN Leaves, DecidedRight(p),
           NEW inst \in Ids, NEW rollout \in Rollouts, NEW rows, rows = Claimants(p, inst, rollout)
    PROVE  Cardinality(rows \cap AdmittedRows(p)) =
              IF rows # {} /\ \A n, m \in rows : /\ Normalizes(rawRows[p][n])
                                                 /\ rawRows[p][n] = rawRows[p][m]
              THEN 1 ELSE 0
  <1> DEFINE k == <<p, inst, rollout>>
             honest == \A n, m \in rows : /\ Normalizes(rawRows[p][n])
                                          /\ rawRows[p][n] = rawRows[p][m]
  <1>1. rows \subseteq RowNumbers(p)
    BY DEF Claimants
  <1>2. CASE inst \in DOMAIN provenance
    <2>1. rows = RowsWith(p, k) /\ k # NoKey
      BY <1>2, ClaimantsAreOfAKey
    <2> HIDE DEF k
    <2>2. \A n \in rows : KeyAt(p, n) = k
      BY <2>1 DEF RowsWith
    <2>3. \A n \in rows : n \in AdmittedRows(p) <=>
             n = Min(rows) /\ \A m \in rows : Normalizes(rawRows[p][m]) /\ rawRows[p][m] = rawRows[p][n]
      BY <1>1, <2>1, <2>2, AdmittedRightly
    <2>4. CASE rows # {} /\ honest
      <3>1. Min(rows) \in rows
        BY <1>1, <2>4, RowsOfLeaf, LeastOfNaturals
      <3>2. rows \cap AdmittedRows(p) = {Min(rows)}
        BY <2>3, <2>4, <3>1
      <3> QED BY <2>4, <3>2, FS_Singleton
    <2>5. CASE ~(rows # {} /\ honest)
      <3>1. rows \cap AdmittedRows(p) = {}
        BY <2>3, <2>5
      <3> QED BY <2>5, <3>1, FS_EmptySet
    <2> QED BY <2>4, <2>5
  <1>3. CASE inst \notin DOMAIN provenance
    <2>1. \A n \in rows : KeyAt(p, n) = NoKey /\ ~Normalizes(rawRows[p][n])
      BY <1>3, ClaimantsAreOfAKey
    <2>2. rows \cap AdmittedRows(p) = {}
      BY <1>1, <2>1, AdmittedRightly
    <2>3. ~(rows # {} /\ honest)
      BY <2>1
    <2> QED BY <2>2, <2>3, FS_EmptySet
  <1> QED BY <1>2, <1>3

LEMMA NormInvIsHonest ==
    ASSUME NormInv PROVE OneSamplePerHonestRollout
  <1>1. ASSUME NEW p \in DOMAIN Leaves, Classified(p), NEW inst \in Ids, NEW rollout \in Rollouts,
               NEW rows, rows = Claimants(p, inst, rollout)
        PROVE  Cardinality(rows \cap AdmittedRows(p)) =
                  IF rows # {} /\ \A n, m \in rows : /\ Normalizes(rawRows[p][n])
                                                     /\ rawRows[p][n] = rawRows[p][m]
                  THEN 1 ELSE 0
    BY <1>1, OneOfEveryRollout DEF NormInv
  <1> QED BY <1>1 DEF OneSamplePerHonestRollout

\* Two admitted rows of a leaf are never the same.
LEMMA AdmittedAreDistinct ==
    ASSUME LeafTypes, NEW p \in DOMAIN Leaves, DecidedRight(p)
    PROVE  /\ \A n, m \in AdmittedRows(p) : rawRows[p][n] = rawRows[p][m] => n = m
           /\ AdmittedRows(p) \subseteq RowNumbers(p) /\ IsFiniteSet(AdmittedRows(p))
  <1>1. AdmittedRows(p) \subseteq RowNumbers(p)
    BY DEF AdmittedRows, DecidedRight
  <1>2. \A n, m \in RowNumbers(p) : rawRows[p][n] = rawRows[p][m] => KeyAt(p, n) = KeyAt(p, m)
    BY DEF KeyAt
  <1>3. \A n, m \in AdmittedRows(p) : rawRows[p][n] = rawRows[p][m] => n = m
    BY <1>1, <1>2, AdmittedRightly
  <1>4. IsFiniteSet(AdmittedRows(p))
    BY <1>1, RowsOfLeaf, FS_Subset
  <1> QED BY <1>1, <1>3, <1>4

-----------------------------------------------------------------------------
\* The steps of the normalization

\* What is decided of a leaf depends on its rows and the provenance alone.
LEMMA LeafStands ==
    ASSUME NEW p, provenance' = provenance, rawRows'[p] = rawRows[p]
    PROVE  /\ RowNumbers(p)' = RowNumbers(p)
           /\ \A n : Decision(p, n)' = Decision(p, n)
           /\ decisions'[p] = decisions[p] =>
                 /\ DecidedRight(p)' <=> DecidedRight(p)
                 /\ AdmittedRows(p)' = AdmittedRows(p)
  <1>1. RowNumbers(p)' = RowNumbers(p)
    BY DEF RowNumbers
  <1>2. \A row : /\ RolloutKey(p, row)' = RolloutKey(p, row)
                 /\ Normalizes(row)' <=> Normalizes(row)
    BY DEF RolloutKey, Normalizes, Acceptable
  <1>3. \A n : KeyAt(p, n)' = KeyAt(p, n) /\ OriginalCode(p, n)' = OriginalCode(p, n)
    BY <1>2 DEF KeyAt, OriginalCode
  <1>4. \A k : RowsWith(p, k)' = RowsWith(p, k)
    BY <1>1, <1>3 DEF RowsWith
  <1>5. \A k : ValidWith(p, k)' = ValidWith(p, k) /\ DigestsOf(p, k)' = DigestsOf(p, k)
    BY <1>2, <1>4 DEF ValidWith, DigestsOf
  <1>6. \A k : InConflict(p, k)' <=> InConflict(p, k)
    BY <1>4, <1>5 DEF InConflict
  <1>7. \A n : Decision(p, n)' = Decision(p, n)
    BY <1>3, <1>4, <1>5, <1>6 DEF Decision
  <1>8. decisions'[p] = decisions[p] =>
           (DecidedRight(p)' <=> DecidedRight(p)) /\ AdmittedRows(p)' = AdmittedRows(p)
    BY <1>1, <1>7 DEF DecidedRight, AdmittedRows
  <1> QED BY <1>1, <1>7, <1>8

LEMMA LeavesStand ==
    ASSUME NormInv, UNCHANGED normVars
    PROVE  NormInv'
  <1>1. \A p : DecidedRight(p)' <=> DecidedRight(p)
    BY LeafStands DEF normVars, leafVars
  <1> QED BY <1>1 DEF NormInv, LeafTypes, Classified, normVars, leafVars

LEMMA StartKeeps ==
    ASSUME NormInv, StartNormalization(Admitted)
    PROVE  NormInv'
  <1>1. /\ normPhase = "waiting" /\ normPhase' = "reading" /\ provenance' = Admitted
        /\ UNCHANGED <<leaf, rawRows, decisions, normStatus>>
    BY DEF StartNormalization
  <1>2. DOMAIN provenance' \subseteq Ids
    BY <1>1 DEF Admitted
  <1>3. \A p \in DOMAIN Leaves : ~Classified(p)
    <2>1. \A p \in DOMAIN Leaves : p = 1 \/ p > 1
      BY TraceRowsAssumption
    <2> QED BY <1>1, <2>1 DEF NormInv
  <1> QED BY <1>1, <1>2, <1>3 DEF NormInv, LeafTypes, Classified

LEMMA TraceRowKeeps ==
    ASSUME NormInv, NEW row \in TraceRows, ReadTraceRow(row)
    PROVE  NormInv'
  <1>1. /\ normPhase = "reading" /\ rawRows' = [rawRows EXCEPT ![leaf] = Append(rawRows[leaf], row)]
        /\ UNCHANGED <<provenance, leaf, normPhase, decisions, normStatus>>
    BY DEF ReadTraceRow
  <1>2. LeafTypes /\ leaf \in 1 .. Len(Leaves)
    BY TraceRowsAssumption DEF NormInv, LeafTypes
  <1>3. rawRows' \in [1 .. Len(Leaves) -> Seq(TraceRows)]
    BY <1>1, <1>2 DEF LeafTypes
  <1>4. \A p \in DOMAIN Leaves : Classified(p) => (DecidedRight(p)' <=> DecidedRight(p))
    <2>1. ~Classified(leaf)
      BY <1>1 DEF NormInv
    <2>2. \A p \in DOMAIN Leaves : p # leaf => rawRows'[p] = rawRows[p]
      BY <1>1, <1>2, TraceRowsAssumption DEF LeafTypes
    <2> QED BY <1>1, <2>1, <2>2, LeafStands
  <1> QED BY <1>1, <1>2, <1>3, <1>4 DEF NormInv, LeafTypes, Classified

LEMMA FinalizeKeeps ==
    ASSUME NormInv, Finalize
    PROVE  NormInv'
  <1>1. /\ normPhase = "reading" /\ UNCHANGED <<provenance, leaf, rawRows, normStatus>>
        /\ LeafTypes /\ leaf \in DOMAIN Leaves /\ leaf \in 1 .. Len(Leaves)
    BY TraceRowsAssumption DEF Finalize, NormInv, LeafTypes
  <1>2. CASE normPhase' = "failed" /\ UNCHANGED decisions
    <2>1. \A p : DecidedRight(p)' <=> DecidedRight(p)
      BY <1>1, <1>2, LeafStands
    <2> QED BY <1>1, <1>2, <2>1 DEF NormInv, LeafTypes, Classified
  <1>3. CASE /\ normPhase' = "classified" /\ rawRows[leaf] # <<>>
             /\ decisions' = [decisions EXCEPT ![leaf] =
                                 [n \in RowNumbers(leaf) |-> Decision(leaf, n)]]
    <2> DEFINE d == [n \in RowNumbers(leaf) |-> Decision(leaf, n)]
    <2>1. DOMAIN d = RowNumbers(leaf)
      OBVIOUS
    <2>2. RowNumbers(leaf) # {}
      <3>1. /\ rawRows[leaf] \in Seq(TraceRows) /\ RowNumbers(leaf) = 1 .. Len(rawRows[leaf])
            /\ Len(rawRows[leaf]) \in Nat
        BY <1>1, RowsOfLeaf
      <3>2. Len(rawRows[leaf]) # 0
        BY <1>3, <3>1, EmptySeq
      <3>3. \A k \in Nat : k # 0 => 1 \in 1 .. k
        OBVIOUS
      <3> QED BY <3>1, <3>2, <3>3
    <2> HIDE DEF d
    <2>3. d # <<>>
      BY <2>1, <2>2
    <2>4. /\ decisions' = [p \in 1 .. Len(Leaves) |-> decisions'[p]]
          /\ decisions'[leaf] = d /\ \A p \in DOMAIN Leaves : p # leaf => decisions'[p] = decisions[p]
      BY <1>1, <1>3, TraceRowsAssumption DEF LeafTypes, d
    <2>5. \A p \in DOMAIN Leaves : p # leaf => (DecidedRight(p)' <=> DecidedRight(p))
      BY <1>1, <2>4, LeafStands
    <2>6. DecidedRight(leaf)'
      <3>1. DecidedRight(leaf)' <=> decisions'[leaf] = [n \in RowNumbers(leaf)' |-> Decision(leaf, n)']
        BY <1>1 DEF DecidedRight
      <3> QED BY <1>1, <2>4, <3>1, LeafStands DEF d
    <2>7. \A p \in DOMAIN Leaves : p > leaf => p # leaf
      BY TraceRowsAssumption
    <2> QED BY <1>1, <1>3, <2>3, <2>4, <2>5, <2>6, <2>7 DEF NormInv, LeafTypes, Classified
  <1> QED BY <1>2, <1>3 DEF Finalize

LEMMA PublishKeeps ==
    ASSUME NormInv, PublishDerived \/ PublishNormalization
    PROVE  NormInv'
  <1>1. /\ normPhase \in {"classified", "derived"}
        /\ UNCHANGED <<provenance, rawRows, decisions>>
        /\ LeafTypes /\ leaf \in DOMAIN Leaves /\ leaf \in 1 .. Len(Leaves)
    BY TraceRowsAssumption DEF PublishDerived, PublishNormalization, NormInv, LeafTypes
  <1>2. \A p : (DecidedRight(p)' <=> DecidedRight(p)) /\ (Classified(p)' <=> Classified(p))
    BY <1>1, LeafStands DEF Classified
  <1>3. CASE /\ UNCHANGED <<leaf, normStatus>> /\ normPhase' \in {"derived", "failed", "stranded"}
    BY <1>1, <1>2, <1>3 DEF NormInv, LeafTypes
  <1>4. CASE /\ \E x \in {"PASS", "FAIL"} : normStatus' = [normStatus EXCEPT ![leaf] = x]
             /\ leaf' = IF leaf < Len(Leaves) THEN leaf + 1 ELSE leaf
             /\ normPhase' = IF leaf < Len(Leaves) THEN "reading" ELSE "complete"
    <2>1. /\ normStatus' = [p \in 1 .. Len(Leaves) |-> normStatus'[p]]
          /\ \A p \in DOMAIN Leaves : p # leaf => normStatus'[p] = normStatus[p]
      BY <1>1, <1>4, TraceRowsAssumption DEF LeafTypes
    <2>2. leaf' \in DOMAIN Leaves /\ leaf' >= leaf /\ (leaf < Len(Leaves) => leaf' > leaf)
      BY <1>1, <1>4, TraceRowsAssumption
    <2>3. \A p \in DOMAIN Leaves : p > leaf' => p > leaf
      BY <1>1, <2>2, TraceRowsAssumption
    <2>4. Classified(leaf)
      BY <1>1 DEF NormInv
    <2>5. \A p \in DOMAIN Leaves : normStatus'[p] = "PASS" => Classified(p)
      BY <2>1, <2>4 DEF NormInv
    <2>6. LeafTypes'
      BY <1>1, <2>1, <2>2 DEF LeafTypes
    <2>7. normPhase' = "reading" => ~Classified(leaf')
      BY <1>4, <2>2 DEF NormInv
    <2>8. \A p \in DOMAIN Leaves : p > leaf' => ~Classified(p)
      BY <2>3 DEF NormInv
    <2>9. normPhase' \in {"reading", "complete"}
      BY <1>4
    <2>a. normPhase' = "reading" => ~Classified(leaf)'
      BY <1>1, <2>7 DEF Classified
    <2>b. \A p \in DOMAIN Leaves : Classified(p) => DecidedRight(p)
      BY DEF NormInv
    <2> QED BY <1>2, <2>5, <2>6, <2>8, <2>9, <2>a, <2>b DEF NormInv
  <1> QED BY <1>3, <1>4 DEF PublishDerived, PublishNormalization

LEMMA NormStartsRight == ASSUME NormalizationInit PROVE NormInv
  <1>1. leaf \in DOMAIN Leaves
    BY TraceRowsAssumption DEF NormalizationInit
  <1>2. \A p \in DOMAIN Leaves : ~Classified(p) /\ normStatus[p] = "none"
    BY TraceRowsAssumption DEF NormalizationInit, Classified
  <1> QED BY <1>1, <1>2 DEF NormInv, LeafTypes, NormalizationInit

LEMMA NormKeeps ==
    ASSUME NormInv, [PipelineNext]_pipelineVars
    PROVE  NormInv'
  <1>1. CASE Normalize
    <2>1. CASE StartNormalization(Admitted)
      BY <2>1, StartKeeps
    <2>2. CASE NormalizationNext
      BY <2>2, TraceRowKeeps, FinalizeKeeps, PublishKeeps DEF NormalizationNext
    <2>3. CASE UNCHANGED normVars
      BY <2>3, LeavesStand
    <2> QED BY <1>1, <2>1, <2>2, <2>3 DEF Normalize, HandOverProvenance
  <1>2. CASE UNCHANGED normVars
    BY <1>2, LeavesStand
  <1> QED BY <1>1, <1>2 DEF PipelineNext, Conclude, Review, Cohort, Recover, SplitAndDraw, EvaluateCase,
         Train, Teach, RunScript, pipelineVars, jobVars, dataVars

\* Of every rollout exactly one row is admitted when all its rows are the same and normalize,
\* and none otherwise, for any number of rows in any order.
THEOREM OneSamplePerRollout == PipelineSpec => []OneSamplePerHonestRollout
  <1>1. PipelineInit => NormInv
    BY NormStartsRight DEF PipelineInit
  <1>2. NormInv /\ [PipelineNext]_pipelineVars => NormInv'
    BY NormKeeps
  <1>3. NormInv => OneSamplePerHonestRollout
    BY NormInvIsHonest
  <1> QED BY <1>1, <1>2, <1>3, PTL DEF PipelineSpec

-----------------------------------------------------------------------------
\* The oracle-isolation review, the audit and the cohort

\* A leaf is reviewed when all leaves are normalized: what it claims stands still.
ReviewTypes ==
    /\ reviewed \in DOMAIN Leaves \cup {0}
    /\ attested = [p \in DOMAIN Leaves |-> attested[p]]
    /\ audits = [p \in DOMAIN Leaves |-> audits[p]]
    /\ \A p \in DOMAIN Leaves : attested[p] \in {"none", "refused", "PASS", "FAIL"}

Untouched ==
    /\ reviewed = 0 /\ cohort.outcome = "none"
    /\ \A p \in DOMAIN Leaves : attested[p] = "none" /\ audits[p] # "PASS"

\* The digests a scan has claimed so far, out of the first rows
ClaimedDigests == DigestsAdmitted(reviewed) \ unclaimed
FirstDigests == {rawRows[reviewed][n] : n \in 1 .. scan.at}

ScanIsRight ==
    /\ attested[reviewed] = "none" /\ NormalizedPass(reviewed)
    /\ unclaimed \subseteq DigestsAdmitted(reviewed)
    /\ scan = [at |-> scan.at, covered |-> scan.covered, references |-> scan.references,
               reasons |-> scan.reasons]
    /\ scan.at \in 0 .. Len(rawRows[reviewed])
    /\ ClaimedDigests = DigestsAdmitted(reviewed) \cap FirstDigests
    /\ scan.covered = Cardinality(ClaimedDigests)
    /\ scan.references = Cardinality({row \in ClaimedDigests : ReferencePresent(row)})
    /\ scan.reasons = UNION {Inspection(row) : row \in ClaimedDigests}

EveryRawRow(p) == \A n \in RowNumbers(p) : n \in AdmittedRows(p) /\ Isolated(rawRows[p][n])

ReviewInv ==
    /\ ReviewTypes
    /\ normPhase # "complete" => Untouched
    /\ reviewed # 0 => ScanIsRight
    /\ \A p \in DOMAIN Leaves :
          attested[p] \in {"PASS", "FAIL"} => (attested[p] = "PASS" <=> EveryRawRow(p))
    /\ ConclusionsAreEarned

LEMMA ReviewInvIsWhole == ASSUME ReviewInv PROVE PassMeansEveryRawRow
  BY DEF ReviewInv, ReviewTypes, PassMeansEveryRawRow, EveryRawRow

-----------------------------------------------------------------------------
\* What a leaf that passed holds
LEMMA SamplesOfLeaf ==
    ASSUME NormInv, NEW p \in DOMAIN Leaves, NormalizedPass(p)
    PROVE  /\ AdmittedRows(p) \subseteq RowNumbers(p) /\ IsFiniteSet(AdmittedRows(p))
           /\ IsFiniteSet(DigestsAdmitted(p)) /\ Cardinality(DigestsAdmitted(p)) = AcceptedCount(p)
           /\ AcceptedCount(p) \in Nat /\ AcceptedCount(p) <= Len(rawRows[p])
           /\ AcceptedCount(p) = Len(rawRows[p]) <=> AdmittedRows(p) = RowNumbers(p)
           /\ DigestsAdmitted(p) \subseteq TraceRows
           /\ \A n, m \in AdmittedRows(p) : rawRows[p][n] = rawRows[p][m] => n = m
  <1>1. LeafTypes /\ DecidedRight(p)
    BY DEF NormInv, NormalizedPass
  <1>2. /\ AdmittedRows(p) \subseteq RowNumbers(p) /\ IsFiniteSet(AdmittedRows(p))
        /\ \A n, m \in AdmittedRows(p) : rawRows[p][n] = rawRows[p][m] => n = m
    BY <1>1, AdmittedAreDistinct
  <1>3. /\ IsFiniteSet(DigestsAdmitted(p)) /\ Cardinality(DigestsAdmitted(p)) = AcceptedCount(p)
        /\ AcceptedCount(p) \in Nat
    <2> DEFINE f == [n \in AdmittedRows(p) |-> rawRows[p][n]]
    <2>1. /\ DOMAIN f = AdmittedRows(p) /\ f = [n \in AdmittedRows(p) |-> f[n]]
          /\ DigestsAdmitted(p) = {f[n] : n \in AdmittedRows(p)}
          /\ \A n, m \in AdmittedRows(p) : f[n] = f[m] => n = m
      BY <1>2 DEF DigestsAdmitted
    <2> HIDE DEF f
    <2> QED BY <1>2, <2>1, ImageOfFinite DEF AcceptedCount
  <1>4. /\ AcceptedCount(p) <= Len(rawRows[p])
        /\ AcceptedCount(p) = Len(rawRows[p]) <=> AdmittedRows(p) = RowNumbers(p)
    <2>1. IsFiniteSet(RowNumbers(p)) /\ Cardinality(RowNumbers(p)) = Len(rawRows[p])
      BY <1>1, RowsOfLeaf
    <2> QED BY <1>2, <2>1, FS_Subset DEF AcceptedCount
  <1>5. DigestsAdmitted(p) \subseteq TraceRows
    BY <1>1, <1>2, RowsOfLeaf DEF DigestsAdmitted
  <1> QED BY <1>2, <1>3, <1>4, <1>5

\* The inspection of a row finds nothing exactly when the row is isolated.
LEMMA InspectionTells ==
    ASSUME NEW row \in TraceRows
    PROVE  /\ Inspection(row) = {} <=> Isolated(row)
           /\ Inspection(row) \subseteq ContextReasons \cup PromptReasons
           /\ Isolated(row) => ReferencePresent(row)
  BY TraceRowsAssumption DEF Inspection, Isolated, ReferencePresent, ContextReasons, PromptReasons

\* When the scan is through, it has claimed every sample, and it passes exactly when every
\* raw row had one and was isolated; what is written then always validates.
LEMMA ScanConcludes ==
    ASSUME NormInv, ReviewInv, reviewed # 0, scan.at = Len(rawRows[reviewed])
    PROVE  /\ ChecksPass(reviewed) <=> EveryRawRow(reviewed)
           /\ AttestationHolds(reviewed, IF ChecksPass(reviewed) THEN "PASS" ELSE "FAIL")
  <1> DEFINE p == reviewed
             D == DigestsAdmitted(p)
             missing == {row \in D : ~ReferencePresent(row)}
             present == {row \in D : ReferencePresent(row)}
  <1>1. p \in DOMAIN Leaves /\ ScanIsRight /\ NormalizedPass(p) /\ LeafTypes
    BY DEF ReviewInv, ReviewTypes, ScanIsRight, NormInv
  <1>2. /\ RowNumbers(p) = 1 .. scan.at /\ scan.at \in Nat
        /\ \A n \in RowNumbers(p) : rawRows[p][n] \in TraceRows
    BY <1>1, RowsOfLeaf
  <1>3. /\ AdmittedRows(p) \subseteq RowNumbers(p) /\ IsFiniteSet(D)
        /\ Cardinality(D) = AcceptedCount(p) /\ D \subseteq TraceRows
        /\ AcceptedCount(p) \in Nat /\ AcceptedCount(p) <= scan.at
        /\ AcceptedCount(p) = scan.at <=> AdmittedRows(p) = RowNumbers(p)
    BY <1>1, SamplesOfLeaf
  <1>4. ClaimedDigests = D
    BY <1>1, <1>2, <1>3 DEF ScanIsRight, FirstDigests, DigestsAdmitted
  <1>5. /\ scan.covered = AcceptedCount(p) /\ scan.references = Cardinality(present)
        /\ scan.reasons = UNION {Inspection(row) : row \in D}
    BY <1>1, <1>3, <1>4 DEF ScanIsRight
  <1>6. /\ Cardinality(present) \in Nat /\ Cardinality(present) <= AcceptedCount(p)
        /\ Cardinality(present) = AcceptedCount(p) => present = D
        /\ present = D => Cardinality(present) = AcceptedCount(p)
    <2>1. IsFiniteSet(present) /\ present \in SUBSET D
      BY <1>3, FS_Subset
    <2> QED BY <1>3, <2>1, FS_Subset, FS_CardinalityType
  <1>7. /\ FinalReasons(p) = scan.reasons
        /\ scan.reasons \subseteq ContextReasons \cup PromptReasons
        /\ scan.reasons = {} <=> \A row \in D : Isolated(row)
    <2>1. \A row \in D : /\ Inspection(row) = {} <=> Isolated(row)
                         /\ Inspection(row) \subseteq ContextReasons \cup PromptReasons
      BY <1>3, InspectionTells
    <2>2. FinalReasons(p) = scan.reasons
      BY <1>5 DEF FinalReasons
    <2> HIDE DEF D
    <2> QED BY <1>5, <2>1, <2>2
  <1>8. D = {rawRows[p][n] : n \in AdmittedRows(p)}
    BY DEF DigestsAdmitted
  <1>9. (\A row \in D : Isolated(row)) => present = D
    BY <1>3, InspectionTells
  <1>a. EveryRawRow(p) <=> AdmittedRows(p) = RowNumbers(p) /\ \A row \in D : Isolated(row)
    BY <1>3, <1>8 DEF EveryRawRow
  <1> HIDE DEF D, present, p
  <1>b. ChecksPass(p) <=> /\ scan.reasons = {} /\ scan.references = scan.at
                          /\ scan.references = scan.covered
    BY <1>7 DEF ChecksPass
  <1>c. ChecksPass(p) <=> EveryRawRow(p)
    BY <1>2, <1>3, <1>5, <1>6, <1>7, <1>9, <1>a, <1>b
  <1>d. AttestationHolds(p, IF ChecksPass(p) THEN "PASS" ELSE "FAIL")
    BY <1>2, <1>3, <1>5, <1>6, <1>7, <1>b DEF AttestationHolds
  <1> QED BY <1>c, <1>d DEF p

-----------------------------------------------------------------------------
\* The steps of what is concluded

LEMMA EvidenceStands ==
    ASSUME UNCHANGED <<rawRows, decisions, normStatus>>
    PROVE  /\ \A p : /\ RowNumbers(p)' = RowNumbers(p) /\ AdmittedRows(p)' = AdmittedRows(p)
                     /\ DigestsAdmitted(p)' = DigestsAdmitted(p) /\ SamplesOf(p)' = SamplesOf(p)
                     /\ NormalizedPass(p)' <=> NormalizedPass(p)
                     /\ EveryRawRow(p)' <=> EveryRawRow(p)
           /\ \A members : RowsOfMembers(members)' = RowsOfMembers(members)
  <1>1. \A p : RowNumbers(p)' = RowNumbers(p) /\ AdmittedRows(p)' = AdmittedRows(p)
    BY DEF RowNumbers, AdmittedRows
  <1>2. \A p : /\ DigestsAdmitted(p)' = DigestsAdmitted(p) /\ SamplesOf(p)' = SamplesOf(p)
               /\ NormalizedPass(p)' <=> NormalizedPass(p)
    BY <1>1 DEF DigestsAdmitted, SamplesOf, SampleId, NormalizedPass
  <1>3. \A p : EveryRawRow(p)' <=> EveryRawRow(p)
    BY <1>1 DEF EveryRawRow, Isolated
  <1>4. \A members : RowsOfMembers(members)' = RowsOfMembers(members)
    BY <1>1 DEF RowsOfMembers
  <1> QED BY <1>1, <1>2, <1>3, <1>4

LEMMA ReviewStands ==
    ASSUME ReviewInv, UNCHANGED <<normVars, reviewVars>>
    PROVE  ReviewInv'
  <1>1. /\ UNCHANGED <<rawRows, decisions, normStatus, normPhase>>
        /\ UNCHANGED <<reviewed, unclaimed, scan, attested, audits, cohort>>
    BY DEF normVars, leafVars, reviewVars
  <1>2. reviewed # 0 => ScanIsRight'
    BY <1>1, EvidenceStands DEF ReviewInv, ScanIsRight, ClaimedDigests, FirstDigests, Inspection,
                                ReferencePresent
  <1>3. ConclusionsAreEarned'
    BY <1>1, EvidenceStands DEF ReviewInv, ConclusionsAreEarned
  <1> QED BY <1>1, <1>2, <1>3, EvidenceStands DEF ReviewInv, ReviewTypes, Untouched

\* As long as leaves are normalized nothing is concluded.
LEMMA NothingConcluded ==
    ASSUME ReviewInv, normPhase # "complete", UNCHANGED reviewVars
    PROVE  ReviewInv'
  <1>1. Untouched /\ ReviewTypes /\ UNCHANGED <<reviewed, unclaimed, scan, attested, audits, cohort>>
    BY DEF ReviewInv, reviewVars
  <1> QED BY <1>1 DEF ReviewInv, ReviewTypes, Untouched, ConclusionsAreEarned

LEMMA OpenKeeps ==
    ASSUME ReviewInv, NEW p \in DOMAIN Leaves, OpenReview(p), UNCHANGED normVars
    PROVE  ReviewInv'
  <1>1. /\ normPhase = "complete" /\ reviewed = 0 /\ attested[p] = "none"
        /\ UNCHANGED <<rawRows, decisions, normStatus, normPhase, audits, cohort>>
        /\ ReviewTypes /\ ConclusionsAreEarned /\ p # 0
    BY TraceRowsAssumption DEF OpenReview, ReviewInv, normVars, leafVars
  <1>2. audits[p] # "PASS"
    BY <1>1 DEF ConclusionsAreEarned
  <1>3. CASE /\ reviewed' = p /\ unclaimed' = DigestsAdmitted(p) /\ scan' = NoScan
             /\ UNCHANGED attested /\ NormalizedPass(p)
    <2>1. ConclusionsAreEarned'
      BY <1>1, <1>3, EvidenceStands DEF ConclusionsAreEarned
    <2>2. ClaimedDigests' = {} /\ FirstDigests' = {}
      <3>1. 1 .. scan'.at = {}
        BY <1>3 DEF NoScan
      <3> QED BY <1>1, <1>3, <3>1, EvidenceStands DEF ClaimedDigests, FirstDigests
    <2>3. Len(rawRows[p]) \in Nat => scan'.at \in 0 .. Len(rawRows'[p])
      BY <1>1, <1>3 DEF NoScan
    <2>4. /\ scan'.covered = 0 /\ scan'.references = 0 /\ scan'.reasons = {}
          /\ scan' = [at |-> scan'.at, covered |-> scan'.covered, references |-> scan'.references,
                      reasons |-> scan'.reasons]
      BY <1>3 DEF NoScan
    <2>5. /\ {row \in {} : ReferencePresent(row)} = {} /\ UNION {Inspection(row) : row \in {}} = {}
          /\ Cardinality({}) = 0
      BY FS_EmptySet
    <2>6. Len(rawRows[p]) \in Nat => ScanIsRight'
      BY <1>1, <1>3, <2>2, <2>3, <2>4, <2>5, EvidenceStands DEF ScanIsRight
    <2> QED BY <1>1, <1>3, <2>1, <2>6, EvidenceStands DEF ReviewInv, ReviewTypes
  <1>4. CASE attested' = [attested EXCEPT ![p] = "refused"] /\ UNCHANGED <<reviewed, unclaimed, scan>>
    <2>1. /\ attested' = [q \in DOMAIN Leaves |-> attested'[q]] /\ attested'[p] = "refused"
          /\ \A q \in DOMAIN Leaves : q # p => attested'[q] = attested[q]
      BY <1>1, <1>4 DEF ReviewTypes
    <2>2. ConclusionsAreEarned'
      BY <1>1, <1>2, <2>1, EvidenceStands DEF ConclusionsAreEarned
    <2> QED BY <1>1, <1>4, <2>1, <2>2, EvidenceStands DEF ReviewInv, ReviewTypes
  <1> QED BY <1>3, <1>4 DEF OpenReview

\* A row that claims a sample claims it once, and is inspected; any other row only counts.
LEMMA ScanKeeps ==
    ASSUME NormInv, ReviewInv, ScanRow, UNCHANGED normVars
    PROVE  ReviewInv'
  <1> DEFINE p == reviewed
             row == rawRows[reviewed][scan.at + 1]
             D == DigestsAdmitted(reviewed)
             C == ClaimedDigests
             R == {x \in C : ReferencePresent(x)}
  <1>1. /\ p \in DOMAIN Leaves /\ p # 0 /\ ScanIsRight /\ NormalizedPass(p) /\ LeafTypes
        /\ ReviewTypes /\ ConclusionsAreEarned /\ normPhase = "complete"
        /\ UNCHANGED <<rawRows, decisions, normStatus, normPhase, reviewed, attested, audits, cohort>>
    BY DEF ScanRow, ReviewInv, ReviewTypes, ScanIsRight, NormInv, normVars, leafVars, Untouched
  <1>2. Len(rawRows[p]) \in Nat /\ IsFiniteSet(D)
    BY <1>1, RowsOfLeaf, SamplesOfLeaf
  <1>3. scan.at \in Nat /\ scan.at + 1 \in 0 .. Len(rawRows[p])
    BY <1>1, <1>2 DEF ScanRow, ScanIsRight
  <1>4. scan'.at = scan.at + 1 => FirstDigests' = FirstDigests \cup {row}
    <2>1. 1 .. scan.at + 1 = 1 .. scan.at \cup {scan.at + 1}
      BY <1>3
    <2>2. scan'.at = scan.at + 1 =>
             FirstDigests' = {rawRows[reviewed][n] : n \in 1 .. scan.at + 1}
      BY <1>1 DEF FirstDigests
    <2> HIDE DEF p
    <2> QED BY <2>1, <2>2 DEF FirstDigests
  <1>5. /\ C = D \cap FirstDigests /\ C = D \ unclaimed /\ unclaimed \subseteq D
        /\ DigestsAdmitted(reviewed)' = D /\ ClaimedDigests' = D \ unclaimed'
        /\ IsFiniteSet(C) /\ IsFiniteSet(R) /\ Cardinality(C) \in Nat /\ Cardinality(R) \in Nat
    <2>1. C = D \cap FirstDigests /\ C = D \ unclaimed /\ unclaimed \subseteq D
      BY <1>1 DEF ScanIsRight, ClaimedDigests
    <2>2. DigestsAdmitted(reviewed)' = D /\ ClaimedDigests' = D \ unclaimed'
      BY <1>1, EvidenceStands DEF ClaimedDigests
    <2>3. C \in SUBSET D /\ R \in SUBSET C
      BY <2>1
    <2> HIDE DEF C, D, R
    <2>4. IsFiniteSet(C) /\ IsFiniteSet(R)
      BY <1>2, <2>3, FS_Subset
    <2> QED BY <2>1, <2>2, <2>4, FS_CardinalityType
  <1>6. /\ scan.covered = Cardinality(C) /\ scan.references = Cardinality(R)
        /\ scan.reasons = UNION {Inspection(x) : x \in C} /\ attested[p] = "none"
    BY <1>1 DEF ScanIsRight
  <1>7. CASE row \notin unclaimed /\ scan' = [scan EXCEPT !.at = @ + 1] /\ UNCHANGED unclaimed
    <2>1. /\ scan' = [at |-> scan'.at, covered |-> scan'.covered, references |-> scan'.references,
                      reasons |-> scan'.reasons]
          /\ scan'.at = scan.at + 1 /\ scan'.covered = scan.covered
          /\ scan'.references = scan.references /\ scan'.reasons = scan.reasons
      BY <1>1, <1>7 DEF ScanIsRight
    <2>2. ClaimedDigests' = C
      BY <1>5, <1>7
    <2>3. ClaimedDigests' = D \cap FirstDigests'
      <3> HIDE DEF D, C, row
      <3>1. row \in D => row \in C
        BY <1>5, <1>7
      <3>2. D \cap (FirstDigests \cup {row}) = C
        BY <1>5, <3>1
      <3> QED BY <1>4, <2>1, <2>2, <3>2
    <2>4. ScanIsRight'
      <3>1. /\ scan'.covered = Cardinality(ClaimedDigests')
            /\ scan'.reasons = UNION {Inspection(x) : x \in ClaimedDigests'}
            /\ scan'.references = Cardinality({x \in ClaimedDigests' : ReferencePresent(x)})
        BY <1>6, <2>1, <2>2
      <3>2. /\ attested'[reviewed'] = "none" /\ NormalizedPass(reviewed)'
            /\ scan'.at \in 0 .. Len(rawRows'[reviewed'])
            /\ unclaimed' \subseteq DigestsAdmitted(reviewed)'
            /\ ClaimedDigests' = DigestsAdmitted(reviewed)' \cap FirstDigests'
        BY <1>1, <1>3, <1>5, <1>6, <1>7, <2>1, <2>3, EvidenceStands
      <3> QED BY <2>1, <3>1, <3>2 DEF ScanIsRight, Inspection, ReferencePresent
    <2>5. ConclusionsAreEarned'
      BY <1>1, EvidenceStands DEF ConclusionsAreEarned
    <2> QED BY <1>1, <2>4, <2>5, EvidenceStands DEF ReviewInv, ReviewTypes
  <1>8. CASE /\ row \in unclaimed /\ unclaimed' = unclaimed \ {row}
             /\ scan' = [at |-> scan.at + 1, covered |-> scan.covered + 1,
                         references |-> scan.references + (IF ReferencePresent(row) THEN 1 ELSE 0),
                         reasons |-> scan.reasons \cup Inspection(row)]
    <2> DEFINE R2 == {x \in C \cup {row} : ReferencePresent(x)}
    <2>1. row \in D /\ row \notin C /\ ClaimedDigests' = C \cup {row}
      <3> HIDE DEF D, C, row
      <3> QED BY <1>5, <1>8
    <2>2. ClaimedDigests' = D \cap FirstDigests'
      <3>1. scan'.at = scan.at + 1
        BY <1>8
      <3> HIDE DEF D, C, row
      <3> QED BY <1>4, <1>5, <2>1, <3>1
    <2>3. Cardinality(C \cup {row}) = Cardinality(C) + 1
      <3> HIDE DEF C, row
      <3> QED BY <1>5, <2>1, FS_AddElement
    <2>4. Cardinality(R2) = Cardinality(R) + (IF ReferencePresent(row) THEN 1 ELSE 0)
      <3> DEFINE r == row
      <3>1. /\ ReferencePresent(r) => R2 = R \cup {r}
            /\ ~ReferencePresent(r) => R2 = R
        <4> HIDE DEF C, r
        <4>1. R2 = R \cup {x \in {r} : ReferencePresent(x)}
          BY DEF r
        <4> HIDE DEF R, R2
        <4> QED BY <4>1
      <3>2. r \notin R
        BY <2>1
      <3> HIDE DEF r, R2, R
      <3>3. Cardinality(R \cup {r}) = Cardinality(R) + 1
        BY <1>5, <3>2, FS_AddElement
      <3>4. Cardinality(R2) = Cardinality(R) + (IF ReferencePresent(r) THEN 1 ELSE 0)
        BY <1>5, <3>1, <3>3
      <3> QED BY <3>4 DEF r
    <2>5. UNION {Inspection(x) : x \in C \cup {row}} =
             (UNION {Inspection(x) : x \in C}) \cup Inspection(row)
      <3> DEFINE seen == UNION {Inspection(x) : x \in C \cup {row}}
                 found == (UNION {Inspection(x) : x \in C}) \cup Inspection(row)
      <3> HIDE DEF C, row
      <3>1. \A z : z \in seen <=> \E x \in C \cup {row} : z \in Inspection(x)
        OBVIOUS
      <3>2. \A z : z \in found <=> (\E x \in C : z \in Inspection(x)) \/ z \in Inspection(row)
        OBVIOUS
      <3>3. \A z : (\E x \in C \cup {row} : z \in Inspection(x))
                    <=> (\E x \in C : z \in Inspection(x)) \/ z \in Inspection(row)
        OBVIOUS
      <3> HIDE DEF seen, found
      <3>4. seen = found
        BY <3>1, <3>2, <3>3
      <3> QED BY <3>4 DEF seen, found
    <2>6. /\ scan'.at = scan.at + 1 /\ scan'.covered = Cardinality(C \cup {row})
          /\ scan'.references = Cardinality(R2)
          /\ scan'.reasons = UNION {Inspection(x) : x \in C \cup {row}}
          /\ scan' = [at |-> scan'.at, covered |-> scan'.covered, references |-> scan'.references,
                      reasons |-> scan'.reasons]
      BY <1>6, <1>8, <2>3, <2>4, <2>5
    <2>7. unclaimed' \subseteq D
      BY <1>5, <1>8
    <2>8. ScanIsRight'
      <3>1. /\ scan'.covered = Cardinality(ClaimedDigests')
            /\ scan'.reasons = UNION {Inspection(x) : x \in ClaimedDigests'}
            /\ scan'.references = Cardinality({x \in ClaimedDigests' : ReferencePresent(x)})
        BY <2>1, <2>6
      <3>2. /\ attested'[reviewed'] = "none" /\ NormalizedPass(reviewed)'
            /\ scan'.at \in 0 .. Len(rawRows'[reviewed'])
            /\ unclaimed' \subseteq DigestsAdmitted(reviewed)'
            /\ ClaimedDigests' = DigestsAdmitted(reviewed)' \cap FirstDigests'
        BY <1>1, <1>3, <1>5, <1>6, <2>2, <2>6, <2>7, EvidenceStands
      <3> QED BY <2>6, <3>1, <3>2 DEF ScanIsRight, Inspection, ReferencePresent
    <2>9. ConclusionsAreEarned'
      BY <1>1, EvidenceStands DEF ConclusionsAreEarned
    <2> QED BY <1>1, <2>8, <2>9, EvidenceStands DEF ReviewInv, ReviewTypes
  <1> QED BY <1>7, <1>8 DEF ScanRow

\* What is attested is what the scan found, and the audit did not pass before it.
LEMMA AttestKeeps ==
    ASSUME NormInv, ReviewInv, Attest, UNCHANGED normVars
    PROVE  ReviewInv'
  <1> DEFINE p == reviewed
             result == IF ChecksPass(reviewed) THEN "PASS" ELSE "FAIL"
  <1>1. /\ p \in DOMAIN Leaves /\ p # 0 /\ ScanIsRight /\ attested[p] = "none" /\ reviewed' = 0
        /\ ReviewTypes /\ ConclusionsAreEarned /\ normPhase = "complete"
        /\ UNCHANGED <<rawRows, decisions, normStatus, normPhase, audits, cohort>>
    BY DEF Attest, ReviewInv, ReviewTypes, ScanIsRight, normVars, leafVars, Untouched
  <1>2. (ChecksPass(p) <=> EveryRawRow(p)) /\ AttestationHolds(p, result)
    BY <1>1, ScanConcludes DEF Attest
  <1>3. result \in {"PASS", "FAIL"} /\ (result = "PASS" <=> EveryRawRow(p))
    BY <1>2
  <1>4. attested' = [attested EXCEPT ![p] = result]
    BY <1>2 DEF Attest
  <1> HIDE DEF result, p
  <1>5. /\ attested' = [q \in DOMAIN Leaves |-> attested'[q]] /\ attested'[p] = result
        /\ \A q \in DOMAIN Leaves : q # p => attested'[q] = attested[q]
    BY <1>1, <1>4 DEF ReviewTypes
  <1>6. ConclusionsAreEarned'
    BY <1>1, <1>5, EvidenceStands DEF ConclusionsAreEarned
  <1> QED BY <1>1, <1>3, <1>5, <1>6, EvidenceStands DEF ReviewInv, ReviewTypes

LEMMA AuditKeeps ==
    ASSUME ReviewInv, NEW p \in DOMAIN Leaves, NEW given \in BOOLEAN, AuditGold(p, given),
           UNCHANGED normVars
    PROVE  ReviewInv'
  <1>1. /\ normPhase = "complete" /\ ReviewTypes /\ ConclusionsAreEarned
        /\ UNCHANGED <<rawRows, decisions, normStatus, normPhase, reviewed, unclaimed, scan,
                       attested, cohort>>
    BY DEF AuditGold, ReviewInv, normVars, leafVars
  <1>2. /\ audits' = [q \in DOMAIN Leaves |-> audits'[q]]
        /\ \A q \in DOMAIN Leaves : q # p => audits'[q] = audits[q]
        /\ audits'[p] = IF given /\ attested[p] # "PASS" THEN "refused"
                        ELSE GoldStatus(p, given /\ p \in TrustedLeaves)
    BY <1>1 DEF AuditGold, ReviewTypes
  <1>3. audits'[p] = "PASS" => attested[p] = "PASS" /\ p \in TrustedLeaves /\ NormalizedPass(p)
    BY <1>2 DEF GoldStatus
  <1>4. ConclusionsAreEarned'
    BY <1>1, <1>2, <1>3, EvidenceStands DEF ConclusionsAreEarned
  <1>5. reviewed # 0 => ScanIsRight'
    BY <1>1, EvidenceStands DEF ReviewInv, ScanIsRight, ClaimedDigests, FirstDigests, Inspection,
                                ReferencePresent
  <1> QED BY <1>1, <1>2, <1>4, <1>5, EvidenceStands DEF ReviewInv, ReviewTypes

\* The samples of the members are as many as the rows that were admitted of them: a sample
\* id tells its leaf, and in a leaf no raw row is admitted twice.
LEMMA SamplesOfMembers ==
    ASSUME NormInv, NEW members \in SUBSET DOMAIN Leaves, \A p \in members : NormalizedPass(p)
    PROVE  /\ \A s, t \in RowsOfMembers(members) : IdOf(s) = IdOf(t) => s = t
           /\ Cardinality(UNION {SamplesOf(p) : p \in members})
                = Cardinality(RowsOfMembers(members))
  <1> DEFINE R == RowsOfMembers(members)
             T == UNION {SamplesOf(p) : p \in members}
             f == [s \in R |-> IdOf(s)]
  <1>1. \A p \in members : /\ IsFiniteSet(AdmittedRows(p))
                           /\ \A n, m \in AdmittedRows(p) : rawRows[p][n] = rawRows[p][m] => n = m
    BY SamplesOfLeaf
  <1>2. \A s \in R : \E p \in members : \E n \in AdmittedRows(p) :
           s = <<p, n>> /\ IdOf(s) = <<p, rawRows[p][n]>>
    BY DEF RowsOfMembers, IdOf, SampleId
  <1>3. \A p \in members : \A n \in AdmittedRows(p) :
           <<p, n>> \in R /\ IdOf(<<p, n>>) = SampleId(p, rawRows[p][n])
    BY DEF RowsOfMembers, IdOf
  <1>4. \A s, t \in R : IdOf(s) = IdOf(t) => s = t
    <2> HIDE DEF R
    <2> QED BY <1>1, <1>2
  <1>5. T = {IdOf(s) : s \in R}
    <2>1. \A p \in members : \A n \in AdmittedRows(p) :
             SampleId(p, rawRows[p][n]) = <<p, rawRows[p][n]>>
      BY DEF SampleId
    <2>2. \A x : x \in T <=>
             \E p \in members : \E n \in AdmittedRows(p) : x = SampleId(p, rawRows[p][n])
      BY DEF SamplesOf
    <2> HIDE DEF R, T
    <2>3. ASSUME NEW x PROVE x \in T <=> \E s \in R : x = IdOf(s)
      <3>1. ASSUME x \in T PROVE \E s \in R : x = IdOf(s)
        <4>1. PICK p \in members : \E n \in AdmittedRows(p) : x = SampleId(p, rawRows[p][n])
          BY <2>2, <3>1
        <4>2. PICK n \in AdmittedRows(p) : x = SampleId(p, rawRows[p][n])
          BY <4>1
        <4>3. <<p, n>> \in R /\ IdOf(<<p, n>>) = x
          BY <1>3, <4>2
        <4> QED BY <4>3
      <3>2. ASSUME NEW s \in R, x = IdOf(s) PROVE x \in T
        <4>1. PICK p \in members : \E n \in AdmittedRows(p) :
                 s = <<p, n>> /\ IdOf(s) = <<p, rawRows[p][n]>>
          BY <1>2
        <4>2. PICK n \in AdmittedRows(p) : IdOf(s) = <<p, rawRows[p][n]>>
          BY <4>1
        <4> QED BY <2>1, <2>2, <3>2, <4>2
      <3> QED BY <3>1, <3>2
    <2> DEFINE V == {IdOf(s) : s \in R}
    <2>4. \A x : x \in V <=> \E s \in R : x = IdOf(s)
      OBVIOUS
    <2> HIDE DEF V
    <2>5. T = V
      BY <2>3, <2>4
    <2> QED BY <2>5 DEF V
  <1>6. IsFiniteSet(R)
    <2> DEFINE U == {{p} \X AdmittedRows(p) : p \in members}
               g == [p \in members |-> {p} \X AdmittedRows(p)]
    <2>1. IsFiniteSet(members)
      <3>1. members \in SUBSET (1 .. Len(Leaves)) /\ Len(Leaves) \in Nat
        BY TraceRowsAssumption
      <3>2. IsFiniteSet(1 .. Len(Leaves))
        BY <3>1, FS_Interval
      <3> QED BY <3>1, <3>2, FS_Subset
    <2>2. DOMAIN g = members /\ g = [p \in members |-> g[p]] /\ U = {g[p] : p \in members}
      OBVIOUS
    <2>3. \A p \in members : IsFiniteSet({p} \X AdmittedRows(p))
      BY <1>1, FS_Singleton, FS_Product
    <2>4. IsFiniteSet(U) /\ \A V \in U : IsFiniteSet(V)
      <3>1. \A V \in U : IsFiniteSet(V)
        BY <2>3
      <3> HIDE DEF U, g
      <3> QED BY <2>1, <2>2, <3>1, ImageOfFinite
    <2>5. R = UNION U
      BY DEF RowsOfMembers
    <2> HIDE DEF U, R
    <2> QED BY <2>4, <2>5, FS_UNION
  <1>7. DOMAIN f = R /\ f = [s \in R |-> f[s]] /\ T = {f[s] : s \in R}
        /\ \A s, t \in R : f[s] = f[t] => s = t
    BY <1>4, <1>5
  <1>8. Cardinality(T) = Cardinality(R)
    <2> HIDE DEF R, T, f
    <2> QED BY <1>6, <1>7, ImageOfFinite
  <1> QED BY <1>4, <1>8

LEMMA CohortKeeps ==
    ASSUME NormInv, ReviewInv, NEW members \in SUBSET DOMAIN Leaves, BuildCohort(members),
           UNCHANGED normVars
    PROVE  ReviewInv'
  <1> DEFINE whole == ~(Cardinality(members) < 2 \/ \E p \in members : ~NormalizedPass(p))
             pooled == UNION {SamplesOf(p) : p \in members}
  <1>1. /\ normPhase = "complete" /\ ReviewTypes /\ ConclusionsAreEarned
        /\ UNCHANGED <<rawRows, decisions, normStatus, normPhase, reviewed, unclaimed, scan,
                       attested, audits>>
    BY DEF BuildCohort, ReviewInv, normVars, leafVars
  <1>2. Cardinality(members) \in Nat
    <2>1. members \in SUBSET (1 .. Len(Leaves)) /\ Len(Leaves) \in Nat
      BY TraceRowsAssumption
    <2>2. IsFiniteSet(1 .. Len(Leaves))
      BY <2>1, FS_Interval
    <2> QED BY <2>1, <2>2, FS_Subset, FS_CardinalityType
  <1>3. whole => /\ ~\E s, t \in RowsOfMembers(members) : s # t /\ IdOf(s) = IdOf(t)
                 /\ Cardinality(pooled) = Cardinality(RowsOfMembers(members))
    BY SamplesOfMembers
  <1> HIDE DEF pooled
  <1>4. cohort' = IF whole THEN [members |-> members, samples |-> pooled, outcome |-> "published"]
                  ELSE [members |-> members, samples |-> {}, outcome |-> "refused"]
    BY <1>3 DEF BuildCohort, pooled
  <1>5. whole <=> Cardinality(members) >= 2 /\ \A p \in members : NormalizedPass(p)
    BY <1>2
  <1> HIDE DEF whole
  <1>6. /\ cohort'.members = members
        /\ cohort'.outcome = "published" <=> whole
        /\ whole => cohort'.samples = pooled
    BY <1>4
  <1>7. ConclusionsAreEarned'
    <2>1. /\ \A p : NormalizedPass(p)' <=> NormalizedPass(p)
          /\ RowsOfMembers(cohort.members)' = RowsOfMembers(members)
      BY <1>1, <1>6, EvidenceStands DEF RowsOfMembers
    <2>2. \A p \in DOMAIN Leaves :
             audits'[p] = "PASS" => attested'[p] = "PASS" /\ p \in TrustedLeaves /\ NormalizedPass(p)'
      BY <1>1, <2>1 DEF ConclusionsAreEarned
    <2>3. cohort'.outcome = "published" <=> /\ Cardinality(cohort'.members) >= 2
                                            /\ \A p \in cohort'.members : NormalizedPass(p)'
      BY <1>5, <1>6, <2>1
    <2>4. cohort'.outcome = "published" =>
             Cardinality(cohort'.samples) = Cardinality(RowsOfMembers(cohort.members)')
      BY <1>3, <1>6, <2>1
    <2> QED BY <2>2, <2>3, <2>4 DEF ConclusionsAreEarned
  <1>8. reviewed # 0 => ScanIsRight'
    BY <1>1, EvidenceStands DEF ReviewInv, ScanIsRight, ClaimedDigests, FirstDigests, Inspection,
                                ReferencePresent
  <1> QED BY <1>1, <1>7, <1>8, EvidenceStands DEF ReviewInv, ReviewTypes

LEMMA ReviewStartsRight == ASSUME NormalizationInit, ReviewInit PROVE ReviewInv
  BY DEF NormalizationInit, ReviewInit, ReviewInv, ReviewTypes, Untouched, ConclusionsAreEarned

LEMMA ReviewKeeps ==
    ASSUME NormInv, ReviewInv, [PipelineNext]_pipelineVars
    PROVE  ReviewInv'
  <1>1. CASE Normalize
    <2>1. CASE UNCHANGED <<normVars, reviewVars>>
      BY <2>1, ReviewStands
    <2>2. CASE HandOverProvenance
      BY <2>2, NothingConcluded DEF HandOverProvenance, StartNormalization
    <2>3. CASE NormalizationNext /\ UNCHANGED reviewVars
      BY <2>3, NothingConcluded DEF NormalizationNext, ReadTraceRow, Finalize, PublishDerived,
                                    PublishNormalization
    <2> QED BY <1>1, <2>1, <2>2, <2>3 DEF Normalize
  <1>2. CASE Review
    <2>1. job[2] \in DOMAIN Leaves /\ UNCHANGED normVars
      BY <1>2 DEF Review, Reviews
    <2> QED BY <1>2, <2>1, OpenKeeps, ScanKeeps, AttestKeeps, AuditKeeps DEF Review
  <1>3. CASE Cohort
    BY <1>3, CohortKeeps DEF Cohort
  <1>4. CASE UNCHANGED <<normVars, reviewVars>>
    BY <1>4, ReviewStands
  <1> QED BY <1>1, <1>2, <1>3, <1>4 DEF PipelineNext, Conclude, Recover, SplitAndDraw, EvaluateCase,
         Train, Teach, RunScript, pipelineVars, jobVars, dataVars

\* A leaf is attested PASS exactly when every one of its raw rows was admitted and is free of
\* gold, for any number of rows in any order: one that is refused or repeated makes it FAIL.
THEOREM PassesCoverEveryRow == PipelineSpec => []PassMeansEveryRawRow
  <1>1. PipelineInit => NormInv /\ ReviewInv
    BY NormStartsRight, ReviewStartsRight DEF PipelineInit
  <1>2. NormInv /\ ReviewInv /\ [PipelineNext]_pipelineVars => (NormInv /\ ReviewInv)'
    BY NormKeeps, ReviewKeeps
  <1>3. NormInv /\ ReviewInv => PassMeansEveryRawRow
    BY ReviewInvIsWhole
  <1> QED BY <1>1, <1>2, <1>3, PTL DEF PipelineSpec

\* No audit of gold exposure passes without a PASS attestation that a commit trusts, and a
\* cohort is refused for nothing but its members, and counts each of their samples once.
THEOREM ConclusionsEarned == PipelineSpec => []ConclusionsAreEarned
  <1>1. PipelineInit => NormInv /\ ReviewInv
    BY NormStartsRight, ReviewStartsRight DEF PipelineInit
  <1>2. NormInv /\ ReviewInv /\ [PipelineNext]_pipelineVars => (NormInv /\ ReviewInv)'
    BY NormKeeps, ReviewKeeps
  <1>3. NormInv /\ ReviewInv => ConclusionsAreEarned
    BY DEF ReviewInv
  <1> QED BY <1>1, <1>2, <1>3, PTL DEF PipelineSpec

-----------------------------------------------------------------------------
\* The canary workset

\* What a bounded cover of the items must be: some of them, within the bounds, and among
\* them one for every feature.
Covers(chosen, items, features, b) ==
    /\ chosen \subseteq items
    /\ \A x \in items : \A f \in features[x] : \E y \in chosen : f \in features[y]
    /\ Cardinality(chosen) \in b[1] .. b[2]

\* The first items are filled in one by one, so that the first fill that is large enough is
\* no larger than the minimum or than what had to be chosen.
LEMMA FilledWithinBounds ==
    ASSUME NEW items, NEW chosen, IsFiniteSet(chosen), NEW lo \in Nat, NEW hi \in Nat, lo <= hi,
           Cardinality(chosen) <= hi, NEW N \in Nat,
           NEW enough \in SUBSET (0 .. N), enough # {},
           \A n \in 0 .. N :
              n \in enough <=> n <= hi /\ Cardinality(Filled(items, chosen, n)) >= lo
    PROVE  Min(enough) \in 0 .. N /\ Cardinality(Filled(items, chosen, Min(enough))) \in lo .. hi
  <1> DEFINE least == Min(enough)
             size(n) == Cardinality(Filled(items, chosen, n))
  <1>1. enough \in SUBSET Nat
    OBVIOUS
  <1>2. least \in enough /\ \A n \in enough : least <= n
    BY <1>1, LeastOfNaturals
  <1>3. \A n \in Nat : IsFiniteSet(Filled(items, chosen, n)) /\ size(n) \in Nat
    <2> SUFFICES ASSUME NEW n \in Nat
                 PROVE  IsFiniteSet(Filled(items, chosen, n)) /\ size(n) \in Nat
      OBVIOUS
    <2> DEFINE f == [m \in 1 .. n |-> items[m]]
               T == {items[m] : m \in 1 .. n}
    <2>1. IsFiniteSet(1 .. n)
      BY FS_Interval
    <2>2. T = {f[m] : m \in 1 .. n} /\ DOMAIN f = 1 .. n /\ f = [m \in 1 .. n |-> f[m]]
      OBVIOUS
    <2>3. IsFiniteSet(T)
      <3> HIDE DEF f, T
      <3> QED BY <2>1, <2>2, ImageOfFinite
    <2>4. Filled(items, chosen, n) = chosen \cup T
      BY DEF Filled
    <2> HIDE DEF T
    <2> QED BY <2>3, <2>4, FS_Union, FS_CardinalityType
  <1>4. CASE least = 0
    <2>1. Filled(items, chosen, least) = chosen
      <3>1. 1 .. 0 = {}
        OBVIOUS
      <3> QED BY <1>4, <3>1 DEF Filled
    <2>2. least \in 0 .. N /\ size(least) >= lo /\ size(least) = Cardinality(chosen)
      BY <1>2, <2>1
    <2>3. Cardinality(chosen) \in Nat
      BY FS_CardinalityType
    <2> HIDE DEF least, size
    <2>4. size(least) \in lo .. hi
      BY <2>2, <2>3
    <2> QED BY <2>2, <2>4 DEF least, size
  <1>5. CASE least # 0
    <2> DEFINE before == least - 1
    <2>a. least \in 0 .. N /\ least <= hi /\ size(least) >= lo
      BY <1>2
    <2>b. \A n \in 0 .. N : n # 0 /\ n <= hi => n - 1 \in 0 .. N /\ n - 1 <= hi /\ n - 1 < n
      OBVIOUS
    <2>1. /\ least \in 0 .. N /\ least <= hi /\ size(least) >= lo
          /\ before \in 0 .. N /\ before <= hi /\ before < least
      <3> HIDE DEF least
      <3> QED BY <1>5, <2>a, <2>b
    <2>2. ~(before >= least)
      BY <2>1
    <2>3. before \notin enough
      BY <1>2, <2>1
    <2>4. size(before) < lo
      BY <1>3, <2>1, <2>3
    <2>5. Filled(items, chosen, least) = Filled(items, chosen, before) \cup {items[least]}
      <3>1. \A k \in Nat : k # 0 => 1 .. k = (1 .. k - 1) \cup {k}
        OBVIOUS
      <3>2. 1 .. least = (1 .. before) \cup {least}
        BY <1>5, <2>1, <3>1
      <3> HIDE DEF least, before
      <3> QED BY <3>2 DEF Filled
    <2>6. size(least) <= size(before) + 1
      <3> DEFINE A == Filled(items, chosen, before)
                 x == items[least]
      <3>1. IsFiniteSet(A) /\ Cardinality(A) \in Nat
        BY <1>3, <2>1
      <3> HIDE DEF A, x
      <3>2. Cardinality(A \cup {x}) <= Cardinality(A) + 1
        <4>1. CASE x \in A
          <5>1. A \cup {x} = A
            BY <4>1
          <5> QED BY <3>1, <5>1
        <4>2. CASE x \notin A
          <5>1. Cardinality(A \cup {x}) = Cardinality(A) + 1
            BY <3>1, <4>2, FS_AddElement
          <5> QED BY <3>1, <5>1
        <4> QED BY <4>1, <4>2
      <3> QED BY <2>5, <3>2 DEF A, x
    <2>7. size(least) \in Nat /\ size(before) \in Nat
      BY <1>3, <2>1
    <2> HIDE DEF least, before, size
    <2>8. size(least) \in lo .. hi
      BY <2>1, <2>4, <2>6, <2>7
    <2> QED BY <2>1, <2>8 DEF least, size
  <1> QED BY <1>4, <1>5

\* Whatever order the ids fall in, a cover that is not empty is one.
LEMMA CoverCovers ==
    ASSUME NEW S, IsFiniteSet(S), NEW items \in SetToSeqs(S), NEW features,
           NEW b, b[1] \in Nat, b[2] \in Nat, b[1] <= b[2],
           NEW C, C = BoundedCover(items, features, b[1], b[2]), C # {}
    PROVE  Covers(C, S, features, b)
  <1> DEFINE N == Cardinality(S)
             chosen == Chosen(items, features)
             enough == {n \in 0 .. N : n <= b[2] /\ Cardinality(Filled(items, chosen, n)) >= b[1]}
  <1>1. N \in Nat /\ items \in [1 .. N -> S] /\ \A i, j \in 1 .. N : i # j => items[i] # items[j]
    BY FS_CardinalityType DEF SetToSeqs
  <1>2. Len(items) = N /\ DOMAIN items = 1 .. N
    BY <1>1
  <1>3. S = {items[n] : n \in 1 .. N}
    <2>1. items \in Injection(1 .. N, S)
      BY <1>1 DEF Injection, IsInjective
    <2>2. Cardinality(1 .. N) = N
      BY <1>1, FS_Interval
    <2>3. items \in Surjection(1 .. N, S)
      BY <2>1, <2>2, FS_Injection
    <2> QED BY <2>3, <1>1 DEF Surjection
  <1>4. /\ Cardinality(chosen) <= b[2] \/ ~(Cardinality(chosen) \in Nat)
        /\ enough # {} /\ C = Filled(items, chosen, Min(enough))
    <2>1. enough = {n \in 0 .. Len(items) : /\ n <= b[2]
                                             /\ Cardinality(Filled(items, chosen, n)) >= b[1]}
      BY <1>2
    <2> HIDE DEF chosen
    <2>2. ~(Cardinality(chosen) > b[2]) /\ enough # {} /\ C = Filled(items, chosen, Min(enough))
      BY <2>1 DEF BoundedCover, chosen
    <2> QED BY <2>2
  <1>5. chosen \in SUBSET S
    BY <1>1, <1>2 DEF Chosen
  <1>6. IsFiniteSet(chosen) /\ Cardinality(chosen) \in Nat
    <2> HIDE DEF chosen
    <2> QED BY <1>5, FS_Subset, FS_CardinalityType
  <1>7. Min(enough) \in 0 .. N /\ Cardinality(C) \in b[1] .. b[2]
    <2>1. /\ enough \in SUBSET (0 .. N)
          /\ \A n \in 0 .. N :
                n \in enough <=> n <= b[2] /\ Cardinality(Filled(items, chosen, n)) >= b[1]
      OBVIOUS
    <2> HIDE DEF chosen, N, enough
    <2>2. /\ Min(enough) \in 0 .. N
          /\ Cardinality(Filled(items, chosen, Min(enough))) \in b[1] .. b[2]
      BY <1>1, <1>4, <1>6, <2>1, FilledWithinBounds
    <2> QED BY <1>4, <2>2
  <1>8. chosen \subseteq C /\ C \subseteq S
    <2>1. \A m \in 1 .. Min(enough) : items[m] \in S
      <3> HIDE DEF enough, N
      <3> QED BY <1>1, <1>7
    <2> HIDE DEF enough, chosen
    <2> QED BY <1>4, <1>5, <2>1 DEF Filled
  <1>9. ASSUME NEW x \in S, NEW f \in features[x] PROVE \E y \in chosen : f \in features[y]
    <2> DEFINE have == {m \in 1 .. N : f \in features[items[m]]}
    <2>1. have \in SUBSET Nat /\ have # {}
      BY <1>1, <1>3, <1>9
    <2>2. Min(have) \in have /\ \A m \in have : Min(have) <= m
      <3> HIDE DEF have
      <3> QED BY <2>1, LeastOfNaturals
    <2>3. PICK k \in have : \A m \in have : k <= m
      BY <2>2
    <2>4. \A l \in 1 .. k - 1 : f \notin features[items[l]]
      <3>1. \A l \in 1 .. k - 1 : l \in 1 .. N /\ ~(k <= l)
        BY <1>1, <2>3
      <3> QED BY <2>3, <3>1
    <2>5. items[k] \in chosen
      BY <1>2, <2>3, <2>4 DEF Chosen
    <2> QED BY <2>3, <2>5
  <1> HIDE DEF chosen
  <1> QED BY <1>7, <1>8, <1>9 DEF Covers

\* A row that is open has an identity that can be used: the index gave up at any other.
UsableOpen == recPhase # "failed" => \A n \in OpenPlaces : targetRead[n][2].usable

\* The controls among the first rows that are replayed
FoundUpTo(k) == {c \in controls : \E n \in 1 .. k : RefOf(n) = c.ref}

CandidateFeaturesOf == [x \in candidates |-> CandidateFeatures(x)]
RequestFeaturesOf == [x \in requests |-> RequestFeatures(x)]

SelectionCovers ==
    /\ Covers(controls, candidates, CandidateFeaturesOf, bounds)
    /\ Covers(evaluations, requests, RequestFeaturesOf, bounds)

\* A row of the rollout of a control, other than the one chosen, that cannot be replayed
AnotherClaims ==
    \E c \in controls, n \in DOMAIN targetRead :
        /\ <<targetRead[n][1], targetRead[n][2].rollout>> = <<c.ref.partition, c.ref.rollout>>
        /\ targetRead[n][2] # c.ref.row
        /\ NotReplayable(targetRead[n][2])

CanaryInv ==
    /\ UsableOpen
    /\ replayed \in 0 .. Len(targetRead)
    /\ canaryPhase = "waiting" => replayed = 0 /\ recovered = {}
    /\ canaryPhase # "waiting" => recPhase = "published"
    /\ canaryPhase \notin {"waiting", "unselected"} => SelectionCovers
    /\ canaryPhase = "replaying" => recovered = FoundUpTo(replayed)
    /\ canaryPhase \notin {"unrecovered", "strandedWorkset"}
    /\ canaryPhase = "unreplayable" => AnotherClaims

-----------------------------------------------------------------------------
\* Every candidate of a published recovery is of one place among the target rows, and open.
LEMMA PublishedTargets ==
    ASSUME RecoveryInv, recPhase = "published"
    PROVE  /\ IsFiniteSet(candidates) /\ IsFiniteSet(requests)
           /\ \A c \in candidates : \E n \in OpenPlaces :
                 c.ref = RefOf(n) /\ \A m \in DOMAIN targetRead : RefOf(m) = c.ref => m = n
  <1>1. RowsAreRead /\ IndexIsOfRows /\ RowsAreCounted /\ OutputsAreOfIndex /\ ChecksHold
    BY DEF RecoveryInv, Built
  <1>2. IsFiniteSet(candidates)
    BY <1>1, CandidatesAreCounted
  <1>3. IsFiniteSet(requests)
    <2> DEFINE g == [t \in Queued |-> RequestFor(t.key)]
    <2>1. requests = {g[t] : t \in Queued} /\ DOMAIN g = Queued /\ g = [t \in Queued |-> g[t]]
      BY <1>1, OutputsOfTargets
    <2>2. IsFiniteSet(Queued)
      BY <1>1, QueueIsCounted
    <2> HIDE DEF g
    <2> QED BY <2>1, <2>2, ImageOfFinite
  <1>4. ~Repeated
    BY <1>1, CountsAreRight DEF ChecksHold
  <1>5. OpenTargets = {RefOf(n) : n \in OpenPlaces}
    BY DEF OpenTargets, OpenPlaces, Open, RefOf
  <1>6. \A c \in candidates : c.ref \in OpenTargets
    BY <1>1, SettledOnce
  <1>7. \A n, m \in DOMAIN targetRead : RefOf(n) = RefOf(m) => targetRead[n] = targetRead[m]
    BY <1>1, TargetsByReference
  <1>8. OpenPlaces \subseteq DOMAIN targetRead
    BY DEF OpenPlaces
  <1>9. \A n \in OpenPlaces : \A m \in DOMAIN targetRead : RefOf(m) = RefOf(n) => m = n
    BY <1>4, <1>5, <1>7, <1>8 DEF Repeated
  <1> QED BY <1>2, <1>3, <1>5, <1>6, <1>9

\* A row that was open when it was indexed can be replayed.
LEMMA OpenIsReplayable ==
    ASSUME CanaryInv, recPhase = "published", NEW n \in OpenPlaces
    PROVE  ~NotReplayable(targetRead[n][2])
  BY CanaryAssumption DEF CanaryInv, UsableOpen, OpenPlaces, Open, Eligible, NotReplayable

LEMMA CanaryInvIsWhole ==
    ASSUME RecoveryInv, CanaryInv
    PROVE  WorksetIsWhole
  <1>1. ASSUME canaryPhase \in {"materialized", "workset"}
        PROVE  \A c \in controls :
                  Cardinality({n \in DOMAIN targetRead :
                                  targetRead[n] = <<c.ref.partition, c.ref.row>>}) = 1
    <2>1. RowsAreRead /\ recPhase = "published" /\ controls \subseteq candidates
      BY <1>1 DEF CanaryInv, RecoveryInv, SelectionCovers, Covers
    <2> SUFFICES ASSUME NEW c \in controls
                 PROVE  Cardinality({n \in DOMAIN targetRead :
                                        targetRead[n] = <<c.ref.partition, c.ref.row>>}) = 1
      OBVIOUS
    <2>2. PICK k \in OpenPlaces :
             c.ref = RefOf(k) /\ \A m \in DOMAIN targetRead : RefOf(m) = c.ref => m = k
      BY <2>1, PublishedTargets
    <2>3. k \in DOMAIN targetRead
      BY DEF OpenPlaces
    <2>4. \A n \in DOMAIN targetRead : targetRead[n] = <<targetRead[n][1], targetRead[n][2]>>
      BY <2>1, ReadsOfRows
    <2>5. c.ref.partition = targetRead[k][1] /\ c.ref.row = targetRead[k][2]
      BY <2>2 DEF RefOf, Reference
    <2>6. \A n \in DOMAIN targetRead :
             targetRead[n] = <<c.ref.partition, c.ref.row>> <=> n = k
      BY <2>2, <2>3, <2>4, <2>5 DEF RefOf
    <2>7. {n \in DOMAIN targetRead : targetRead[n] = <<c.ref.partition, c.ref.row>>} = {k}
      BY <2>3, <2>6
    <2> QED BY <2>7, FS_Singleton
  <1>2. ASSUME canaryPhase = "workset"
        PROVE  /\ UNION {CandidateFeatures(c) : c \in controls}
                     = UNION {CandidateFeatures(c) : c \in candidates}
               /\ UNION {RequestFeatures(r) : r \in evaluations}
                     = UNION {RequestFeatures(r) : r \in requests}
               /\ Cardinality(controls) \in bounds[1] .. bounds[2]
               /\ Cardinality(evaluations) \in bounds[1] .. bounds[2]
    <2>1. SelectionCovers
      BY <1>2 DEF CanaryInv
    <2>2. /\ controls \subseteq candidates /\ evaluations \subseteq requests
          /\ \A x \in candidates : \A f \in CandidateFeatures(x) :
                \E y \in controls : f \in CandidateFeatures(y)
          /\ \A x \in requests : \A f \in RequestFeatures(x) :
                \E y \in evaluations : f \in RequestFeatures(y)
      BY <2>1 DEF SelectionCovers, Covers, CandidateFeaturesOf, RequestFeaturesOf
    <2>3. UNION {CandidateFeatures(c) : c \in controls}
             = UNION {CandidateFeatures(c) : c \in candidates}
      BY <2>2
    <2>4. UNION {RequestFeatures(r) : r \in evaluations}
             = UNION {RequestFeatures(r) : r \in requests}
      BY <2>2
    <2> QED BY <2>1, <2>3, <2>4 DEF SelectionCovers, Covers
  <1> QED BY <1>1, <1>2 DEF CanaryInv, WorksetIsWhole, AnotherClaims

-----------------------------------------------------------------------------
\* The steps of the selection

LEMMA SelectKeeps ==
    ASSUME RecoveryInv, CanaryInv, NEW cs \in SetToSeqs(candidates), NEW rs \in SetToSeqs(requests),
           NEW b \in Bounds, SelectSources(cs, rs, b), UNCHANGED recVars
    PROVE  CanaryInv'
  <1> DEFINE C == BoundedCover(cs, CandidateFeaturesOf, b[1], b[2])
             R == BoundedCover(rs, RequestFeaturesOf, b[1], b[2])
  <1>1. /\ recPhase = "published" /\ canaryPhase = "waiting" /\ bounds' = b
        /\ UNCHANGED <<recPhase, targetRead, candidates, requests, replayed, recovered>>
        /\ replayed = 0 /\ recovered = {}
    BY DEF SelectSources, recVars, inputVars, outputVars, CanaryInv
  <1>2. IF C = {} \/ R = {}
        THEN canaryPhase' = "unselected" /\ UNCHANGED <<controls, evaluations>>
        ELSE canaryPhase' = "replaying" /\ controls' = C /\ evaluations' = R
    BY DEF SelectSources, CandidateFeaturesOf, RequestFeaturesOf
  <1>3. b[1] \in Nat /\ b[2] \in Nat /\ b[1] <= b[2]
    BY CanaryAssumption
  <1>4. IsFiniteSet(candidates) /\ IsFiniteSet(requests)
    BY <1>1, PublishedTargets
  <1>5. C # {} => Covers(C, candidates, CandidateFeaturesOf, b)
    <2> HIDE DEF CandidateFeaturesOf
    <2> QED BY <1>3, <1>4, CoverCovers
  <1>6. R # {} => Covers(R, requests, RequestFeaturesOf, b)
    BY <1>3, <1>4, CoverCovers
  <1> HIDE DEF C, R
  <1>7. CandidateFeaturesOf' = CandidateFeaturesOf /\ RequestFeaturesOf' = RequestFeaturesOf
    BY <1>1 DEF CandidateFeaturesOf, RequestFeaturesOf
  <1>8. canaryPhase' = "replaying" => SelectionCovers'
    BY <1>1, <1>2, <1>5, <1>6, <1>7 DEF SelectionCovers
  <1>9. FoundUpTo(replayed)' = {}
    <2>1. 1 .. 0 = {}
      OBVIOUS
    <2> QED BY <1>1, <2>1 DEF FoundUpTo
  <1>a. UsableOpen'
    BY <1>1 DEF CanaryInv, UsableOpen, OpenPlaces
  <1> QED BY <1>1, <1>2, <1>8, <1>9, <1>a DEF CanaryInv

LEMMA ReplayKeeps ==
    ASSUME RecoveryInv, CanaryInv, ReplayRow, UNCHANGED recVars
    PROVE  CanaryInv'
  <1> DEFINE n == replayed + 1
             row == targetRead[n][2]
             matching == {c \in controls : c.ref = RefOf(n)}
             skipped == <<targetRead[n][1], row.rollout>> \notin SelectedRollouts
             raises == ~skipped /\ (NotReplayable(row) \/ matching \cap recovered # {})
  <1>1. /\ canaryPhase = "replaying" /\ recPhase = "published" /\ SelectionCovers /\ UsableOpen
        /\ recovered = FoundUpTo(replayed) /\ RowsAreRead
        /\ UNCHANGED <<recPhase, targetRead, candidates, requests, bounds, controls, evaluations>>
    BY DEF ReplayRow, recVars, inputVars, outputVars, CanaryInv, RecoveryInv
  <1>2. /\ canaryPhase' = IF raises THEN "unreplayable" ELSE "replaying"
        /\ recovered' = IF raises THEN recovered ELSE recovered \cup matching
        /\ replayed' = n
    BY DEF ReplayRow, RefOf
  <1>3. n \in 0 .. Len(targetRead) /\ n \in DOMAIN targetRead /\ replayed \in Nat
    BY <1>1 DEF ReplayRow, CanaryInv, RowsAreRead
  <1>4. 1 .. n = 1 .. replayed \cup {n} /\ n \notin 1 .. replayed /\ 1 .. n \subseteq DOMAIN targetRead
    BY <1>1, <1>3 DEF RowsAreRead
  <1>5. \A c \in controls : \E k \in OpenPlaces :
           c.ref = RefOf(k) /\ \A m \in DOMAIN targetRead : RefOf(m) = c.ref => m = k
    BY <1>1, PublishedTargets DEF SelectionCovers, Covers
  <1>6. matching \cap recovered = {}
    <2> HIDE DEF n
    <2> QED BY <1>1, <1>3, <1>4, <1>5 DEF FoundUpTo
  <1>7. recovered \cup matching = FoundUpTo(n)
    <2> HIDE DEF n
    <2> QED BY <1>1, <1>4 DEF FoundUpTo
  <1>8. ASSUME raises PROVE AnotherClaims
    <2>1. PICK c \in controls :
             <<c.ref.partition, c.ref.rollout>> = <<targetRead[n][1], row.rollout>>
      BY <1>8 DEF SelectedRollouts
    <2>2. NotReplayable(row)
      BY <1>6, <1>8
    <2>3. PICK k \in OpenPlaces : c.ref = RefOf(k)
      BY <1>5
    <2>4. c.ref.row = targetRead[k][2] /\ ~NotReplayable(targetRead[k][2])
      BY <1>1, <2>3, OpenIsReplayable DEF RefOf, Reference
    <2> HIDE DEF n
    <2> QED BY <1>3, <2>1, <2>2, <2>4 DEF AnotherClaims
  <1> HIDE DEF n, raises, matching
  <1>9. FoundUpTo(replayed)' = FoundUpTo(n)
    BY <1>1, <1>2 DEF FoundUpTo, RefOf
  <1>a. SelectionCovers' /\ UsableOpen' /\ (AnotherClaims' <=> AnotherClaims)
    BY <1>1 DEF SelectionCovers, CandidateFeaturesOf, RequestFeaturesOf, UsableOpen, OpenPlaces,
                AnotherClaims
  <1> QED BY <1>1, <1>2, <1>3, <1>7, <1>8, <1>9, <1>a DEF CanaryInv

LEMMA ConcludeKeeps ==
    ASSUME RecoveryInv, CanaryInv, MaterializeCases \/ PublishCanaryWorkset, UNCHANGED recVars
    PROVE  CanaryInv'
  <1>1. /\ canaryPhase \in {"replaying", "materialized"} /\ recPhase = "published"
        /\ SelectionCovers /\ UsableOpen
        /\ UNCHANGED <<recPhase, targetRead, candidates, requests, bounds, controls, evaluations,
                       replayed, recovered>>
    BY DEF MaterializeCases, PublishCanaryWorkset, recVars, inputVars, outputVars, CanaryInv
  <1>2. canaryPhase' \in {"untasked", "materialized", "workset"}
    <2>1. CASE MaterializeCases
      <3>1. recovered = FoundUpTo(Len(targetRead)) /\ RowsAreRead
        BY <2>1 DEF MaterializeCases, CanaryInv, RecoveryInv
      <3>2. DOMAIN targetRead = 1 .. Len(targetRead)
        BY <3>1 DEF RowsAreRead
      <3>3. \A c \in controls : \E k \in OpenPlaces : c.ref = RefOf(k)
        BY <1>1, PublishedTargets DEF SelectionCovers, Covers
      <3>4. recovered = controls
        BY <3>1, <3>2, <3>3 DEF FoundUpTo, OpenPlaces
      <3> QED BY <2>1, <3>4 DEF MaterializeCases
    <2>2. CASE PublishCanaryWorkset
      BY <1>1, <2>2 DEF PublishCanaryWorkset, WorksetAccounting, SelectionCovers, Covers
    <2> QED BY <2>1, <2>2
  <1>3. SelectionCovers' /\ UsableOpen'
    BY <1>1 DEF SelectionCovers, CandidateFeaturesOf, RequestFeaturesOf, UsableOpen, OpenPlaces
  <1> QED BY <1>1, <1>2, <1>3 DEF CanaryInv

LEMMA CanaryStands == ASSUME CanaryInv, UNCHANGED recVars, UNCHANGED canaryVars PROVE CanaryInv'
  <1>1. /\ UNCHANGED <<recPhase, targetRead, candidates, requests>>
        /\ UNCHANGED <<canaryPhase, bounds, controls, evaluations, replayed, recovered>>
    BY DEF recVars, inputVars, outputVars, canaryVars
  <1>2. /\ SelectionCovers' <=> SelectionCovers
        /\ UsableOpen' <=> UsableOpen
        /\ AnotherClaims' <=> AnotherClaims
        /\ FoundUpTo(replayed)' = FoundUpTo(replayed)
    BY <1>1 DEF SelectionCovers, CandidateFeaturesOf, RequestFeaturesOf, UsableOpen, OpenPlaces,
                AnotherClaims, FoundUpTo, RefOf
  <1> QED BY <1>1, <1>2 DEF CanaryInv

\* Nothing of the selection is there while the recovery goes on; a row that is open but cannot
\* be used ends it.
LEMMA RecoveryUnderCanary ==
    ASSUME RecoveryInv, RecoveryInv', CanaryInv, RecoveryNext, UNCHANGED canaryVars
    PROVE  CanaryInv'
  <1>1. recPhase \notin {"published", "failed"}
    BY DEF RecoveryNext, IndexLabeled, IndexTarget, LabeledDone, MaterializeOutputs, CheckOutputs,
           PublishRecovery
  <1>2. canaryPhase = "waiting" /\ replayed = 0 /\ recovered = {} /\ UsableOpen
    BY <1>1 DEF CanaryInv
  <1>3. canaryPhase' = "waiting" /\ replayed' = 0 /\ recovered' = {}
    BY <1>2 DEF canaryVars
  <1>4. replayed' \in 0 .. Len(targetRead')
    <2>1. Len(targetRead') \in Nat
      BY DEF RecoveryInv, RowsAreRead
    <2> QED BY <1>3, <2>1
  <1>5. UsableOpen'
    <2>1. ASSUME NEW p \in TargetPartitions, NEW row \in TargetRows, IndexTarget(p, row)
          PROVE  UsableOpen'
      <3> SUFFICES ASSUME recPhase' # "failed", NEW n \in OpenPlaces'
                   PROVE  targetRead'[n][2].usable
        BY DEF UsableOpen
      <3>1. targetRead' = Append(targetRead, <<p, row>>) /\ RowsAreRead
        BY <2>1 DEF IndexTarget, RecoveryInv
      <3>2. ~Unreadable(row, Open(row))
        BY <2>1 DEF IndexTarget, Open
      <3>3. Open(row) => row.usable
        BY <3>2 DEF Unreadable, Open
      <3> DEFINE L == Len(targetRead)
      <3>4. /\ L \in Nat /\ DOMAIN targetRead = 1 .. L /\ DOMAIN targetRead' = 1 .. L + 1
            /\ targetRead'[L + 1] = <<p, row>>
            /\ \A m \in 1 .. L : targetRead'[m] = targetRead[m]
        BY <3>1 DEF RowsAreRead
      <3> HIDE DEF L
      <3>5. n \in 1 .. L + 1 /\ Open(targetRead'[n][2])
        BY <3>4 DEF OpenPlaces
      <3>6. CASE n = L + 1
        BY <3>3, <3>4, <3>5, <3>6
      <3>7. CASE n \in 1 .. L
        <4>1. n \in OpenPlaces /\ targetRead'[n] = targetRead[n]
          BY <3>4, <3>5, <3>7 DEF OpenPlaces
        <4> QED BY <1>1, <1>2, <4>1 DEF UsableOpen
      <3> QED BY <3>4, <3>5, <3>6, <3>7
    <2>2. ASSUME targetRead' = targetRead PROVE UsableOpen'
      BY <1>1, <1>2, <2>2 DEF UsableOpen, OpenPlaces
    <2> QED BY <2>1, <2>2 DEF RecoveryNext, IndexLabeled, LabeledDone, MaterializeOutputs,
                              CheckOutputs, PublishRecovery, inputVars
  <1> QED BY <1>3, <1>4, <1>5 DEF CanaryInv

LEMMA CanaryStartsRight == ASSUME RecoveryInit, CanaryInit PROVE CanaryInv
  <1>1. targetRead = <<>> /\ Len(targetRead) = 0 /\ OpenPlaces = {}
    BY DEF RecoveryInit, OpenPlaces
  <1> QED BY <1>1 DEF CanaryInit, CanaryInv, UsableOpen

\* In the pipeline a step of the recovery leaves the selection as it is, and the other way round.
LEMMA CanaryKeeps ==
    ASSUME RecoveryInv, CanaryInv, [PipelineNext]_pipelineVars
    PROVE  RecoveryInv' /\ CanaryInv'
  <1>1. \/ RecoveryNext /\ UNCHANGED canaryVars
        \/ CanaryNext /\ UNCHANGED recVars
        \/ UNCHANGED recVars /\ UNCHANGED canaryVars
    BY DEF PipelineNext, Normalize, Conclude, Review, Cohort, Recover, SplitAndDraw, EvaluateCase,
           Train, Teach, RunScript, pipelineVars, jobVars, dataVars
  <1>2. RecoveryInv'
    BY <1>1, RecoveryKeepsInv
  <1>3. CASE RecoveryNext /\ UNCHANGED canaryVars
    BY <1>2, <1>3, RecoveryUnderCanary
  <1>4. CASE CanaryNext /\ UNCHANGED recVars
    <2>1. ASSUME NEW c \in SetToSeqs(candidates), NEW r \in SetToSeqs(requests), NEW b \in Bounds,
                 SelectSources(c, r, b)
          PROVE  CanaryInv'
      BY <1>4, <2>1, SelectKeeps
    <2>2. CASE ReplayRow
      BY <1>2, <1>4, <2>2, ReplayKeeps
    <2>3. CASE MaterializeCases \/ PublishCanaryWorkset
      BY <1>2, <1>4, <2>3, ConcludeKeeps
    <2> QED BY <1>2, <1>4, <2>1, <2>2, <2>3 DEF CanaryNext
  <1> QED BY <1>1, <1>2, <1>3, <1>4, CanaryStands

\* For any rows, any bounds and any order of the ids: a published workset covers every stratum
\* of the candidates and of the requests within its bounds, its replay finds every control
\* again, exactly once, and only another row of the rollout of a control can make it give up.
THEOREM WorksetsAreWhole == PipelineSpec => []WorksetIsWhole
  <1>1. PipelineInit => RecoveryInv /\ CanaryInv
    BY RecoveryStartsRight, CanaryStartsRight DEF PipelineInit
  <1>2. (RecoveryInv /\ CanaryInv) /\ [PipelineNext]_pipelineVars => (RecoveryInv /\ CanaryInv)'
    BY CanaryKeeps
  <1>3. RecoveryInv /\ CanaryInv => WorksetIsWhole
    BY CanaryInvIsWhole
  <1> QED BY <1>1, <1>2, <1>3, PTL DEF PipelineSpec

-----------------------------------------------------------------------------
\* The manifest of a leaf

\* How MapThenSumSet adds up the values of a function: subset after subset
PartialSums(g) ==
    CHOOSE sum : sum = [s \in SUBSET DOMAIN g |->
                           IF s = {} THEN 0
                           ELSE g[CHOOSE x \in s : TRUE] + sum[s \ {CHOOSE x \in s : TRUE}]]

\* There are no more than four codes, so that the sum can be written out.
LEMMA SumOfAFew ==
    ASSUME NEW a, NEW b, NEW c, NEW d, a # b, a # c, a # d, b # c, b # d, c # d,
           NEW v \in [{a, b, c, d} -> Nat],
           NEW g, DOMAIN g \subseteq {a, b, c, d},
           \A x \in {a, b, c, d} : v[x] = IF x \in DOMAIN g THEN g[x] ELSE 0
    PROVE  PartialSums(g)[DOMAIN g] = v[a] + v[b] + v[c] + v[d]
  <1> DEFINE D == DOMAIN g
             T(x, s) == IF x \in s THEN v[x] ELSE 0
             total(s) == T(a, s) + T(b, s) + T(c, s) + T(d, s)
             some(s) == CHOOSE x \in s : TRUE
             Is(h) == h = [s \in SUBSET D |->
                              IF s = {} THEN 0 ELSE g[some(s)] + h[s \ {some(s)}]]
             iter == PartialSums(g)
             F == [s \in SUBSET D |-> total(s)]
  <1>1. \A s \in SUBSET D : s # {} => some(s) \in s
    OBVIOUS
  <1>2. total({}) = 0
    OBVIOUS
  <1>3. \A s \in SUBSET D : \A x \in s : total(s) = g[x] + total(s \ {x})
    <2> SUFFICES ASSUME NEW s \in SUBSET D, NEW x \in s PROVE total(s) = g[x] + total(s \ {x})
      OBVIOUS
    <2>1. x \in {a, b, c, d} /\ g[x] = v[x]
      OBVIOUS
    <2>2. \A y \in {a, b, c, d} : T(y, s) \in Nat /\ T(y, s \ {x}) \in Nat /\ v[y] \in Nat
      OBVIOUS
    <2>3. \A y \in {a, b, c, d} : y # x => T(y, s) = T(y, s \ {x})
      OBVIOUS
    <2>4. T(x, s) = v[x] /\ T(x, s \ {x}) = 0
      OBVIOUS
    <2> HIDE DEF T
    <2> QED BY <2>1, <2>2, <2>3, <2>4
  <1> HIDE DEF total, some
  <1>4. Is(F)
    <2>1. \A s \in SUBSET D : total(s) = IF s = {} THEN 0 ELSE g[some(s)] + F[s \ {some(s)}]
      BY <1>1, <1>2, <1>3
    <2> QED BY <2>1
  <1>5. iter = CHOOSE h : Is(h)
    BY DEF PartialSums, some
  <1> HIDE DEF Is, F
  <1>6. Is(iter)
    <2> HIDE DEF iter
    <2> QED BY <1>4, <1>5
  <1>7. iter[{}] = 0
    BY <1>6 DEF Is
  <1>8. \A s \in SUBSET D : s # {} => iter[s] = g[some(s)] + iter[s \ {some(s)}]
    BY <1>6 DEF Is
  <1> HIDE DEF iter
  <1>9. \A s \in SUBSET D :
           (\A x \in s : iter[s \ {x}] = total(s \ {x})) => iter[s] = total(s)
    <2> SUFFICES ASSUME NEW s \in SUBSET D, \A x \in s : iter[s \ {x}] = total(s \ {x})
                 PROVE  iter[s] = total(s)
      OBVIOUS
    <2>1. CASE s = {}
      BY <1>2, <1>7, <2>1
    <2>2. CASE s # {}
      <3>1. some(s) \in s /\ iter[s] = g[some(s)] + iter[s \ {some(s)}]
        BY <1>1, <1>8, <2>2
      <3>2. iter[s \ {some(s)}] = total(s \ {some(s)})
        BY <3>1
      <3>3. total(s) = g[some(s)] + total(s \ {some(s)})
        BY <1>3, <3>1
      <3> QED BY <3>1, <3>2, <3>3
    <2> QED BY <2>1, <2>2
  <1>a. \A s \in SUBSET D : s \subseteq {} => iter[s] = total(s)
    BY <1>9
  <1>b. \A x : \A s \in SUBSET D : s \subseteq {x} => iter[s] = total(s)
    <2>1. \A x : \A s \in SUBSET D : s \subseteq {x} => \A y \in s : s \ {y} \subseteq {}
      OBVIOUS
    <2> QED BY <1>9, <1>a, <2>1
  <1>c. \A x, y : \A s \in SUBSET D : s \subseteq {x, y} => iter[s] = total(s)
    <2>1. \A x, y : \A s \in SUBSET D : s \subseteq {x, y} =>
             \A z \in s : s \ {z} \subseteq {x} \/ s \ {z} \subseteq {y}
      OBVIOUS
    <2> QED BY <1>9, <1>b, <2>1
  <1>d. \A x, y, z : \A s \in SUBSET D : s \subseteq {x, y, z} => iter[s] = total(s)
    <2>1. \A x, y, z : \A s \in SUBSET D : s \subseteq {x, y, z} =>
             \A w \in s : \/ s \ {w} \subseteq {x, y} \/ s \ {w} \subseteq {y, z}
                          \/ s \ {w} \subseteq {x, z}
      OBVIOUS
    <2> QED BY <1>9, <1>c, <2>1
  <1>e. iter[D] = total(D)
    <2>1. \A w \in D : \/ D \ {w} \subseteq {a, b, c} \/ D \ {w} \subseteq {a, b, d}
                       \/ D \ {w} \subseteq {a, c, d} \/ D \ {w} \subseteq {b, c, d}
      OBVIOUS
    <2>2. D \in SUBSET D /\ \A w : D \ {w} \in SUBSET D
      OBVIOUS
    <2> HIDE DEF D
    <2> QED BY <1>9, <1>d, <2>1, <2>2
  <1>f. total(D) = v[a] + v[b] + v[c] + v[d]
    <2>1. \A x \in {a, b, c, d} : T(x, D) = v[x]
      OBVIOUS
    <2> HIDE DEF T
    <2> QED BY <2>1 DEF total
  <1> QED BY <1>e, <1>f DEF iter

RefusalCodes == {"unknown_resolution", "normalization_error", ConflictingRollout, DuplicateRow}

\* Why the rows of a leaf are refused
LEMMA CodesOfDecisions ==
    ASSUME LeafTypes, NEW p \in DOMAIN Leaves, DecidedRight(p), NEW n \in RowNumbers(p),
           NEW k, k = KeyAt(p, n)
    PROVE  /\ decisions[p][n].admitted <=>
                 k # NoKey /\ ~InConflict(p, k) /\ ValidWith(p, k) # {} /\ n = Min(RowsWith(p, k))
           /\ IF decisions[p][n].admitted THEN decisions[p][n].code = None
                                          ELSE decisions[p][n].code \in RefusalCodes
           /\ decisions[p][n].code = ConflictingRollout <=> k # NoKey /\ InConflict(p, k)
           /\ decisions[p][n].code = DuplicateRow <=>
                 k # NoKey /\ ~InConflict(p, k) /\ ValidWith(p, k) # {} /\ n # Min(RowsWith(p, k))
  <1> DEFINE code == OriginalCode(p, n)
  <1>1. decisions[p][n] = Decision(p, n)
    BY DEF DecidedRight
  <1>2. Normalizes(rawRows[p][n]) => k # NoKey /\ n \in ValidWith(p, k)
    BY DEF Normalizes, Acceptable, KeyAt, RolloutKey, NoKey, ValidWith, RowsWith
  <1>3. ~Normalizes(rawRows[p][n]) => code \in {"unknown_resolution", "normalization_error"}
    BY DEF OriginalCode, OriginalReason
  <1> HIDE DEF code
  <1>4. CASE k = NoKey
    <2>1. Decision(p, n) = [admitted |-> FALSE, code |-> code, cause |-> None]
      BY <1>4 DEF Decision, Refuse, code
    <2> QED BY <1>1, <1>2, <1>3, <1>4, <2>1 DEF RefusalCodes, ConflictingRollout, DuplicateRow
  <1>5. CASE k # NoKey /\ InConflict(p, k)
    <2>1. Decision(p, n) = [admitted |-> FALSE, code |-> ConflictingRollout, cause |-> code]
      BY <1>5 DEF Decision, Refuse, code
    <2> QED BY <1>1, <1>5, <2>1 DEF RefusalCodes, ConflictingRollout, DuplicateRow
  <1>6. CASE k # NoKey /\ ~InConflict(p, k) /\ ValidWith(p, k) = {}
    <2>1. Decision(p, n) = [admitted |-> FALSE, code |-> code, cause |-> None]
      BY <1>6 DEF Decision, Refuse, code
    <2> QED BY <1>1, <1>2, <1>3, <1>6, <2>1 DEF RefusalCodes, ConflictingRollout, DuplicateRow
  <1>7. CASE k # NoKey /\ ~InConflict(p, k) /\ ValidWith(p, k) # {}
    <2>1. Decision(p, n) = IF n = Min(RowsWith(p, k))
                           THEN [admitted |-> TRUE, code |-> None, cause |-> None]
                           ELSE [admitted |-> FALSE, code |-> DuplicateRow, cause |-> None]
      BY <1>7 DEF Decision, Refuse, Admit
    <2> QED BY <1>1, <1>7, <2>1 DEF RefusalCodes, ConflictingRollout, DuplicateRow, None
  <1> QED BY <1>4, <1>5, <1>6, <1>7

\* The rows of a key: at least one, and two of a key in conflict
LEMMA RowsOfAKey ==
    ASSUME LeafTypes, NEW p \in DOMAIN Leaves, NEW k \in KeysOf(p)
    PROVE  /\ k # NoKey /\ RowsWith(p, k) \subseteq RowNumbers(p)
           /\ \A n \in RowsWith(p, k) : KeyAt(p, n) = k
           /\ Min(RowsWith(p, k)) \in RowsWith(p, k)
           /\ InConflict(p, k) => \E n \in RowsWith(p, k) : n # Min(RowsWith(p, k))
  <1> DEFINE R == RowsWith(p, k)
             least == Min(R)
  <1>1. k # NoKey /\ R \subseteq RowNumbers(p) /\ R # {} /\ \A n \in R : KeyAt(p, n) = k
    BY DEF KeysOf, RowsWith
  <1>2. R \in SUBSET Nat
    BY <1>1, RowsOfLeaf
  <1>3. least \in R
    <2> HIDE DEF R
    <2> QED BY <1>1, <1>2, LeastOfNaturals
  <1>4. ASSUME \A n \in R : n = least PROVE ~InConflict(p, k)
    <2>1. R = {least}
      BY <1>3, <1>4
    <2> HIDE DEF least
    <2>2. DigestsOf(p, k) = {rawRows[p][least]}
      BY <2>1 DEF DigestsOf
    <2>3. Cardinality(DigestsOf(p, k)) = 1
      BY <2>2, FS_Singleton
    <2>4. ValidWith(p, k) \in {{}, R}
      BY <2>1 DEF ValidWith
    <2> QED BY <2>3, <2>4 DEF InConflict
  <1> QED BY <1>1, <1>3, <1>4

\* The projection never raises: a row that normalizes has a key, rows of two keys differ, and
\* rows that are the same have one sample id.
LEMMA NothingRaises ==
    ASSUME LeafTypes, NEW p \in DOMAIN Leaves
    PROVE  ~ProjectionRaises(p)
  <1>1. \A n \in RowNumbers(p) : Normalizes(rawRows[p][n]) => KeyAt(p, n) # NoKey
    BY DEF Normalizes, Acceptable, KeyAt, RolloutKey, NoKey
  <1>2. ASSUME NEW k \in KeysOf(p), NEW l \in KeysOf(p),
               NEW id \in SampleIdsOf(p, k) \cap SampleIdsOf(p, l)
        PROVE  k = l
    <2>1. PICK n \in ValidWith(p, k) : id = <<p, rawRows[p][n]>>
      BY <1>2 DEF SampleIdsOf, SampleId
    <2>2. PICK m \in ValidWith(p, l) : id = <<p, rawRows[p][m]>>
      BY <1>2 DEF SampleIdsOf, SampleId
    <2>3. rawRows[p][n] = rawRows[p][m]
      BY <2>1, <2>2
    <2>4. KeyAt(p, n) = k /\ KeyAt(p, m) = l
      BY DEF ValidWith, RowsWith
    <2> QED BY <2>3, <2>4 DEF KeyAt
  <1>3. ASSUME NEW k \in KeysOf(p), ValidWith(p, k) = RowsWith(p, k), Cardinality(DigestsOf(p, k)) = 1
        PROVE  Cardinality(SampleIdsOf(p, k)) = 1
    <2>1. PICK n \in RowsWith(p, k) : TRUE
      BY RowsOfAKey
    <2>2. IsFiniteSet(DigestsOf(p, k)) /\ \A m \in RowsWith(p, k) : rawRows[p][m] \in DigestsOf(p, k)
      <3>1. RowsWith(p, k) \in SUBSET RowNumbers(p)
        BY DEF RowsWith
      <3>2. IsFiniteSet({rawRows[p][m] : m \in RowsWith(p, k)})
        BY <3>1, DigestsAreFinite
      <3> QED BY <3>2 DEF DigestsOf
    <2>3. \A m \in RowsWith(p, k) : rawRows[p][m] = rawRows[p][n]
      BY <1>3, <2>2, FS_Singleton
    <2>4. SampleIdsOf(p, k) = {<<p, rawRows[p][n]>>}
      BY <1>3, <2>3 DEF SampleIdsOf, SampleId
    <2> QED BY <2>4, FS_Singleton
  <1> QED BY <1>1, <1>2, <1>3 DEF ProjectionRaises

\* What is counted of a leaf that is decided as its rows demand
LEMMA RowsAreSettled ==
    ASSUME LeafTypes, NEW p \in DOMAIN Leaves, DecidedRight(p),
           NEW refused, refused = RowNumbers(p) \ AdmittedRows(p)
    PROVE  /\ DOMAIN decisions[p] = RowNumbers(p) /\ AdmittedRows(p) \subseteq RowNumbers(p)
           /\ \A c \in RefusalCodes : /\ RefusedFor(p, c) \subseteq refused
                                      /\ IsFiniteSet(RefusedFor(p, c))
                                      /\ Cardinality(RefusedFor(p, c)) \in Nat
           /\ IsFiniteSet(refused) /\ IsFiniteSet(AdmittedRows(p))
           /\ Cardinality(refused) \in Nat /\ Cardinality(AdmittedRows(p)) \in Nat
           /\ Cardinality(AdmittedRows(p)) + Cardinality(refused) = Len(rawRows[p])
  <1>1. DOMAIN decisions[p] = RowNumbers(p) /\ AdmittedRows(p) \subseteq RowNumbers(p)
    BY DEF DecidedRight, AdmittedRows
  <1>2. \A c \in RefusalCodes : RefusedFor(p, c) \subseteq refused
    <2>1. None \notin RefusalCodes
      BY DEF None, RefusalCodes, ConflictingRollout, DuplicateRow
    <2> QED BY <1>1, <2>1, CodesOfDecisions DEF RefusedFor, AdmittedRows
  <1>3. IsFiniteSet(AdmittedRows(p)) /\ IsFiniteSet(refused)
    BY <1>1, RowsOfLeaf, FS_Subset
  <1>4. AdmittedRows(p) \cap refused = {} /\ AdmittedRows(p) \cup refused = RowNumbers(p)
    BY <1>1
  <1>5. Cardinality(AdmittedRows(p)) + Cardinality(refused) = Cardinality(RowNumbers(p))
    BY <1>3, <1>4, DisjointUnion
  <1>6. \A c \in RefusalCodes : /\ IsFiniteSet(RefusedFor(p, c))
                                /\ Cardinality(RefusedFor(p, c)) \in Nat
    BY <1>2, <1>3, FS_Subset, FS_CardinalityType
  <1> QED BY <1>1, <1>2, <1>3, <1>5, <1>6, RowsOfLeaf, FS_CardinalityType

\* The counts of the codes add up to the rows that are refused.
LEMMA CodesAddUp ==
    ASSUME LeafTypes, NEW p \in DOMAIN Leaves, DecidedRight(p),
           NEW n, n = NormalizationCounts(p)
    PROVE  /\ PartialSums(n.by_code)[DOMAIN n.by_code] = n.rejected
           /\ \A code \in RefusalCodes : CodeCount(n, code) = Cardinality(RefusedFor(p, code))
  <1> DEFINE refused == RowNumbers(p) \ AdmittedRows(p)
             codes == {decisions[p][m].code : m \in refused}
             A == RefusedFor(p, "unknown_resolution")
             B == RefusedFor(p, "normalization_error")
             C == RefusedFor(p, ConflictingRollout)
             D == RefusedFor(p, DuplicateRow)
             v == [code \in RefusalCodes |-> Cardinality(RefusedFor(p, code))]
  <1>1. /\ DOMAIN decisions[p] = RowNumbers(p) /\ AdmittedRows(p) \subseteq RowNumbers(p)
        /\ \A c \in RefusalCodes : /\ RefusedFor(p, c) \subseteq refused
                                   /\ IsFiniteSet(RefusedFor(p, c))
                                   /\ Cardinality(RefusedFor(p, c)) \in Nat
    BY RowsAreSettled
  <1>2. \A m \in refused : decisions[p][m].code \in RefusalCodes
    BY <1>1, CodesOfDecisions DEF AdmittedRows
  <1>3. /\ n.by_code = [code \in codes |-> Cardinality(RefusedFor(p, code))]
        /\ n.rejected = Cardinality(refused)
    BY <1>1 DEF NormalizationCounts
  <1>4. codes \subseteq RefusalCodes
    BY <1>2
  <1>5. \A code \in RefusalCodes \ codes : RefusedFor(p, code) = {}
    BY <1>1 DEF RefusedFor
  <1>6. \A code \in RefusalCodes : /\ v[code] \in Nat
                                   /\ v[code] = IF code \in DOMAIN n.by_code THEN n.by_code[code] ELSE 0
    <2> HIDE DEF codes
    <2> QED BY <1>1, <1>3, <1>5, FS_EmptySet
  <1>7. refused = ((A \cup B) \cup C) \cup D
    BY <1>1, <1>2 DEF RefusalCodes, RefusedFor
  <1>8. A \cap B = {} /\ (A \cup B) \cap C = {} /\ ((A \cup B) \cup C) \cap D = {}
    BY DEF RefusedFor, ConflictingRollout, DuplicateRow
  <1>9. IsFiniteSet(A) /\ IsFiniteSet(B) /\ IsFiniteSet(C) /\ IsFiniteSet(D)
    BY <1>1 DEF RefusalCodes
  <1>a. Cardinality(refused) = Cardinality(A) + Cardinality(B) + Cardinality(C) + Cardinality(D)
    <2> HIDE DEF A, B, C, D, refused
    <2>1. IsFiniteSet(A \cup B) /\ Cardinality(A \cup B) = Cardinality(A) + Cardinality(B)
      BY <1>8, <1>9, DisjointUnion
    <2>2. /\ IsFiniteSet((A \cup B) \cup C)
          /\ Cardinality((A \cup B) \cup C) = Cardinality(A \cup B) + Cardinality(C)
      BY <1>8, <1>9, <2>1, DisjointUnion
    <2>3. Cardinality(((A \cup B) \cup C) \cup D) = Cardinality((A \cup B) \cup C) + Cardinality(D)
      BY <1>8, <1>9, <2>2, DisjointUnion
    <2> QED BY <1>7, <2>1, <2>2, <2>3
  <1>b. PartialSums(n.by_code)[DOMAIN n.by_code]
           = v["unknown_resolution"] + v["normalization_error"] + v[ConflictingRollout]
                + v[DuplicateRow]
    <2> DEFINE x == "unknown_resolution"
               y == "normalization_error"
               g == n.by_code
    <2>1. RefusalCodes = {x, y, ConflictingRollout, DuplicateRow}
      BY DEF RefusalCodes
    <2>2. /\ x # y /\ x # ConflictingRollout /\ x # DuplicateRow
          /\ y # ConflictingRollout /\ y # DuplicateRow /\ ConflictingRollout # DuplicateRow
      BY DEF ConflictingRollout, DuplicateRow
    <2>3. v \in [RefusalCodes -> Nat]
      BY <1>6
    <2>4. \A code \in RefusalCodes : v[code] = IF code \in DOMAIN g THEN g[code] ELSE 0
      BY <1>6
    <2>5. DOMAIN g \subseteq RefusalCodes
      BY <1>3, <1>4
    <2> HIDE DEF v, x, y, g
    <2>6. PartialSums(g)[DOMAIN g] = v[x] + v[y] + v[ConflictingRollout] + v[DuplicateRow]
      BY <2>1, <2>2, <2>3, <2>4, <2>5, SumOfAFew
    <2> QED BY <2>6 DEF x, y, g
  <1>c. /\ v["unknown_resolution"] = Cardinality(A) /\ v["normalization_error"] = Cardinality(B)
        /\ v[ConflictingRollout] = Cardinality(C) /\ v[DuplicateRow] = Cardinality(D)
    BY DEF RefusalCodes
  <1>d. PartialSums(n.by_code)[DOMAIN n.by_code] = n.rejected
    <2> HIDE DEF A, B, C, D, refused, v
    <2> QED BY <1>3, <1>a, <1>b, <1>c
  <1>e. \A code \in RefusalCodes : CodeCount(n, code) = Cardinality(RefusedFor(p, code))
    <2>1. \A code \in RefusalCodes : v[code] = Cardinality(RefusedFor(p, code))
      OBVIOUS
    <2> HIDE DEF v
    <2> QED BY <1>6, <2>1 DEF CodeCount
  <1> QED BY <1>d, <1>e

\* Admitted rows are of different keys, none of them in conflict; a key in conflict has two rows.
LEMMA KeysAreCounted ==
    ASSUME LeafTypes, NEW p \in DOMAIN Leaves, DecidedRight(p)
    PROVE  /\ Cardinality(KeysOf(p)) \in Nat /\ Cardinality(ConflictingKeys(p)) \in Nat
           /\ Cardinality(KeysOf(p)) <= Len(rawRows[p])
           /\ Cardinality(AdmittedRows(p)) + Cardinality(ConflictingKeys(p)) <= Cardinality(KeysOf(p))
           /\ Cardinality(RefusedFor(p, ConflictingRollout)) >= 2 * Cardinality(ConflictingKeys(p))
           /\ RefusedFor(p, DuplicateRow) # {} => AdmittedRows(p) # {}
  <1> DEFINE N == RowNumbers(p)
             K == KeysOf(p)
             X == ConflictingKeys(p)
             A == AdmittedRows(p)
             key == [n \in N |-> KeyAt(p, n)]
             taken == [n \in A |-> KeyAt(p, n)]
             first == [k \in X |-> Min(RowsWith(p, k))]
             other == [k \in X |-> CHOOSE n \in RowsWith(p, k) : n # Min(RowsWith(p, k))]
             T == {key[n] : n \in N}
             Y == {taken[n] : n \in A}
             F == {first[k] : k \in X}
             O == {other[k] : k \in X}
  <1>1. /\ DOMAIN decisions[p] = N /\ A \subseteq N /\ IsFiniteSet(A) /\ Cardinality(A) \in Nat
        /\ IsFiniteSet(N) /\ Cardinality(N) = Len(rawRows[p])
        /\ IsFiniteSet(RefusedFor(p, ConflictingRollout))
        /\ Cardinality(RefusedFor(p, ConflictingRollout)) \in Nat
    BY RowsAreSettled, RowsOfLeaf DEF RefusalCodes
  <1>2. /\ DOMAIN key = N /\ key = [n \in N |-> key[n]]
        /\ DOMAIN taken = A /\ taken = [n \in A |-> taken[n]]
        /\ DOMAIN first = X /\ first = [k \in X |-> first[k]]
        /\ DOMAIN other = X /\ other = [k \in X |-> other[k]]
    OBVIOUS
  <1>3. K \subseteq T /\ \A n \in N : KeyAt(p, n) # NoKey => KeyAt(p, n) \in K
    BY DEF KeysOf
  <1>4. /\ IsFiniteSet(T) /\ Cardinality(T) \in Nat /\ Cardinality(T) <= Cardinality(N)
        /\ Cardinality(N) \in Nat
    <2> HIDE DEF N, T, key
    <2> QED BY <1>1, <1>2, ImageOfFinite DEF T
  <1>5. IsFiniteSet(K) /\ Cardinality(K) \in Nat /\ Cardinality(K) <= Cardinality(T)
    <2> HIDE DEF T, K
    <2> QED BY <1>3, <1>4, FS_Subset, FS_CardinalityType
  <1>6. X \subseteq K /\ IsFiniteSet(X) /\ Cardinality(X) \in Nat
    <2>1. X \subseteq K
      BY DEF ConflictingKeys
    <2> HIDE DEF X, K
    <2> QED BY <2>1, <1>5, FS_Subset, FS_CardinalityType
  <1>7. \A n \in A : /\ KeyAt(p, n) \in K /\ ~InConflict(p, KeyAt(p, n))
                     /\ n = Min(RowsWith(p, KeyAt(p, n)))
    BY <1>1, <1>3, CodesOfDecisions DEF AdmittedRows
  <1>8. Cardinality(Y) = Cardinality(A) /\ IsFiniteSet(Y)
    <2>1. \A n, m \in A : taken[n] = taken[m] => n = m
      BY <1>7
    <2> HIDE DEF A, Y, taken
    <2> QED BY <1>1, <1>2, <2>1, ImageOfFinite DEF Y
  <1>9. Y \cap X = {} /\ Y \cup X \subseteq K
    BY <1>6, <1>7 DEF ConflictingKeys
  <1>a. Cardinality(A) + Cardinality(X) <= Cardinality(K)
    <2> HIDE DEF A, X, Y, K
    <2>1. Cardinality(Y \cup X) = Cardinality(Y) + Cardinality(X) /\ IsFiniteSet(Y \cup X)
      BY <1>6, <1>8, <1>9, DisjointUnion
    <2>2. Cardinality(Y \cup X) <= Cardinality(K)
      BY <1>5, <1>9, FS_Subset
    <2> QED BY <1>8, <2>1, <2>2
  <1>b. \A k \in X : /\ first[k] \in N /\ other[k] \in N /\ other[k] # first[k]
                     /\ KeyAt(p, first[k]) = k /\ KeyAt(p, other[k]) = k
                     /\ k # NoKey /\ InConflict(p, k)
    <2> SUFFICES ASSUME NEW k \in X
                 PROVE  /\ first[k] \in N /\ other[k] \in N /\ other[k] # first[k]
                        /\ KeyAt(p, first[k]) = k /\ KeyAt(p, other[k]) = k
                        /\ k # NoKey /\ InConflict(p, k)
      OBVIOUS
    <2>1. k \in K /\ InConflict(p, k)
      BY DEF ConflictingKeys
    <2>2. /\ k # NoKey /\ RowsWith(p, k) \subseteq N /\ \A n \in RowsWith(p, k) : KeyAt(p, n) = k
          /\ Min(RowsWith(p, k)) \in RowsWith(p, k)
          /\ \E n \in RowsWith(p, k) : n # Min(RowsWith(p, k))
      BY <2>1, RowsOfAKey
    <2>3. other[k] \in RowsWith(p, k) /\ other[k] # Min(RowsWith(p, k))
      BY <2>2
    <2> QED BY <2>1, <2>2, <2>3
  <1>c. F \cup O \subseteq RefusedFor(p, ConflictingRollout)
    <2>1. \A n \in N : KeyAt(p, n) \in X => n \in RefusedFor(p, ConflictingRollout)
      BY <1>1, <1>b, CodesOfDecisions DEF RefusedFor
    <2> HIDE DEF first, other, N, X
    <2> QED BY <1>b, <2>1
  <1>d. /\ F \cap O = {}
        /\ \A k, l \in X : (first[k] = first[l] => k = l) /\ (other[k] = other[l] => k = l)
    <2> HIDE DEF first, other, N, X
    <2> QED BY <1>b
  <1>e. /\ Cardinality(F) = Cardinality(X) /\ IsFiniteSet(F)
        /\ Cardinality(O) = Cardinality(X) /\ IsFiniteSet(O)
    <2> HIDE DEF first, other, X, F, O
    <2> QED BY <1>2, <1>6, <1>d, ImageOfFinite DEF F, O
  <1>f. Cardinality(RefusedFor(p, ConflictingRollout)) >= 2 * Cardinality(X)
    <2> HIDE DEF F, O, X
    <2>1. Cardinality(F \cup O) = Cardinality(F) + Cardinality(O) /\ IsFiniteSet(F \cup O)
      BY <1>d, <1>e, DisjointUnion
    <2>2. Cardinality(F \cup O) <= Cardinality(RefusedFor(p, ConflictingRollout))
      BY <1>1, <1>c, FS_Subset
    <2> QED BY <1>1, <1>6, <1>e, <2>1, <2>2
  <1>g. ASSUME NEW n \in RefusedFor(p, DuplicateRow) PROVE A # {}
    <2> DEFINE k == KeyAt(p, n)
               least == Min(RowsWith(p, k))
    <2>1. n \in N /\ k # NoKey /\ ~InConflict(p, k) /\ ValidWith(p, k) # {}
      BY <1>1, CodesOfDecisions DEF RefusedFor
    <2>2. least \in N /\ KeyAt(p, least) = k
      <3> HIDE DEF k
      <3> QED BY <1>3, <2>1, RowsOfAKey DEF k
    <2> HIDE DEF k, least
    <2>3. decisions[p][least].admitted
      BY <2>1, <2>2, CodesOfDecisions DEF least
    <2> QED BY <1>1, <2>2, <2>3 DEF AdmittedRows
  <1> HIDE DEF N, K, X, A, T
  <1>h. Cardinality(K) <= Len(rawRows[p])
    BY <1>1, <1>4, <1>5
  <1> QED BY <1>5, <1>6, <1>a, <1>f, <1>g, <1>h DEF K, X, A

\* The manifest of a decided leaf always validates.
LEMMA ManifestAlwaysHolds ==
    ASSUME LeafTypes, NEW p \in DOMAIN Leaves, DecidedRight(p), NEW n, n = NormalizationCounts(p)
    PROVE  NormalizationManifestHolds(n) /\ n.input = n.accepted + n.rejected
  <1>1. /\ n.input = Len(rawRows[p]) /\ n.accepted = Cardinality(AdmittedRows(p))
        /\ n.rejected = Cardinality(RowNumbers(p) \ AdmittedRows(p))
        /\ n.unique_keys = Cardinality(KeysOf(p))
        /\ n.duplicates = Cardinality(RefusedFor(p, DuplicateRow))
        /\ n.conflicting_keys = Cardinality(ConflictingKeys(p))
        /\ n.conflicting_rows = Cardinality(RefusedFor(p, ConflictingRollout))
    BY RowsAreSettled DEF NormalizationCounts
  <1>2. /\ n.accepted \in Nat /\ n.rejected \in Nat /\ n.accepted + n.rejected = n.input
        /\ n.duplicates \in Nat /\ n.conflicting_rows \in Nat
    BY <1>1, RowsAreSettled DEF RefusalCodes
  <1>3. PartialSums(n.by_code)[DOMAIN n.by_code] = n.rejected
    BY CodesAddUp
  <1>4. /\ n.duplicates = CodeCount(n, DuplicateRow)
        /\ n.conflicting_rows = CodeCount(n, ConflictingRollout)
    BY <1>1, CodesAddUp DEF RefusalCodes
  <1>5. /\ n.unique_keys <= n.input /\ n.accepted + n.conflicting_keys <= n.unique_keys
        /\ n.conflicting_rows >= 2 * n.conflicting_keys
    BY <1>1, KeysAreCounted
  <1>6. n.duplicates > 0 => n.accepted > 0
    <2>1. n.duplicates > 0 => RefusedFor(p, DuplicateRow) # {}
      BY <1>1, RowsAreSettled, FS_EmptySet DEF RefusalCodes
    <2>2. AdmittedRows(p) # {} => n.accepted # 0
      BY <1>1, RowsAreSettled, FS_EmptySet
    <2> QED BY <1>2, <2>1, <2>2, KeysAreCounted
  <1>7. n.input = n.accepted + n.rejected
    BY <1>2
  <1> QED BY <1>2, <1>3, <1>4, <1>5, <1>6, <1>7
          DEF NormalizationManifestHolds, MapThenSumSet, MapThenFoldSet, PartialSums

-----------------------------------------------------------------------------
\* Nothing is stranded

\* A leaf fails for having no rows, and the manifest of a decided one validates.
NormSound == normPhase # "stranded" /\ (normPhase = "failed" => rawRows[leaf] = <<>>)

LEMMA NormStaysSound ==
    ASSUME NormInv, NormSound, [PipelineNext]_pipelineVars
    PROVE  NormSound'
  <1>1. LeafTypes /\ leaf \in DOMAIN Leaves
    BY DEF NormInv, LeafTypes
  <1>2. CASE Finalize
    BY <1>1, <1>2, NothingRaises DEF Finalize, NormSound
  <1>3. CASE PublishDerived
    <2>1. normPhase = "classified" /\ DecidedRight(leaf)
      BY <1>1, <1>3 DEF PublishDerived, NormInv
    <2> DEFINE n == NormalizationCounts(leaf)
    <2>2. n.input = n.accepted + n.rejected
      BY <1>1, <2>1, ManifestAlwaysHolds
    <2>3. normPhase' = IF n.input = n.accepted + n.rejected THEN "derived" ELSE "failed"
      BY <1>3 DEF PublishDerived
    <2> HIDE DEF n
    <2> QED BY <2>2, <2>3 DEF NormSound
  <1>4. CASE PublishNormalization
    <2>1. normPhase = "derived" /\ DecidedRight(leaf)
      BY <1>1, <1>4 DEF PublishNormalization, NormInv
    <2>2. NormalizationManifestHolds(NormalizationCounts(leaf))
      BY <1>1, <2>1, ManifestAlwaysHolds
    <2>3. normPhase' \in {"reading", "complete"}
      BY <1>4, <2>2 DEF PublishNormalization
    <2> QED BY <2>3 DEF NormSound
  <1>5. ASSUME NEW row \in TraceRows, ReadTraceRow(row) PROVE NormSound'
    BY <1>5 DEF ReadTraceRow, NormSound
  <1>6. CASE StartNormalization(Admitted)
    BY <1>6 DEF StartNormalization, NormSound
  <1>7. CASE UNCHANGED normVars
    BY <1>7 DEF normVars, leafVars, NormSound
  <1>8. \/ StartNormalization(Admitted) \/ NormalizationNext \/ UNCHANGED normVars
    BY DEF PipelineNext, Normalize, HandOverProvenance, Conclude, Review, Cohort, Recover, SplitAndDraw,
           EvaluateCase, Train, Teach, RunScript, OpenReview, ScanRow, Attest, AuditGold, BuildCohort,
           pipelineVars, jobVars, dataVars
  <1> QED BY <1>2, <1>3, <1>4, <1>5, <1>6, <1>7, <1>8 DEF NormalizationNext

\* For any rows and provenance, the validation of a manifest over published artifacts never
\* fails, in any of the commands, and a normalization only gives up on a leaf without rows.
THEOREM NoArtifactIsStranded == PipelineSpec => []NothingIsStranded
  <1> DEFINE Inv == NormInv /\ NormSound /\ ReviewInv /\ RecoveryInv /\ CanaryInv
  <1>1. PipelineInit => Inv
    BY NormStartsRight, ReviewStartsRight, RecoveryStartsRight, CanaryStartsRight
       DEF PipelineInit, NormalizationInit, NormSound
  <1>2. Inv /\ [PipelineNext]_pipelineVars => Inv'
    BY NormKeeps, NormStaysSound, ReviewKeeps, CanaryKeeps
  <1>3. Inv => NothingIsStranded
    BY DEF NormSound, ReviewInv, ReviewTypes, RecoveryInv, CanaryInv, NothingIsStranded
  <1> QED BY <1>1, <1>2, <1>3, PTL DEF PipelineSpec

-----------------------------------------------------------------------------
\* The split and the pilot

\* What the walks have left behind: every alias that is resolved has the end of its target,
\* which is no alias.
AliasesInOrder ==
    /\ IsFiniteSet(DOMAIN direct) /\ DOMAIN direct \subseteq Repos
    /\ DOMAIN resolved \subseteq DOMAIN direct
    /\ \A a \in DOMAIN resolved :
          /\ direct[a] \in DOMAIN direct => direct[a] \in DOMAIN resolved
          /\ resolved[a] = Resolve(direct[a]) /\ resolved[a] \notin DOMAIN direct

\* The aliases on the way follow one another.
WalkInOrder ==
    /\ path \in Seq(Unresolved) /\ Len(path) # 0
    /\ \A n \in 1 .. Len(path) : n # Len(path) => direct[path[n]] = path[n + 1]

PilotInv ==
    /\ AliasesInOrder
    /\ splitPhase = "walking" => WalkInOrder
    /\ splitPhase = "aliases" => DOMAIN resolved = {}
    /\ splitPhase \in {"samples", "split", "overlap", "pilot", "FAIL"} =>
          DOMAIN resolved = DOMAIN direct
    /\ splitPhase \in {"split", "overlap", "pilot", "FAIL"} => DOMAIN split = ResolvedRepositories
    /\ population \in Seq(PilotSamples)
    /\ pilot # {} => splitPhase = "pilot"
    /\ \A n \in pilot : n \in DOMAIN population /\ Distinct(n)

-----------------------------------------------------------------------------
\* The end of a chain

IsChain(at, a, N) ==
    at = [k \in 0 .. N |-> IF k = 0 THEN a
                           ELSE IF at[k - 1] \in DOMAIN direct THEN direct[at[k - 1]] ELSE at[k - 1]]

\* A chain of any length can be followed, since one that is shorter can.
LEMMA ChainsExist == ASSUME NEW a, NEW N \in Nat PROVE \E at : IsChain(at, a, N)
  <1> DEFINE S == {n \in Nat : ~\E at : IsChain(at, a, n)}
  <1> SUFFICES ASSUME S # {} PROVE FALSE
    OBVIOUS
  <1>1. Min(S) \in S /\ \A n \in S : Min(S) <= n
    <2>1. S \in SUBSET Nat
      OBVIOUS
    <2> HIDE DEF S
    <2> QED BY <2>1, LeastOfNaturals
  <1>2. PICK m \in S : \A n \in S : m <= n
    BY <1>1
  <1>3. CASE m = 0
    <2> DEFINE at == [k \in 0 .. m |-> a]
    <2>1. IsChain(at, a, m)
      BY <1>3 DEF IsChain
    <2> HIDE DEF at
    <2> QED BY <2>1, <1>2
  <1>4. CASE m # 0
    <2>1. m \in Nat /\ m - 1 \in Nat /\ ~(m <= m - 1)
      BY <1>2, <1>4
    <2>2. PICK f : IsChain(f, a, m - 1)
      BY <1>2, <2>1
    <2> DEFINE next(x) == IF x \in DOMAIN direct THEN direct[x] ELSE x
               at == [k \in 0 .. m |-> IF k = m THEN next(f[m - 1]) ELSE f[k]]
    <2>3. \A k \in 0 .. m - 1 : f[k] = IF k = 0 THEN a ELSE next(f[k - 1])
      BY <2>2 DEF IsChain
    <2>4. \A k \in 0 .. m : k # m => k \in 0 .. m - 1
      BY <2>1
    <2>5. \A k \in 0 .. m : k # 0 => k - 1 \in 0 .. m /\ k - 1 # m
      BY <2>1
    <2> HIDE DEF next
    <2>6. \A k \in 0 .. m : at[k] = IF k = 0 THEN a ELSE next(at[k - 1])
      <3> SUFFICES ASSUME NEW k \in 0 .. m PROVE at[k] = IF k = 0 THEN a ELSE next(at[k - 1])
        OBVIOUS
      <3>1. CASE k = m
        <4>1. at[k - 1] = f[m - 1] /\ at[k] = next(f[m - 1])
          BY <1>4, <2>5, <3>1
        <4> QED BY <1>4, <3>1, <4>1
      <3>2. CASE k # m
        <4>1. at[k] = f[k] /\ (k # 0 => at[k - 1] = f[k - 1])
          BY <2>5, <3>2
        <4> QED BY <2>3, <2>4, <3>2, <4>1
      <3> QED BY <3>1, <3>2
    <2>7. at = [k \in 0 .. m |-> IF k = 0 THEN a ELSE next(at[k - 1])]
      BY <2>6
    <2>8. IsChain(at, a, m)
      <3> HIDE DEF at
      <3> QED BY <2>7 DEF IsChain, next
    <2> HIDE DEF at
    <2> QED BY <1>2, <2>8
  <1> QED BY <1>3, <1>4

\* Following aliases does not change what a repository comes to.
LEMMA EndsAgree ==
    ASSUME AliasesInOrder, DOMAIN resolved = DOMAIN direct, NEW a
    PROVE  Resolve(AliasEnd(a)) = Resolve(a)
  <1> DEFINE N == Cardinality(DOMAIN direct)
             at == CHOOSE f : IsChain(f, a, N)
  <1>1. N \in Nat
    BY FS_CardinalityType DEF AliasesInOrder
  <1>2. AliasEnd(a) = at[N]
    BY DEF AliasEnd, IsChain
  <1>3. IsChain(at, a, N)
    <2> HIDE DEF N
    <2> QED BY <1>1, ChainsExist
  <1> HIDE DEF at, N
  <1>4. \A k \in 0 .. N :
           at[k] = IF k = 0 THEN a
                   ELSE IF at[k - 1] \in DOMAIN direct THEN direct[at[k - 1]] ELSE at[k - 1]
    BY <1>3 DEF IsChain
  <1>5. \A x \in DOMAIN direct : Resolve(direct[x]) = Resolve(x)
    BY DEF AliasesInOrder, Resolve
  <1>6. \A k \in 0 .. N : k # 0 => Resolve(at[k]) = Resolve(at[k - 1])
    BY <1>4, <1>5
  <1> DEFINE S == {k \in 0 .. N : Resolve(at[k]) # Resolve(a)}
  <1>7. S = {}
    <2> SUFFICES ASSUME S # {} PROVE FALSE
      OBVIOUS
    <2>1. S \in SUBSET Nat
      OBVIOUS
    <2>2. Min(S) \in S /\ \A n \in S : Min(S) <= n
      <3> HIDE DEF S
      <3> QED BY <2>1, LeastOfNaturals
    <2>3. PICK m \in S : \A n \in S : m <= n
      BY <2>2
    <2>4. m # 0
      BY <1>1, <1>4, <2>3
    <2>5. m - 1 \in 0 .. N /\ ~(m <= m - 1)
      BY <1>1, <2>3, <2>4
    <2>6. m - 1 \notin S
      <3> HIDE DEF S
      <3> QED BY <2>3, <2>5
    <2> QED BY <1>6, <2>3, <2>4, <2>5, <2>6
  <1>8. N \in 0 .. N
    BY <1>1
  <1> QED BY <1>2, <1>7, <1>8

LEMMA PilotInvIsSafe == ASSUME PilotInv PROVE PilotAvoidsEvaluation
  <1> SUFFICES ASSUME NEW n \in pilot, NEW m \in DOMAIN population
               PROVE  /\ AliasEnd(population[n].repo) = AliasEnd(population[m].repo)
                            => split[Resolve(population[m].repo)] = "train"
                      /\ Identity(m) = Identity(n) /\ m \in pilot => m = n
    BY DEF PilotAvoidsEvaluation
  <1>1. /\ AliasesInOrder /\ DOMAIN resolved = DOMAIN direct /\ DOMAIN split = ResolvedRepositories
        /\ Distinct(n) /\ n \in DOMAIN population
    BY DEF PilotInv
  <1> DEFINE r == population[n].repo
             s == population[m].repo
  <1>2. r \in DOMAIN split /\ split[r] = "train"
    BY <1>1 DEF Distinct, PassesChecks, Listed
  <1>3. \A x : Resolve(Resolve(x)) = Resolve(x)
    BY <1>1 DEF AliasesInOrder, Resolve
  <1>4. Resolve(r) = r
    <2>1. PICK k \in DOMAIN population : r = Resolve(population[k].repo)
      BY <1>1, <1>2 DEF ResolvedRepositories
    <2> HIDE DEF r
    <2> QED BY <1>3, <2>1
  <1>5. ASSUME AliasEnd(r) = AliasEnd(s) PROVE split[Resolve(s)] = "train"
    <2>1. Resolve(r) = Resolve(s)
      <3> HIDE DEF r, s
      <3> QED BY <1>1, <1>5, EndsAgree
    <2> QED BY <1>2, <1>4, <2>1
  <1>6. ASSUME Identity(m) = Identity(n), m \in pilot PROVE m = n
    <2>1. \A i, j \in pilot : i \in 1 .. j - 1 => Identity(i) # Identity(j)
      BY DEF PilotInv, Distinct
    <2>2. m \in Nat /\ n \in Nat /\ m # 0 /\ n # 0
      BY <1>1 DEF PilotInv
    <2>3. m \in 1 .. n - 1 \/ n \in 1 .. m - 1 \/ m = n
      BY <2>2
    <2> QED BY <1>6, <2>1, <2>3
  <1> QED BY <1>5, <1>6

-----------------------------------------------------------------------------
\* The steps of the split and of the pilot

LEMMA AliasKeeps ==
    ASSUME PilotInv, NEW a \in Repos, NEW b \in Repos, ReadAlias(a, b)
    PROVE  PilotInv'
  <1>1. /\ splitPhase = "aliases" /\ splitPhase' \in {"aliases", "conflict"}
        /\ resolved' = resolved /\ path' = path /\ population' = population /\ split' = split
        /\ pilot' = pilot /\ pilot = {} /\ DOMAIN resolved = {} /\ IsFiniteSet(DOMAIN direct)
        /\ DOMAIN direct \subseteq Repos
    BY DEF ReadAlias, PilotInv, AliasesInOrder
  <1>2. IsFiniteSet(DOMAIN direct') /\ DOMAIN direct' \subseteq Repos
    <2>1. DOMAIN direct' \in {DOMAIN direct, DOMAIN direct \cup {a}}
      BY DEF ReadAlias
    <2>2. IsFiniteSet(DOMAIN direct \cup {a})
      BY <1>1, FS_AddElement
    <2> QED BY <1>1, <2>1, <2>2
  <1> QED BY <1>1, <1>2 DEF PilotInv, AliasesInOrder

LEMMA StartKeepsOrder ==
    ASSUME PilotInv, StartWalk
    PROVE  PilotInv'
  <1>1. /\ splitPhase \in {"aliases", "origins"} /\ pilot = {}
        /\ UNCHANGED <<direct, resolved, population, split, pilot>>
    BY DEF StartWalk, PilotInv
  <1>2. AliasesInOrder'
    BY <1>1 DEF PilotInv, AliasesInOrder, Resolve
  <1>3. CASE Unresolved = {}
    <2>1. splitPhase' = "samples" /\ DOMAIN resolved = DOMAIN direct
      BY <1>3 DEF StartWalk, Unresolved, PilotInv, AliasesInOrder
    <2> QED BY <1>1, <1>2, <2>1 DEF PilotInv
  <1>4. CASE Unresolved # {}
    <2>1. splitPhase' = "walking" /\ path' = <<CHOOSE a \in Unresolved : \A b \in Unresolved : a <= b>>
      BY <1>4 DEF StartWalk
    <2>2. WalkInOrder'
      <3> DEFINE first == CHOOSE a \in Unresolved : \A b \in Unresolved : a <= b
      <3>1. first \in Unresolved
        <4>1. Unresolved \in SUBSET Nat
          BY <1>2, PilotAssumption DEF Unresolved, PilotInv, AliasesInOrder
        <4> QED BY <1>4, <4>1, LeastOfNaturals DEF Min
      <3>2. Unresolved' = Unresolved
        BY <1>1 DEF Unresolved
      <3> HIDE DEF first
      <3>3. path' \in Seq(Unresolved') /\ Len(path') = 1
        BY <2>1, <3>1, <3>2 DEF first
      <3> QED BY <3>3 DEF WalkInOrder
    <2> QED BY <1>1, <1>2, <2>1, <2>2 DEF PilotInv
  <1> QED BY <1>3, <1>4

LEMMA WalkKeeps ==
    ASSUME PilotInv, Walk
    PROVE  PilotInv'
  <1> DEFINE last == path[Len(path)]
             current == direct[last]
  <1>1. /\ splitPhase = "walking" /\ WalkInOrder /\ AliasesInOrder /\ pilot = {}
        /\ UNCHANGED <<direct, population, split, pilot>>
    BY DEF Walk, PilotInv
  <1>2. /\ path \in Seq(Unresolved) /\ Len(path) \in Nat /\ Len(path) \in 1 .. Len(path)
        /\ DOMAIN path = 1 .. Len(path) /\ last \in Unresolved
        /\ \A n \in 1 .. Len(path) : path[n] \in DOMAIN direct \ DOMAIN resolved
    BY <1>1 DEF WalkInOrder, Unresolved
  <1>3. CASE splitPhase' = "cycle" /\ UNCHANGED <<resolved, path>>
    BY <1>1, <1>3 DEF PilotInv, AliasesInOrder, Resolve
  <1>4. CASE /\ current \in Unresolved /\ path' = Append(path, current)
             /\ UNCHANGED <<splitPhase, resolved>>
    <2>1. AliasesInOrder' /\ Unresolved' = Unresolved
      BY <1>1, <1>4 DEF AliasesInOrder, Resolve, Unresolved
    <2> HIDE DEF current
    <2>2. /\ path' \in Seq(Unresolved) /\ Len(path') = Len(path) + 1
          /\ \A n \in 1 .. Len(path) : path'[n] = path[n]
          /\ path'[Len(path) + 1] = current
      BY <1>2, <1>4
    <2>3. \A n \in 1 .. Len(path') : n # Len(path') => direct[path'[n]] = path'[n + 1]
      <3> SUFFICES ASSUME NEW n \in 1 .. Len(path'), n # Len(path')
                   PROVE  direct[path'[n]] = path'[n + 1]
        OBVIOUS
      <3>1. n \in 1 .. Len(path) /\ (n # Len(path) => n + 1 \in 1 .. Len(path))
        <4>1. \A L \in Nat : \A i \in 1 .. L + 1 :
                 i # L + 1 => i \in 1 .. L /\ (i # L => i + 1 \in 1 .. L)
          OBVIOUS
        <4> QED BY <1>2, <2>2, <4>1
      <3>2. CASE n = Len(path)
        BY <2>2, <3>1, <3>2 DEF current
      <3>3. CASE n # Len(path)
        BY <1>1, <2>2, <3>1, <3>3 DEF WalkInOrder
      <3> QED BY <3>2, <3>3
    <2>4. WalkInOrder'
      <3>1. Len(path') # 0
        BY <1>2, <2>2
      <3> QED BY <1>1, <2>1, <2>2, <2>3, <3>1 DEF WalkInOrder
    <2> QED BY <1>1, <1>4, <2>1, <2>4 DEF PilotInv
  <1>5. CASE /\ current \notin Unresolved
             /\ splitPhase' = "origins" /\ path' = <<>> /\ resolved' = WithPath(current)
    <2> DEFINE P == {path[n] : n \in DOMAIN path}
               end == Resolve(current)
    <2>1. P \subseteq DOMAIN direct /\ P \cap DOMAIN resolved = {}
      BY <1>2
    <2>2. resolved' = [a \in DOMAIN resolved \cup P |->
                        IF a \in DOMAIN resolved THEN resolved[a] ELSE end]
      BY <1>5 DEF WithPath
    <2>3. /\ current \notin P /\ end \notin DOMAIN direct
          /\ current \in DOMAIN direct => current \in DOMAIN resolved
      <3>1. P \subseteq Unresolved
        BY <1>2
      <3>2. current \notin P
        BY <1>5, <3>1
      <3>3. end \notin DOMAIN direct
        BY <1>1, <1>5 DEF AliasesInOrder, Resolve, Unresolved
      <3> QED BY <1>5, <3>2, <3>3 DEF Unresolved
    <2>4. \A x \in P : direct[x] = current \/ direct[x] \in P
      <3> SUFFICES ASSUME NEW n \in DOMAIN path PROVE direct[path[n]] = current \/ direct[path[n]] \in P
        OBVIOUS
      <3>1. CASE n = Len(path)
        BY <3>1
      <3>2. CASE n # Len(path)
        <4>1. direct[path[n]] = path[n + 1] /\ n + 1 \in DOMAIN path
          <5>1. \A L \in Nat : \A i \in 1 .. L : i # L => i + 1 \in 1 .. L
            OBVIOUS
          <5>2. n \in 1 .. Len(path) /\ n + 1 \in 1 .. Len(path)
            BY <1>2, <3>2, <5>1
          <5> QED BY <1>1, <1>2, <3>2, <5>2 DEF WalkInOrder
        <4> QED BY <4>1
      <3> QED BY <3>1, <3>2
    <2> HIDE DEF P, current
    <2>5. DOMAIN resolved' = DOMAIN resolved \cup P
      BY <2>2
    <2>6. /\ \A a \in DOMAIN resolved : resolved'[a] = resolved[a]
          /\ \A a \in P : resolved'[a] = end
          /\ \A x : x \notin P => Resolve(x)' = Resolve(x)
          /\ \A x \in P : Resolve(x)' = end
      BY <2>1, <2>2 DEF Resolve
    <2>7. ASSUME NEW a \in DOMAIN resolved
          PROVE  /\ direct[a] \in DOMAIN direct => direct[a] \in DOMAIN resolved'
                 /\ resolved'[a] = Resolve(direct[a])' /\ resolved'[a] \notin DOMAIN direct
      <3>1. /\ direct[a] \in DOMAIN direct => direct[a] \in DOMAIN resolved
            /\ resolved[a] = Resolve(direct[a]) /\ resolved[a] \notin DOMAIN direct
        BY <1>1 DEF AliasesInOrder
      <3>2. direct[a] \notin P
        BY <2>1, <3>1
      <3> QED BY <2>5, <2>6, <3>1, <3>2, <1>1
    <2>8. ASSUME NEW a \in P
          PROVE  /\ direct[a] \in DOMAIN direct => direct[a] \in DOMAIN resolved'
                 /\ resolved'[a] = Resolve(direct[a])' /\ resolved'[a] \notin DOMAIN direct
      <3> HIDE DEF end
      <3>1. resolved'[a] = end /\ end \notin DOMAIN direct
        BY <2>3, <2>6
      <3>2. CASE direct[a] = current
        <4>1. Resolve(direct[a])' = Resolve(direct[a])
          BY <1>1, <2>3, <2>6, <3>2
        <4> QED BY <2>3, <2>5, <3>1, <3>2, <4>1 DEF end
      <3>3. CASE direct[a] \in P
        BY <1>1, <2>5, <2>6, <3>1, <3>3
      <3> QED BY <2>4, <3>2, <3>3
    <2>9. AliasesInOrder'
      <3>1. /\ DOMAIN resolved' \subseteq DOMAIN direct' /\ IsFiniteSet(DOMAIN direct')
            /\ DOMAIN direct' \subseteq Repos /\ direct' = direct
        BY <1>1, <2>1, <2>5 DEF AliasesInOrder
      <3>2. \A a \in DOMAIN resolved' :
               /\ direct[a] \in DOMAIN direct => direct[a] \in DOMAIN resolved'
               /\ resolved'[a] = Resolve(direct[a])' /\ resolved'[a] \notin DOMAIN direct
        BY <2>5, <2>7, <2>8
      <3> QED BY <3>1, <3>2 DEF AliasesInOrder
    <2> QED BY <1>1, <1>5, <2>9 DEF PilotInv
  <1>6. \/ splitPhase' = "cycle" /\ UNCHANGED <<resolved, path>>
        \/ /\ current \in Unresolved /\ path' = Append(path, current)
           /\ UNCHANGED <<splitPhase, resolved>>
        \/ /\ current \notin Unresolved
           /\ splitPhase' = "origins" /\ path' = <<>> /\ resolved' = WithPath(current)
    BY DEF Walk
  <1> QED BY <1>3, <1>4, <1>5, <1>6

LEMMA SplitKeeps ==
    ASSUME PilotInv, (\E s \in PilotSamples : ReadSample(s))
                     \/ (\E division \in [ResolvedRepositories -> Splits] : WriteSplit(division))
    PROVE  PilotInv'
  <1>1. /\ splitPhase = "samples" /\ splitPhase' \in {"samples", "split"} /\ pilot = {}
        /\ UNCHANGED <<direct, resolved, path, pilot>> /\ population' \in Seq(PilotSamples)
        /\ splitPhase' = "split" => DOMAIN split' = ResolvedRepositories /\ population' = population
    BY DEF ReadSample, WriteSplit, PilotInv
  <1>2. AliasesInOrder'
    BY <1>1 DEF PilotInv, AliasesInOrder, Resolve
  <1>3. splitPhase' = "split" => ResolvedRepositories' = ResolvedRepositories
    BY <1>1 DEF ResolvedRepositories, Resolve
  <1> QED BY <1>1, <1>2, <1>3 DEF PilotInv

LEMMA BuildKeeps ==
    ASSUME PilotInv, BuildPilot
    PROVE  PilotInv'
  <1>1. /\ splitPhase = "split" /\ pilot = {} /\ splitPhase' \in {"overlap", "FAIL", "pilot"}
        /\ UNCHANGED <<direct, resolved, path, population, split>>
    BY DEF BuildPilot, PilotInv
  <1>2. /\ \A n \in pilot' : n \in DOMAIN population /\ Distinct(n)
        /\ pilot' # {} => splitPhase' = "pilot"
    BY <1>1 DEF BuildPilot
  <1>3. AliasesInOrder' /\ ResolvedRepositories' = ResolvedRepositories
    BY <1>1 DEF PilotInv, AliasesInOrder, Resolve, ResolvedRepositories
  <1>4. \A n : Distinct(n)' <=> Distinct(n)
    BY <1>1 DEF Distinct, PassesChecks, Listed, Identity
  <1> QED BY <1>1, <1>2, <1>3, <1>4 DEF PilotInv

LEMMA PilotStands == ASSUME PilotInv, UNCHANGED splitVars PROVE PilotInv'
  <1>1. UNCHANGED <<splitPhase, direct, resolved, path, population, split, pilot>>
    BY DEF splitVars
  <1>2. /\ AliasesInOrder' <=> AliasesInOrder
        /\ WalkInOrder' <=> WalkInOrder
        /\ ResolvedRepositories' = ResolvedRepositories
        /\ \A n : Distinct(n)' <=> Distinct(n)
    BY <1>1 DEF AliasesInOrder, WalkInOrder, Unresolved, ResolvedRepositories, Resolve, Distinct,
                PassesChecks, Listed, Identity
  <1> QED BY <1>1, <1>2 DEF PilotInv

LEMMA PilotStartsRight == ASSUME SplitInit PROVE PilotInv
  <1>1. /\ DOMAIN direct = {} /\ DOMAIN resolved = {}
        /\ population \in Seq(PilotSamples)
    BY DEF SplitInit
  <1> QED BY <1>1, FS_EmptySet DEF SplitInit, PilotInv, AliasesInOrder

\* Whatever names the alias file gives to a repository, no sample of the pilot is of a
\* repository of the evaluation or the excluded split, and no task is accepted twice.
THEOREM PilotsAvoidEvaluation == PipelineSpec => []PilotAvoidsEvaluation
  <1>1. PipelineInit => PilotInv
    BY PilotStartsRight DEF PipelineInit
  <1>2. PilotInv /\ [PipelineNext]_pipelineVars => PilotInv'
    <2> SUFFICES ASSUME PilotInv, [PipelineNext]_pipelineVars PROVE PilotInv'
      OBVIOUS
    <2>1. SplitNext \/ UNCHANGED splitVars
      BY DEF PipelineNext, Normalize, Conclude, Review, Cohort, Recover, SplitAndDraw, EvaluateCase,
             Train, Teach, RunScript, pipelineVars, jobVars, dataVars
    <2> QED BY <2>1, AliasKeeps, StartKeepsOrder, WalkKeeps, SplitKeeps, BuildKeeps, PilotStands
            DEF SplitNext
  <1>3. PilotInv => PilotAvoidsEvaluation
    BY PilotInvIsSafe
  <1> QED BY <1>1, <1>2, <1>3, PTL DEF PipelineSpec

-----------------------------------------------------------------------------
\* The pipeline

\* When the admitted records are handed over, the database of the projection is empty again.
LEMMA HandOverEmpties == ASSUME HandOverProvenance PROVE TaskInv'
  <1>1. /\ taskRead' = <<>> /\ tasks' = [i \in Ids |-> 0]
        /\ taskConflicts' = {} /\ taskRejections' = <<>>
    BY DEF HandOverProvenance
  <1>2. \A i : RowsOf(i)' = {}
    <2>1. Len(taskRead') = 0
      BY <1>1
    <2>2. 1 .. Len(taskRead') = {}
      BY <2>1
    <2> QED BY <2>2 DEF RowsOf
  <1>3. Tables'
    BY <1>1 DEF Tables
  <1>4. EveryTaskRowIsAccounted'
    BY <1>1 DEF EveryTaskRowIsAccounted
  <1>5. \A i \in Ids : SettledRightly(i)'
    BY <1>1, <1>2 DEF SettledRightly, NoneValid
  <1> QED BY <1>1, <1>3, <1>4, <1>5 DEF TaskInv, RejectionsNameTheirRows, Names

\* In the pipeline too, where the admitted records are handed to the normalization and the
\* tables dropped, no row is lost and the order of the rows does not tell.
THEOREM TasksOfThePipeline ==
    PipelineSpec => [](EveryTaskRowIsAccounted /\ AdmittedExactlyWhenUnanimous)
  <1>1. PipelineInit => TaskInv
    BY TaskInvInit DEF PipelineInit
  <1>2. TaskInv /\ [PipelineNext]_pipelineVars => TaskInv'
    <2> SUFFICES ASSUME TaskInv, [PipelineNext]_pipelineVars PROVE TaskInv'
      OBVIOUS
    <2>1. HandOverProvenance \/ [ProjectionNext]_taskVars
      BY DEF PipelineNext, Normalize, Conclude, Review, Cohort, Recover, SplitAndDraw, EvaluateCase,
             Train, Teach, RunScript, pipelineVars, jobVars, dataVars
    <2> QED BY <2>1, HandOverEmpties, TaskInvNext
  <1>3. TaskInv => EveryTaskRowIsAccounted /\ AdmittedExactlyWhenUnanimous
    BY TaskInvIsUnanimous DEF TaskInv
  <1> QED BY <1>1, <1>2, <1>3, PTL DEF PipelineSpec

\* The commands of other jobs do not touch a recovery: what is proved of it alone holds in
\* the pipeline.
THEOREM RecoveryOfThePipeline == PipelineSpec => []RecoveryIsSound
  <1>1. PipelineInit => RecoveryInit
    BY DEF PipelineInit
  <1>2. [PipelineNext]_pipelineVars => [RecoveryNext]_recVars
    BY DEF PipelineNext, Normalize, Conclude, Review, Cohort, Recover, SplitAndDraw, EvaluateCase,
           Train, Teach, RunScript, pipelineVars, jobVars, dataVars
  <1>3. PipelineSpec => RecoverySpec
    BY <1>1, <1>2, PTL DEF PipelineSpec, RecoverySpec
  <1> QED BY <1>3, RecoveriesAreSound, PTL
=============================================================================
