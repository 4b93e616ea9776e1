----------------------- MODULE CommandExecutorProofs -----------------------
(***************************************************************************)
(* For any number of helper processes, streams and units of output, a run   *)
(* of CommandExecutor keeps its safety properties.                          *)
(*                                                                          *)
(* The properties speak of the moment run is over; the invariant carries    *)
(* what each stage on the way has already secured: the leader collected     *)
(* before the output is, a group without an unkilled member before a        *)
(* capture thread is given up.                                              *)
(***************************************************************************)
EXTENDS CommandExecutor, TLAPS

(* No member of the group has been spared KILL. *)
Quelled == \A p \in group : sentence[p] = "kill"

(* Before Popen there are no processes, and no result. *)
Fresh ==
  /\ life = [p \in Procs |-> "unborn"]
  /\ sentence = [p \in Procs |-> "none"]
  /\ group = {}
  /\ timedOut = FALSE
  /\ output = [s \in Streams |-> None]

StageInv ==
  /\ pc = "new" => Fresh /\ outcome = None
  /\ pc = "waiting" => ~timedOut
  /\ pc \in (Guarded \ {"waiting"}) \cup {"raised"} => timedOut
  /\ pc # "done" => outcome = None
  /\ outcome # "success" \/ (pc = "done" /\ ~timedOut /\ status = "ok")

LeaderInv ==
  /\ pc \notin {"new", "done"} => life[Leader] # "unborn"
  /\ pc \in Collecting => life[Leader] = "gone"
  /\ pc \in {"wait1", "wait2"} => life[Leader] = "gone" \/ sentence[Leader] = "kill"
  /\ ~timedOut /\ pc # "cancelled" => sentence[Leader] = "none"
  /\ LeaderNeverOutlivesRun

GroupInv ==
  /\ \A p \in group : Running(p)
  /\ pc = "rejoin" => Quelled
  /\ pc \in {"render", "done"} => Quelled \/ Captured

CaptureInv ==
  /\ \A s \in Streams : total[s] + gathered[s] <= written[s]
  /\ \A s \in Streams : reader[s] = "eof" => total[s] = written[s]
  /\ \A s \in Streams : output[s] # None => pc \in {"render", "cancelled", "done"}
  /\ pc \in {"render", "done"} =>
       \A s \in Streams :
         output[s] # None /\ ~output[s].truncated =>
           output[s].kept = written[s] \/ Quelled \/ reader[s] = "error"
  /\ outcome = "success" => \A s \in Streams : output[s] # None /\ reader[s] # "error"

IInv == TypeOK /\ StageInv /\ LeaderInv /\ GroupInv /\ CaptureInv

(* A step keeps every variable in its type. *)
LEMMA TypeStep == TypeOK /\ [Next]_vars => TypeOK'
<1>1. SUFFICES ASSUME TypeOK, [Next]_vars PROVE TypeOK'
  OBVIOUS
<1> USE ExecutorAssumption DEF TypeOK, Procs, Guarded, Collecting, Over, Refusals,
     Outcomes, Goto, Running, vars, runVars, procVars, captureVars
<1>2. ASSUME NEW o \in Refusals, Refuse(o) PROVE TypeOK'
  BY <1>1, <1>2 DEF Refuse
<1>3. CASE Start
  BY <1>1, <1>3 DEF Start
<1>4. CASE LeaderExited
  BY <1>1, <1>4 DEF LeaderExited, Reaped
<1>5. CASE Deadline
  BY <1>1, <1>5 DEF Deadline
<1>6. CASE TermGroup
  BY <1>1, <1>6 DEF TermGroup, Term
<1>7. CASE Snapshot
  BY <1>1, <1>7 DEF Snapshot
<1>8. CASE KillDescendants
  BY <1>1, <1>8 DEF KillDescendants, KillAll
<1>9. CASE KillLeader
  BY <1>1, <1>9 DEF KillLeader, KillAll, Reaped
<1>10. CASE ReapTerminated
  BY <1>1, <1>10 DEF ReapTerminated, Reaped
<1>11. CASE FirstGraceOver
  BY <1>1, <1>11 DEF FirstGraceOver, KillAll
<1>12. CASE SecondGraceOver
  BY <1>1, <1>12 DEF SecondGraceOver, Finally, Term, Reaped
<1>13. CASE Sweep
  BY <1>1, <1>13 DEF Sweep, Term
<1>14. CASE Joined
  BY <1>1, <1>14 DEF Joined
<1>15. CASE JoinTimesOut
  BY <1>1, <1>15 DEF JoinTimesOut, KillAll
<1>16. CASE Rejoined
  BY <1>1, <1>16 DEF Rejoined
<1>17. CASE Conclude
  BY <1>1, <1>17 DEF Conclude, Verdict
<1>18. ASSUME NEW s \in Streams, Render(s) PROVE TypeOK'
  BY <1>1, <1>18 DEF Render, Kept
<1>19. CASE Cancel
  BY <1>1, <1>19 DEF Cancel, Finally, Term, Reaped
<1>20. ASSUME NEW s \in Streams, ReadUnit(s) PROVE TypeOK'
  BY <1>1, <1>20 DEF ReadUnit, Reading, InPipe
<1>21. ASSUME NEW s \in Streams, ReadEnd(s) PROVE TypeOK'
  BY <1>1, <1>21 DEF ReadEnd, Reading, InPipe
<1>22. ASSUME NEW s \in Streams, ReadFails(s) PROVE TypeOK'
  BY <1>1, <1>22 DEF ReadFails, Reading
<1>23. ASSUME NEW p \in Procs, NEW h \in Helpers, Fork(p, h) PROVE TypeOK'
  BY <1>1, <1>23 DEF Fork, Acts
<1>24. ASSUME NEW p \in Procs, IgnoreTerm(p) PROVE TypeOK'
  BY <1>1, <1>24 DEF IgnoreTerm, Acts
<1>25. ASSUME NEW p \in Procs, NEW s \in Streams, CloseStream(p, s) PROVE TypeOK'
  BY <1>1, <1>25 DEF CloseStream, Acts
<1>26. ASSUME NEW p \in Procs, NEW s \in Streams, Write(p, s) PROVE TypeOK'
  BY <1>1, <1>26 DEF Write, Acts
<1>27. ASSUME NEW p \in Procs, NEW code \in {"ok", "bad"}, Die(p, code) PROVE TypeOK'
  BY <1>1, <1>27 DEF Die
<1>28. ASSUME NEW h \in Helpers, LeaveGroup(h) PROVE TypeOK'
  BY <1>1, <1>28 DEF LeaveGroup, Acts
<1>29. ASSUME NEW h \in Helpers, LeaveTree(h) PROVE TypeOK'
  BY <1>1, <1>29 DEF LeaveTree, Acts
<1>30. CASE UNCHANGED vars
  BY <1>1, <1>30 DEF vars
<1> HIDE DEF TypeOK
<1>31. QED
  BY <1>1, <1>2, <1>3, <1>4, <1>5, <1>6, <1>7, <1>8, <1>9, <1>10, <1>11, <1>12, <1>13,
     <1>14, <1>15, <1>16, <1>17, <1>18, <1>19, <1>20, <1>21, <1>22, <1>23, <1>24, <1>25,
     <1>26, <1>27, <1>28, <1>29, <1>30 DEF Next, RunStep, ProcessStep

(* A step goes from one stage of the run to the next. *)
LEMMA StageStep == IInv /\ [Next]_vars => StageInv'
<1>1. SUFFICES ASSUME IInv, [Next]_vars PROVE StageInv'
  OBVIOUS
<1> USE ExecutorAssumption DEF IInv, TypeOK, StageInv, Fresh, Procs, Guarded, Collecting,
     Over, Refusals, Outcomes, Goto, Running, vars, runVars, procVars, captureVars
<1>2. ASSUME NEW o \in Refusals, Refuse(o) PROVE StageInv'
  BY <1>1, <1>2 DEF Refuse
<1>3. CASE Start
  BY <1>1, <1>3 DEF Start
<1>4. CASE LeaderExited
  BY <1>1, <1>4 DEF LeaderExited, Reaped
<1>5. CASE Deadline
  BY <1>1, <1>5 DEF Deadline
<1>6. CASE TermGroup
  BY <1>1, <1>6 DEF TermGroup, Term
<1>7. CASE Snapshot
  BY <1>1, <1>7 DEF Snapshot
<1>8. CASE KillDescendants
  BY <1>1, <1>8 DEF KillDescendants, KillAll
<1>9. CASE KillLeader
  BY <1>1, <1>9 DEF KillLeader, KillAll, Reaped
<1>10. CASE ReapTerminated
  BY <1>1, <1>10 DEF ReapTerminated, Reaped
<1>11. CASE FirstGraceOver
  BY <1>1, <1>11 DEF FirstGraceOver, KillAll
<1>12. CASE SecondGraceOver
  BY <1>1, <1>12 DEF SecondGraceOver, Finally, Term, Reaped
<1>13. CASE Sweep
  BY <1>1, <1>13 DEF Sweep, Term
<1>14. CASE Joined
  BY <1>1, <1>14 DEF Joined
<1>15. CASE JoinTimesOut
  BY <1>1, <1>15 DEF JoinTimesOut, KillAll
<1>16. CASE Rejoined
  BY <1>1, <1>16 DEF Rejoined
<1>17. CASE Conclude
  BY <1>1, <1>17 DEF Conclude, Verdict
<1>18. ASSUME NEW s \in Streams, Render(s) PROVE StageInv'
  BY <1>1, <1>18 DEF Render, Kept
<1>19. CASE Cancel
  BY <1>1, <1>19 DEF Cancel, Finally, Term, Reaped
<1>20. ASSUME NEW s \in Streams, ReadUnit(s) PROVE StageInv'
  BY <1>1, <1>20 DEF ReadUnit, Reading, InPipe
<1>21. ASSUME NEW s \in Streams, ReadEnd(s) PROVE StageInv'
  BY <1>1, <1>21 DEF ReadEnd, Reading, InPipe
<1>22. ASSUME NEW s \in Streams, ReadFails(s) PROVE StageInv'
  BY <1>1, <1>22 DEF ReadFails, Reading
<1>23. ASSUME NEW p \in Procs, NEW h \in Helpers, Fork(p, h) PROVE StageInv'
  BY <1>1, <1>23 DEF Fork, Acts
<1>24. ASSUME NEW p \in Procs, IgnoreTerm(p) PROVE StageInv'
  BY <1>1, <1>24 DEF IgnoreTerm, Acts
<1>25. ASSUME NEW p \in Procs, NEW s \in Streams, CloseStream(p, s) PROVE StageInv'
  BY <1>1, <1>25 DEF CloseStream, Acts
<1>26. ASSUME NEW p \in Procs, NEW s \in Streams, Write(p, s) PROVE StageInv'
  BY <1>1, <1>26 DEF Write, Acts
<1>27. ASSUME NEW p \in Procs, NEW code \in {"ok", "bad"}, Die(p, code) PROVE StageInv'
  BY <1>1, <1>27 DEF Die
<1>28. ASSUME NEW h \in Helpers, LeaveGroup(h) PROVE StageInv'
  BY <1>1, <1>28 DEF LeaveGroup, Acts
<1>29. ASSUME NEW h \in Helpers, LeaveTree(h) PROVE StageInv'
  BY <1>1, <1>29 DEF LeaveTree, Acts
<1>30. CASE UNCHANGED vars
  BY <1>1, <1>30 DEF vars
<1> HIDE DEF StageInv
<1>31. QED
  BY <1>1, <1>2, <1>3, <1>4, <1>5, <1>6, <1>7, <1>8, <1>9, <1>10, <1>11, <1>12, <1>13,
     <1>14, <1>15, <1>16, <1>17, <1>18, <1>19, <1>20, <1>21, <1>22, <1>23, <1>24, <1>25,
     <1>26, <1>27, <1>28, <1>29, <1>30 DEF Next, RunStep, ProcessStep

(* A step keeps what is known of the leader. *)
LEMMA LeaderStep == IInv /\ [Next]_vars => LeaderInv'
<1>1. SUFFICES ASSUME IInv, [Next]_vars PROVE LeaderInv'
  OBVIOUS
<1> USE ExecutorAssumption DEF IInv, TypeOK, StageInv, Fresh, LeaderInv,
     LeaderNeverOutlivesRun, Procs, Guarded, Collecting, Over, Refusals, Outcomes, Goto,
     Running, vars, runVars, procVars, captureVars
<1>2. ASSUME NEW o \in Refusals, Refuse(o) PROVE LeaderInv'
  BY <1>1, <1>2 DEF Refuse
<1>3. CASE Start
  BY <1>1, <1>3 DEF Start
<1>4. CASE LeaderExited
  BY <1>1, <1>4 DEF LeaderExited, Reaped
<1>5. CASE Deadline
  BY <1>1, <1>5 DEF Deadline
<1>6. CASE TermGroup
  BY <1>1, <1>6 DEF TermGroup, Term
<1>7. CASE Snapshot
  BY <1>1, <1>7 DEF Snapshot
<1>8. CASE KillDescendants
  BY <1>1, <1>8 DEF KillDescendants, KillAll
<1>9. CASE KillLeader
  BY <1>1, <1>9 DEF KillLeader, KillAll, Reaped
<1>10. CASE ReapTerminated
  BY <1>1, <1>10 DEF ReapTerminated, Reaped
<1>11. CASE FirstGraceOver
  BY <1>1, <1>11 DEF FirstGraceOver, KillAll
<1>12. CASE SecondGraceOver
  BY <1>1, <1>12 DEF SecondGraceOver, Finally, Term, Reaped
<1>13. CASE Sweep
  BY <1>1, <1>13 DEF Sweep, Term
<1>14. CASE Joined
  BY <1>1, <1>14 DEF Joined
<1>15. CASE JoinTimesOut
  BY <1>1, <1>15 DEF JoinTimesOut, KillAll
<1>16. CASE Rejoined
  BY <1>1, <1>16 DEF Rejoined
<1>17. CASE Conclude
  BY <1>1, <1>17 DEF Conclude, Verdict
<1>18. ASSUME NEW s \in Streams, Render(s) PROVE LeaderInv'
  BY <1>1, <1>18 DEF Render, Kept
<1>19. CASE Cancel
  BY <1>1, <1>19 DEF Cancel, Finally, Term, Reaped
<1>20. ASSUME NEW s \in Streams, ReadUnit(s) PROVE LeaderInv'
  BY <1>1, <1>20 DEF ReadUnit, Reading, InPipe
<1>21. ASSUME NEW s \in Streams, ReadEnd(s) PROVE LeaderInv'
  BY <1>1, <1>21 DEF ReadEnd, Reading, InPipe
<1>22. ASSUME NEW s \in Streams, ReadFails(s) PROVE LeaderInv'
  BY <1>1, <1>22 DEF ReadFails, Reading
<1>23. ASSUME NEW p \in Procs, NEW h \in Helpers, Fork(p, h) PROVE LeaderInv'
  BY <1>1, <1>23 DEF Fork, Acts
<1>24. ASSUME NEW p \in Procs, IgnoreTerm(p) PROVE LeaderInv'
  BY <1>1, <1>24 DEF IgnoreTerm, Acts
<1>25. ASSUME NEW p \in Procs, NEW s \in Streams, CloseStream(p, s) PROVE LeaderInv'
  BY <1>1, <1>25 DEF CloseStream, Acts
<1>26. ASSUME NEW p \in Procs, NEW s \in Streams, Write(p, s) PROVE LeaderInv'
  BY <1>1, <1>26 DEF Write, Acts
<1>27. ASSUME NEW p \in Procs, NEW code \in {"ok", "bad"}, Die(p, code) PROVE LeaderInv'
  BY <1>1, <1>27 DEF Die
<1>28. ASSUME NEW h \in Helpers, LeaveGroup(h) PROVE LeaderInv'
  BY <1>1, <1>28 DEF LeaveGroup, Acts
<1>29. ASSUME NEW h \in Helpers, LeaveTree(h) PROVE LeaderInv'
  BY <1>1, <1>29 DEF LeaveTree, Acts
<1>30. CASE UNCHANGED vars
  BY <1>1, <1>30 DEF vars
<1> HIDE DEF LeaderInv
<1>31. QED
  BY <1>1, <1>2, <1>3, <1>4, <1>5, <1>6, <1>7, <1>8, <1>9, <1>10, <1>11, <1>12, <1>13,
     <1>14, <1>15, <1>16, <1>17, <1>18, <1>19, <1>20, <1>21, <1>22, <1>23, <1>24, <1>25,
     <1>26, <1>27, <1>28, <1>29, <1>30 DEF Next, RunStep, ProcessStep

(* A step keeps what is known of the group: a killed process forks nothing, and *)
(* a process outside the group forks nothing into it.                           *)
LEMMA GroupStep == IInv /\ [Next]_vars => GroupInv'
<1>1. SUFFICES ASSUME IInv, [Next]_vars PROVE GroupInv'
  OBVIOUS
<1> USE ExecutorAssumption DEF IInv, TypeOK, StageInv, Fresh, LeaderInv, GroupInv,
     Quelled, Captured, Procs, Guarded, Collecting, Over, Refusals, Outcomes, Goto,
     Running, vars, runVars, procVars, captureVars
<1>2. ASSUME NEW o \in Refusals, Refuse(o) PROVE GroupInv'
  BY <1>1, <1>2 DEF Refuse
<1>3. CASE Start
  BY <1>1, <1>3 DEF Start
<1>4. CASE LeaderExited
  BY <1>1, <1>4 DEF LeaderExited, Reaped
<1>5. CASE Deadline
  BY <1>1, <1>5 DEF Deadline
<1>6. CASE TermGroup
  BY <1>1, <1>6 DEF TermGroup, Term
<1>7. CASE Snapshot
  BY <1>1, <1>7 DEF Snapshot
<1>8. CASE KillDescendants
  BY <1>1, <1>8 DEF KillDescendants, KillAll
<1>9. CASE KillLeader
  BY <1>1, <1>9 DEF KillLeader, KillAll, Reaped
<1>10. CASE ReapTerminated
  BY <1>1, <1>10 DEF ReapTerminated, Reaped
<1>11. CASE FirstGraceOver
  BY <1>1, <1>11 DEF FirstGraceOver, KillAll
<1>12. CASE SecondGraceOver
  BY <1>1, <1>12 DEF SecondGraceOver, Finally, Term, Reaped
<1>13. CASE Sweep
  BY <1>1, <1>13 DEF Sweep, Term
<1>14. CASE Joined
  BY <1>1, <1>14 DEF Joined
<1>15. CASE JoinTimesOut
  BY <1>1, <1>15 DEF JoinTimesOut, KillAll
<1>16. CASE Rejoined
  BY <1>1, <1>16 DEF Rejoined
<1>17. CASE Conclude
  BY <1>1, <1>17 DEF Conclude, Verdict
<1>18. ASSUME NEW s \in Streams, Render(s) PROVE GroupInv'
  BY <1>1, <1>18 DEF Render, Kept
<1>19. CASE Cancel
  BY <1>1, <1>19 DEF Cancel, Finally, Term, Reaped
<1>20. ASSUME NEW s \in Streams, ReadUnit(s) PROVE GroupInv'
  BY <1>1, <1>20 DEF ReadUnit, Reading, InPipe
<1>21. ASSUME NEW s \in Streams, ReadEnd(s) PROVE GroupInv'
  BY <1>1, <1>21 DEF ReadEnd, Reading, InPipe
<1>22. ASSUME NEW s \in Streams, ReadFails(s) PROVE GroupInv'
  BY <1>1, <1>22 DEF ReadFails, Reading
<1>23. ASSUME NEW p \in Procs, NEW h \in Helpers, Fork(p, h) PROVE GroupInv'
  BY <1>1, <1>23 DEF Fork, Acts
<1>24. ASSUME NEW p \in Procs, IgnoreTerm(p) PROVE GroupInv'
  BY <1>1, <1>24 DEF IgnoreTerm, Acts
<1>25. ASSUME NEW p \in Procs, NEW s \in Streams, CloseStream(p, s) PROVE GroupInv'
  BY <1>1, <1>25 DEF CloseStream, Acts
<1>26. ASSUME NEW p \in Procs, NEW s \in Streams, Write(p, s) PROVE GroupInv'
  BY <1>1, <1>26 DEF Write, Acts
<1>27. ASSUME NEW p \in Procs, NEW code \in {"ok", "bad"}, Die(p, code) PROVE GroupInv'
  BY <1>1, <1>27 DEF Die
<1>28. ASSUME NEW h \in Helpers, LeaveGroup(h) PROVE GroupInv'
  BY <1>1, <1>28 DEF LeaveGroup, Acts
<1>29. ASSUME NEW h \in Helpers, LeaveTree(h) PROVE GroupInv'
  BY <1>1, <1>29 DEF LeaveTree, Acts
<1>30. CASE UNCHANGED vars
  BY <1>1, <1>30 DEF vars
<1> HIDE DEF GroupInv
<1>31. QED
  BY <1>1, <1>2, <1>3, <1>4, <1>5, <1>6, <1>7, <1>8, <1>9, <1>10, <1>11, <1>12, <1>13,
     <1>14, <1>15, <1>16, <1>17, <1>18, <1>19, <1>20, <1>21, <1>22, <1>23, <1>24, <1>25,
     <1>26, <1>27, <1>28, <1>29, <1>30 DEF Next, RunStep, ProcessStep

(* A step keeps what is known of the captured output. *)
LEMMA CaptureStep == IInv /\ [Next]_vars => CaptureInv'
<1>1. SUFFICES ASSUME IInv, [Next]_vars PROVE CaptureInv'
  OBVIOUS
<1> USE ExecutorAssumption DEF IInv, TypeOK, StageInv, Fresh, GroupInv, CaptureInv,
     Quelled, Captured, Procs, Guarded, Collecting, Over, Refusals, Outcomes, Goto,
     Running, vars, runVars, procVars, captureVars
<1>2. ASSUME NEW o \in Refusals, Refuse(o) PROVE CaptureInv'
  BY <1>1, <1>2 DEF Refuse
<1>3. CASE Start
  BY <1>1, <1>3 DEF Start
<1>4. CASE LeaderExited
  BY <1>1, <1>4 DEF LeaderExited, Reaped
<1>5. CASE Deadline
  BY <1>1, <1>5 DEF Deadline
<1>6. CASE TermGroup
  BY <1>1, <1>6 DEF TermGroup, Term
<1>7. CASE Snapshot
  BY <1>1, <1>7 DEF Snapshot
<1>8. CASE KillDescendants
  BY <1>1, <1>8 DEF KillDescendants, KillAll
<1>9. CASE KillLeader
  BY <1>1, <1>9 DEF KillLeader, KillAll, Reaped
<1>10. CASE ReapTerminated
  BY <1>1, <1>10 DEF ReapTerminated, Reaped
<1>11. CASE FirstGraceOver
  BY <1>1, <1>11 DEF FirstGraceOver, KillAll
<1>12. CASE SecondGraceOver
  BY <1>1, <1>12 DEF SecondGraceOver, Finally, Term, Reaped
<1>13. CASE Sweep
  BY <1>1, <1>13 DEF Sweep, Term
<1>14. CASE Joined
  BY <1>1, <1>14 DEF Joined
<1>15. CASE JoinTimesOut
  BY <1>1, <1>15 DEF JoinTimesOut, KillAll
<1>16. CASE Rejoined
  BY <1>1, <1>16 DEF Rejoined
<1>17. CASE Conclude
  BY <1>1, <1>17 DEF Conclude, Verdict
<1>18. ASSUME NEW s \in Streams, Render(s) PROVE CaptureInv'
  <2>1. pc = "render" /\ UNCHANGED <<pc, outcome, group, sentence, total, gathered, written, reader>>
    BY <1>18 DEF Render
  <2>2. \A r \in Streams \ {s} : output'[r] = output[r]
    BY <1>1, <1>18 DEF Render
  <2>3. ~output'[s].truncated => output'[s].kept = total[s]
    <3> DEFINE cut == total[s] > Capacity
    <3> HIDE DEF cut
    <3>1. output'[s] = [kept |-> Kept(s), truncated |-> cut]
      BY <1>1, <1>18 DEF Render, cut
    <3>2. ~cut => Kept(s) = total[s]
      BY ONLY DEF Kept, cut
    <3>3. output'[s].kept = Kept(s) /\ output'[s].truncated = cut
      BY ONLY <3>1
    <3> QED BY ONLY <3>2, <3>3
  <2>4. ~output'[s].truncated => output'[s].kept = written[s] \/ Quelled \/ reader[s] = "error"
    <3>1. Quelled \/ reader[s] # "reading"
      BY <1>1, <2>1
    <3>2. reader[s] = "eof" => total[s] = written[s]
      BY <1>1
    <3> QED BY <1>1, <2>3, <3>1, <3>2
  <2>5. outcome # "success"
    BY <1>1, <2>1
  <2> QED BY <1>1, <2>1, <2>2, <2>4, <2>5
<1>19. CASE Cancel
  BY <1>1, <1>19 DEF Cancel, Finally, Term, Reaped
<1>20. ASSUME NEW s \in Streams, ReadUnit(s) PROVE CaptureInv'
  BY <1>1, <1>20 DEF ReadUnit, Reading, InPipe
<1>21. ASSUME NEW s \in Streams, ReadEnd(s) PROVE CaptureInv'
  BY <1>1, <1>21 DEF ReadEnd, Reading, InPipe
<1>22. ASSUME NEW s \in Streams, ReadFails(s) PROVE CaptureInv'
  BY <1>1, <1>22 DEF ReadFails, Reading
<1>23. ASSUME NEW p \in Procs, NEW h \in Helpers, Fork(p, h) PROVE CaptureInv'
  BY <1>1, <1>23 DEF Fork, Acts
<1>24. ASSUME NEW p \in Procs, IgnoreTerm(p) PROVE CaptureInv'
  BY <1>1, <1>24 DEF IgnoreTerm, Acts
<1>25. ASSUME NEW p \in Procs, NEW s \in Streams, CloseStream(p, s) PROVE CaptureInv'
  BY <1>1, <1>25 DEF CloseStream, Acts
<1>26. ASSUME NEW p \in Procs, NEW s \in Streams, Write(p, s) PROVE CaptureInv'
  BY <1>1, <1>26 DEF Write, Acts
<1>27. ASSUME NEW p \in Procs, NEW code \in {"ok", "bad"}, Die(p, code) PROVE CaptureInv'
  BY <1>1, <1>27 DEF Die
<1>28. ASSUME NEW h \in Helpers, LeaveGroup(h) PROVE CaptureInv'
  BY <1>1, <1>28 DEF LeaveGroup, Acts
<1>29. ASSUME NEW h \in Helpers, LeaveTree(h) PROVE CaptureInv'
  BY <1>1, <1>29 DEF LeaveTree, Acts
<1>30. CASE UNCHANGED vars
  BY <1>1, <1>30 DEF vars
<1> HIDE DEF CaptureInv
<1>31. QED
  BY <1>1, <1>2, <1>3, <1>4, <1>5, <1>6, <1>7, <1>8, <1>9, <1>10, <1>11, <1>12, <1>13,
     <1>14, <1>15, <1>16, <1>17, <1>18, <1>19, <1>20, <1>21, <1>22, <1>23, <1>24, <1>25,
     <1>26, <1>27, <1>28, <1>29, <1>30 DEF Next, RunStep, ProcessStep

(* The invariant holds of every reachable state. *)
THEOREM Invariance == Spec => []IInv
<1>1. Init => IInv
  <2>1. SUFFICES ASSUME Init PROVE IInv
    OBVIOUS
  <2> USE <2>1, ExecutorAssumption DEF Init, Procs
  <2>2. TypeOK
    BY DEF TypeOK, Outcomes, Refusals
  <2>3. StageInv
    BY DEF StageInv, Fresh, Guarded, Outcomes
  <2>4. LeaderInv
    BY DEF LeaderInv, Collecting, LeaderNeverOutlivesRun
  <2>5. GroupInv
    BY DEF GroupInv, Quelled
  <2>6. CaptureInv
    BY DEF CaptureInv, Outcomes
  <2>7. QED
    BY <2>2, <2>3, <2>4, <2>5, <2>6 DEF IInv
<1>2. IInv /\ [Next]_vars => IInv'
  BY TypeStep, StageStep, LeaderStep, GroupStep, CaptureStep DEF IInv
<1>3. QED
  BY <1>1, <1>2, PTL DEF Spec

(* Every variable of a run stays in its type, what is kept of the output    *)
(* within capacity among them.                                              *)
THEOREM TypeCorrectness == Spec => []TypeOK
<1>1. IInv => TypeOK
  BY DEF IInv
<1>2. QED
  BY Invariance, <1>1, PTL

(* A success is a leader that exited well before run signalled it: the      *)
(* outcome is set in a run that did not time out, and only a run that did   *)
(* signals the leader.                                                      *)
THEOREM SuccessIsTheCommandsOwn == Spec => []SuccessIsUndisturbed
<1>1. IInv => SuccessIsUndisturbed
  BY DEF IInv, StageInv, LeaderInv, SuccessIsUndisturbed
<1>2. QED
  BY Invariance, <1>1, PTL

(* A result is returned over a collected leader, and TimeoutExpired raised  *)
(* over a killed one.                                                       *)
THEOREM LeaderIsCollected == Spec => []LeaderNeverOutlivesRun
<1>1. IInv => LeaderNeverOutlivesRun
  BY DEF IInv, LeaderInv
<1>2. QED
  BY Invariance, <1>1, PTL

(* A capture thread that still reads when run returns is kept reading by a  *)
(* process outside the group or by one that has been killed.                *)
THEOREM GroupIsKilledForItsPipes == Spec => []PipeHoldersAreOutside
<1>1. IInv => PipeHoldersAreOutside
  BY DEF IInv, GroupInv, Quelled, Captured, PipeHoldersAreOutside
<1>2. QED
  BY Invariance, <1>1, PTL

(* Output is missing from a success, and not flagged, only where the whole  *)
(* group was killed for a pipe held open.                                   *)
THEOREM LossIsForced == Spec => []LossMeansForce
<1>1. ASSUME IInv PROVE LossMeansForce
  <2>1. SUFFICES ASSUME outcome = "success",
                        NEW s \in Streams,
                        output[s].kept < written[s], ~output[s].truncated
                 PROVE  Quelled
    BY DEF LossMeansForce, Quelled
  <2>2. pc = "done" /\ output[s] # None /\ reader[s] # "error"
    BY <1>1, <2>1 DEF IInv, StageInv, CaptureInv
  <2>3. output[s].kept \in Nat /\ written[s] \in Nat
    BY <1>1, <2>1, <2>2, ExecutorAssumption DEF IInv, TypeOK
  <2>4. output[s].kept = written[s] \/ Quelled
    BY <1>1, <2>1, <2>2 DEF IInv, CaptureInv
  <2>5. QED
    BY <2>1, <2>3, <2>4
<1>2. QED
  BY Invariance, <1>1, PTL
=============================================================================
