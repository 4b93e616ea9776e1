----------------------- MODULE ImmutablePublishProofs -----------------------
(***************************************************************************)
(* Proofs about ImmutablePublish for any number of calls, paths, contents   *)
(* and power failures.                                                      *)
(***************************************************************************)
EXTENDS ImmutablePublish, TLAPS

(* The life of one call: what its phase says of its bytes and its outcome.  *)
PhaseInv ==
  \A c \in Calls :
    /\ pc[c] = "writing" => data[c] = "empty"
    /\ pc[c] \in {"hashed", "checked", "taken"} => data[c] = "synced"
    /\ pc[c] \in {"idle", "writing", "written", "hashed", "checked", "taken"}
         => outcome[c] = "none"
    /\ pc[c] = "done" => c \notin linked
    /\ ended[c] <= epoch

(* A final name leads to an fsynced inode whose call linked it there.       *)
EntryInv ==
  \A p \in Paths :
    entry[p] # Absent =>
      /\ data[entry[p]] = "synced"
      /\ outcome[entry[p]] = "created"
      /\ target[entry[p]] = p

(* A call that is about to return, or returned in this epoch, successfully  *)
(* finds its bytes at its path.                                             *)
SuccessInv ==
  \A c \in Calls :
    /\ outcome[c] \in Success
    /\ pc[c] = "cleanup" \/ (pc[c] = "done" /\ ended[c] = epoch)
    => ContentAt(target[c]) = payload[c]

IInv == TypeOK /\ PhaseInv /\ EntryInv /\ SuccessInv

----------------------------------------------------------------------------
(* The invariant holds initially.                                           *)
LEMMA InitIInv == Init => IInv
<1> SUFFICES ASSUME Init PROVE IInv
  OBVIOUS
<1>1. TypeOK
  BY PublishAssumption DEF Init, TypeOK, Phases, Outcomes
<1>2. PhaseInv /\ EntryInv /\ SuccessInv
  BY DEF Init, PhaseInv, EntryInv, SuccessInv, Success
<1> QED BY <1>1, <1>2 DEF IInv

(* Every step keeps the types.                                              *)
LEMMA NextTypeOK == TypeOK /\ [Next]_vars => TypeOK'
<1> SUFFICES ASSUME TypeOK, [Next]_vars PROVE TypeOK'
  OBVIOUS
<1> USE DEF TypeOK, Phases, Outcomes
<1>1. ASSUME NEW c \in Calls, CallStep(c) PROVE TypeOK'
  <2>1. CASE OpenTemporary(c) \/ Write(c) \/ SyncAndHash(c)
    BY <2>1 DEF OpenTemporary, Write, SyncAndHash, Goto
  <2>2. CASE Raise(c) \/ BeforePublish(c) \/ LinkTaken(c) \/ Kill(c)
    BY <2>2 DEF Raise, BeforePublish, LinkTaken, Kill, Goto
  <2>3. CASE Link(c) \/ Compare(c) \/ Cleanup(c)
    BY <2>3 DEF Link, Compare, Cleanup, Goto
  <2> QED BY <1>1, <2>1, <2>2, <2>3 DEF CallStep
<1>2. ASSUME NEW p \in Paths, WriteBack(p) PROVE TypeOK'
  BY <1>2 DEF WriteBack
<1>3. ASSUME NEW lost \in SUBSET Paths, PowerFailure(lost) PROVE TypeOK'
  BY <1>3, PublishAssumption DEF PowerFailure
<1>4. CASE UNCHANGED vars
  BY <1>4 DEF vars
<1> QED BY <1>1, <1>2, <1>3, <1>4 DEF Next

(* Every step keeps what a call's phase says.                               *)
LEMMA NextPhaseInv == IInv /\ [Next]_vars => PhaseInv'
<1> SUFFICES ASSUME IInv, [Next]_vars, NEW d \in Calls PROVE PhaseInv!(d)'
  BY DEF PhaseInv
<1> USE DEF IInv, TypeOK, PhaseInv, Phases
<1>1. ASSUME NEW c \in Calls, CallStep(c) PROVE PhaseInv!(d)'
  <2>1. CASE OpenTemporary(c) \/ Write(c) \/ SyncAndHash(c)
    BY <2>1 DEF OpenTemporary, Write, SyncAndHash, Goto
  <2>2. CASE Raise(c) \/ BeforePublish(c) \/ LinkTaken(c) \/ Kill(c)
    BY <2>2 DEF Raise, BeforePublish, LinkTaken, Kill, Goto
  <2>3. CASE Link(c) \/ Compare(c) \/ Cleanup(c)
    BY <2>3 DEF Link, Compare, Cleanup, Goto
  <2> QED BY <1>1, <2>1, <2>2, <2>3 DEF CallStep
<1>2. ASSUME NEW p \in Paths, WriteBack(p) PROVE PhaseInv!(d)'
  BY <1>2 DEF WriteBack
<1>3. ASSUME NEW lost \in SUBSET Paths, PowerFailure(lost) PROVE PhaseInv!(d)'
  BY <1>3 DEF PowerFailure, Running
<1>4. CASE UNCHANGED vars
  BY <1>4 DEF vars
<1> QED BY <1>1, <1>2, <1>3, <1>4 DEF Next

(* No step disturbs the inode behind a final name.                          *)
LEMMA NextEntryInv == IInv /\ [Next]_vars => EntryInv'
<1> SUFFICES ASSUME IInv, [Next]_vars, NEW q \in Paths, entry'[q] # Absent
             PROVE  /\ data'[entry'[q]] = "synced"
                    /\ outcome'[entry'[q]] = "created"
                    /\ target'[entry'[q]] = q
  BY DEF EntryInv
<1> USE DEF IInv, TypeOK, PhaseInv, EntryInv, Phases
<1>1. ASSUME NEW c \in Calls, CallStep(c)
      PROVE  /\ data'[entry'[q]] = "synced"
             /\ outcome'[entry'[q]] = "created"
             /\ target'[entry'[q]] = q
  <2>1. CASE OpenTemporary(c) \/ Write(c) \/ SyncAndHash(c)
    BY <2>1 DEF OpenTemporary, Write, SyncAndHash, Goto
  <2>2. CASE BeforePublish(c) \/ LinkTaken(c) \/ Kill(c) \/ Cleanup(c)
    BY <2>2 DEF BeforePublish, LinkTaken, Kill, Cleanup, Goto
  <2>3. CASE Raise(c) \/ Compare(c)
    <3>1. outcome[c] = "none"
      BY <2>3 DEF Raise, Compare, Goto
    <3> QED BY <2>3, <3>1 DEF Raise, Compare, Goto
  <2>4. CASE Link(c)
    BY <2>4 DEF Link, Goto
  <2> QED BY <1>1, <2>1, <2>2, <2>3, <2>4 DEF CallStep
<1>2. ASSUME NEW p \in Paths, WriteBack(p)
      PROVE  /\ data'[entry'[q]] = "synced"
             /\ outcome'[entry'[q]] = "created"
             /\ target'[entry'[q]] = q
  BY <1>2 DEF WriteBack
<1>3. ASSUME NEW lost \in SUBSET Paths, PowerFailure(lost)
      PROVE  /\ data'[entry'[q]] = "synced"
             /\ outcome'[entry'[q]] = "created"
             /\ target'[entry'[q]] = q
  BY <1>3 DEF PowerFailure
<1>4. CASE UNCHANGED vars
  BY <1>4 DEF vars
<1> QED BY <1>1, <1>2, <1>3, <1>4 DEF Next

(* No call's step changes what a path that holds an artifact holds.         *)
LEMMA ContentStable ==
  ASSUME IInv, NEW c \in Calls, CallStep(c), NEW q \in Paths,
         entry[q] # Absent
  PROVE  /\ entry'[q] = entry[q]
         /\ ContentAt(q)' = ContentAt(q)
<1> USE DEF IInv, TypeOK, PhaseInv, EntryInv, Phases
<1>1. entry'[q] = entry[q] /\ payload' = payload
  BY DEF CallStep, OpenTemporary, Write, SyncAndHash, Raise, BeforePublish, Link,
         LinkTaken, Compare, Cleanup, Kill, Goto
<1>2. data'[entry[q]] = data[entry[q]]
  BY DEF CallStep, OpenTemporary, Write, SyncAndHash, Raise, BeforePublish, Link,
         LinkTaken, Compare, Cleanup, Kill, Goto
<1> QED BY <1>1, <1>2 DEF ContentAt

(* Where a call publishes and what it writes are its arguments.             *)
LEMMA ArgumentsStable == [Next]_vars => UNCHANGED <<target, payload>>
BY DEF Next, CallStep, OpenTemporary, Write, SyncAndHash, Raise, BeforePublish,
       Link, LinkTaken, Compare, Cleanup, Kill, WriteBack, PowerFailure, vars

(* A successful call keeps finding its bytes.                               *)
LEMMA NextSuccessInv == IInv /\ [Next]_vars => SuccessInv'
<1> SUFFICES ASSUME IInv, [Next]_vars, NEW d \in Calls,
                    outcome'[d] \in Success,
                    pc'[d] = "cleanup" \/ (pc'[d] = "done" /\ ended'[d] = epoch')
             PROVE  ContentAt(target[d])' = payload'[d]
  BY ArgumentsStable DEF SuccessInv
<1> USE DEF IInv, TypeOK, Phases, Outcomes, Success
<1>1. ASSUME NEW c \in Calls, CallStep(c) PROVE ContentAt(target[d])' = payload'[d]
  <2>0. target' = target /\ payload' = payload
    BY <1>1 DEF CallStep, OpenTemporary, Write, SyncAndHash, Raise, BeforePublish,
                Link, LinkTaken, Compare, Cleanup, Kill
  <2>1. CASE Link(c) /\ c = d
    <3>1. data'[d] = "synced" /\ entry'[target[d]] = d
      BY <2>1 DEF Link, Goto, PhaseInv
    <3> QED BY <2>0, <3>1, PublishAssumption DEF ContentAt
  <2>2. CASE Compare(c) /\ c = d
    <3>1. ContentAt(target[d]) = payload[d]
      BY <2>2 DEF Compare, Goto
    <3>2. entry[target[d]] # Absent
      BY <3>1, PublishAssumption DEF ContentAt
    <3> QED BY <1>1, <2>0, <3>1, <3>2, ContentStable
  <2>3. CASE ~(Link(c) /\ c = d) /\ ~(Compare(c) /\ c = d)
    <3>1. /\ outcome[d] \in Success
          /\ pc[d] = "cleanup" \/ (pc[d] = "done" /\ ended[d] = epoch)
      BY <1>1, <2>3 DEF CallStep, OpenTemporary, Write, SyncAndHash, Raise, BeforePublish,
                        Link, LinkTaken, Compare, Cleanup, Kill, Goto
    <3>2. ContentAt(target[d]) = payload[d]
      BY <3>1 DEF SuccessInv
    <3>3. entry[target[d]] # Absent
      BY <3>2, PublishAssumption DEF ContentAt
    <3> QED BY <1>1, <2>0, <3>2, <3>3, ContentStable
  <2> QED BY <2>1, <2>2, <2>3
<1>2. ASSUME NEW p \in Paths, WriteBack(p) PROVE ContentAt(target[d])' = payload'[d]
  BY <1>2 DEF WriteBack, SuccessInv, ContentAt
<1>3. ASSUME NEW lost \in SUBSET Paths, PowerFailure(lost)
      PROVE ContentAt(target[d])' = payload'[d]
  <2>1. pc'[d] # "cleanup"
    BY <1>3 DEF PowerFailure, Running
  <2>2. pc'[d] = "done" /\ ended[d] = epoch + 1
    BY <1>3, <2>1 DEF PowerFailure
  <2> QED BY <2>2 DEF PhaseInv
<1>4. CASE UNCHANGED vars
  BY <1>4 DEF vars, SuccessInv, ContentAt
<1> QED BY <1>1, <1>2, <1>3, <1>4 DEF Next
(* The invariant is inductive.                                              *)
THEOREM Invariance == Spec => []IInv
<1>1. IInv /\ [Next]_vars => IInv'
  BY NextTypeOK, NextPhaseInv, NextEntryInv, NextSuccessInv DEF IInv
<1> QED BY InitIInv, <1>1, PTL DEF Spec

(* The state of every call, inode and name stays well formed.               *)
THEOREM TypeCorrectness == Spec => []TypeOK
<1>1. IInv => TypeOK
  BY DEF IInv
<1> QED BY Invariance, <1>1, PTL

(* No reader of an artifact path ever finds torn bytes.                     *)
THEOREM ArtifactsWhole == Spec => []NoTornArtifact
<1>1. IInv => NoTornArtifact
  BY PublishAssumption DEF IInv, TypeOK, EntryInv, NoTornArtifact, ContentAt
<1> QED BY Invariance, <1>1, PTL

(* A successful call finds its own bytes at its path.                       *)
THEOREM SuccessMeansPublished == Spec => []ReturnedIsPublished
<1>1. IInv => ReturnedIsPublished
  BY DEF IInv, SuccessInv, ReturnedIsPublished
<1> QED BY Invariance, <1>1, PTL

(* A call that raised owns no artifact and left no temporary name.          *)
THEOREM AbortsAreClean == Spec => []AbortLeavesNothing
<1>1. IInv => AbortLeavesNothing
  BY PublishAssumption DEF IInv, TypeOK, PhaseInv, EntryInv, AbortLeavesNothing
<1> QED BY Invariance, <1>1, PTL

----------------------------------------------------------------------------
(* Every step publishes once, settles, forgets after a power failure, or    *)
(* leaves what readers find alone.                                          *)
LEMMA StepRefines == IInv /\ [Next]_vars => [Abstract!WNext]_(Abstract!wvars)
<1> SUFFICES ASSUME IInv, [Next]_vars
             PROVE  [Abstract!WNext]_(Abstract!wvars)
  OBVIOUS
<1> USE DEF IInv, TypeOK, Phases
<1>0. UNCHANGED <<target, payload>>
  BY ArgumentsStable
<1>1. ASSUME NEW c \in Calls, Link(c)
      PROVE  Abstract!Publish(target[c], payload[c])
  <2>1. ContentAt(target[c]) = Absent
    BY <1>1 DEF Link, ContentAt
  <2>2. ContentAt(target[c])' = payload[c]
    BY <1>1, PublishAssumption DEF Link, Goto, ContentAt, PhaseInv
  <2>3. ASSUME NEW q \in Paths, q # target[c] PROVE ContentAt(q)' = ContentAt(q)
    BY <1>1, <2>3 DEF Link, ContentAt
  <2>4. durable' = durable
    BY <1>1 DEF Link
  <2>5. target[c] \in Paths /\ target' = target
    BY <1>0
  <2>6. [p \in Paths |-> ContentAt(p)']
          = [[p \in Paths |-> ContentAt(p)] EXCEPT ![target[c]] = payload[c]]
    BY <2>2, <2>3, <2>5
  <2> QED BY <2>1, <2>4, <2>5, <2>6 DEF Abstract!Publish
<1>2. ASSUME NEW c \in Calls, CallStep(c), ~Link(c)
      PROVE  UNCHANGED Abstract!wvars
  <2>1. durable' = durable /\ entry' = entry
    BY <1>2 DEF CallStep, OpenTemporary, Write, SyncAndHash, Raise, BeforePublish,
                LinkTaken, Compare, Cleanup, Kill
  <2>2. ASSUME NEW q \in Paths PROVE ContentAt(q)' = ContentAt(q)
    <3>1. CASE entry[q] = Absent
      BY <2>1, <3>1 DEF ContentAt
    <3>2. CASE entry[q] # Absent
      BY <1>2, <3>2, ContentStable
    <3> QED BY <3>1, <3>2
  <2> QED BY <2>1, <2>2 DEF Abstract!wvars
<1>3. ASSUME NEW p \in Paths, WriteBack(p)
      PROVE  Abstract!Settle(p)
  <2>1. ContentAt(p) # Absent
    BY <1>3, PublishAssumption DEF WriteBack, ContentAt
  <2>2. ASSUME NEW q \in Paths PROVE ContentAt(q)' = ContentAt(q)
    BY <1>3 DEF WriteBack, ContentAt
  <2>3. durable' = durable \cup {p}
    BY <1>3 DEF WriteBack
  <2> QED BY <2>1, <2>2, <2>3 DEF Abstract!Settle
<1>4. ASSUME NEW lost \in SUBSET Paths, PowerFailure(lost)
      PROVE  Abstract!Forget(lost)
  <2>1. ASSUME NEW q \in Paths
        PROVE ContentAt(q)' = IF q \in lost THEN Absent ELSE ContentAt(q)
    BY <1>4 DEF PowerFailure, ContentAt, EntryInv
  <2>2. lost \cap durable = {} /\ durable' = durable
    BY <1>4 DEF PowerFailure
  <2> QED BY <2>1, <2>2 DEF Abstract!Forget
<1>5. CASE UNCHANGED vars
  BY <1>5 DEF vars, Abstract!wvars, ContentAt
<1>6. ASSUME NEW c \in Calls, CallStep(c) PROVE [Abstract!WNext]_(Abstract!wvars)
  BY <1>1, <1>2, <1>6 DEF Abstract!WNext
<1> QED BY <1>3, <1>4, <1>5, <1>6 DEF Next, Abstract!WNext

(* Publication implements write-once paths.                                 *)
THEOREM RefinesWriteOnce == Spec => WriteOnceSpec
<1>1. Init => Abstract!WInit
  BY DEF Init, Abstract!WInit, ContentAt
<1> QED BY <1>1, Invariance, StepRefines, PTL DEF Spec, WriteOnceSpec, Abstract!WSpec
=============================================================================
