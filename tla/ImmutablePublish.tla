-------------------------- MODULE ImmutablePublish --------------------------
(***************************************************************************)
(* nodelm.artifacts.write_immutable_stream: the one way the program         *)
(* publishes an artifact.  Each call writes a private temporary file in the *)
(* artifact's directory, flushes and fsyncs it, hashes it, runs the         *)
(* caller's before_publish hook, hard-links the file to its final name      *)
(* (never clobbering), compares bytes if the name was taken, and unlinks    *)
(* the temporary name whatever happened.                                    *)
(*                                                                          *)
(* Calls of several processes interleave at every system call.  A process   *)
(* can be killed at any step, which skips the finally block.  The machine   *)
(* can lose power: data not fsynced is torn, and names not yet written back *)
(* may vanish (the code fsyncs the file, never its directory).              *)
(*                                                                          *)
(* An inode is named by the call that created it: entry[p] is the call      *)
(* whose temporary file was linked at p.                                    *)
(***************************************************************************)
EXTENDS Naturals

CONSTANTS
  Calls,        \* calls of write_immutable_stream, over all processes
  Paths,        \* deterministic artifact paths
  Contents,     \* what a caller's writer can produce
  Absent,       \* nothing at a path
  Torn,         \* a content that is not what any writer wrote
  MaxOutages    \* bound on power failures

ASSUME PublishAssumption ==
  /\ MaxOutages \in Nat
  /\ Absent \notin Contents \cup Calls
  /\ Torn \notin Contents \cup {Absent}

VARIABLES
  pc,        \* where each call is
  target,    \* the path each call publishes
  payload,   \* what each call's writer writes
  data,      \* state of the bytes of each call's inode
  linked,    \* the calls whose temporary name exists in the directory
  entry,     \* the inode each final name leads to, or Absent
  durable,   \* the final names that survive a power failure
  outcome,   \* how each call ended
  epoch,     \* the number of power failures so far
  ended      \* the epoch in which each call ended

vars == <<pc, target, payload, data, linked, entry, durable, outcome, epoch, ended>>

Phases == {"idle", "writing", "written", "hashed", "checked", "taken", "cleanup",
           "done", "killed"}
Outcomes == {"none", "created", "reused", "collision", "raised"}
Success == {"created", "reused"}

(* What a reader of path p finds. *)
ContentAt(p) ==
  IF entry[p] = Absent THEN Absent
  ELSE IF data[entry[p]] \in {"buffered", "synced"} THEN payload[entry[p]] ELSE Torn

Running(c) == pc[c] \notin {"idle", "done", "killed"}

TypeOK ==
  /\ pc \in [Calls -> Phases]
  /\ target \in [Calls -> Paths]
  /\ payload \in [Calls -> Contents]
  /\ data \in [Calls -> {"none", "empty", "buffered", "synced", "torn"}]
  /\ linked \subseteq Calls
  /\ entry \in [Paths -> Calls \cup {Absent}]
  /\ durable \subseteq Paths
  /\ outcome \in [Calls -> Outcomes]
  /\ epoch \in 0..MaxOutages
  /\ ended \in [Calls -> 0..MaxOutages]

----------------------------------------------------------------------------
Init ==
  /\ pc = [c \in Calls |-> "idle"]
  /\ target \in [Calls -> Paths]
  /\ payload \in [Calls -> Contents]
  /\ data = [c \in Calls |-> "none"]
  /\ linked = {}
  /\ entry = [p \in Paths |-> Absent]
  /\ durable = {}
  /\ outcome = [c \in Calls |-> "none"]
  /\ epoch = 0
  /\ ended = [c \in Calls |-> 0]

Goto(c, from, to) ==
  /\ pc[c] = from
  /\ pc' = [pc EXCEPT ![c] = to]

(* path.parent.mkdir and tempfile.mkstemp in the artifact's own directory. *)
OpenTemporary(c) ==
  /\ Goto(c, "idle", "writing")
  /\ linked' = linked \cup {c}
  /\ data' = [data EXCEPT ![c] = "empty"]
  /\ UNCHANGED <<target, payload, entry, durable, outcome, epoch, ended>>

(* writer(temporary) returns: every byte is in the file, none need be on disk. *)
Write(c) ==
  /\ Goto(c, "writing", "written")
  /\ data' = [data EXCEPT ![c] = "buffered"]
  /\ UNCHANGED <<target, payload, linked, entry, durable, outcome, epoch, ended>>

SyncAndHashNoFsync(c) ==
  /\ Goto(c, "written", "hashed")
  /\ UNCHANGED <<target, payload, data, linked, entry, durable, outcome, epoch, ended>>

(* flush, os.fsync and the digest of the temporary file. *)
SyncAndHash(c) ==
  /\ Goto(c, "written", "hashed")
  /\ data' = [data EXCEPT ![c] = "synced"]
  /\ UNCHANGED <<target, payload, linked, entry, durable, outcome, epoch, ended>>

RaiseLeavingTemporary(c) ==
  /\ pc[c] \in {"writing", "written", "hashed"}
  /\ pc' = [pc EXCEPT ![c] = "done"]
  /\ outcome' = [outcome EXCEPT ![c] = "raised"]
  /\ ended' = [ended EXCEPT ![c] = epoch]
  /\ UNCHANGED <<target, payload, data, linked, entry, durable, epoch>>

(* The writer, the fsync or the before_publish hook raises: the finally     *)
(* block runs and nothing is linked.                                        *)
Raise(c) ==
  /\ pc[c] \in {"writing", "written", "hashed"}
  /\ pc' = [pc EXCEPT ![c] = "cleanup"]
  /\ outcome' = [outcome EXCEPT ![c] = "raised"]
  /\ UNCHANGED <<target, payload, data, linked, entry, durable, epoch, ended>>

(* The before_publish hook, or its absence, lets the call go on. *)
BeforePublish(c) ==
  /\ Goto(c, "hashed", "checked")
  /\ UNCHANGED <<target, payload, data, linked, entry, durable, outcome, epoch, ended>>

(* os.replace in the place of os.link would clobber. *)
LinkByReplacing(c) ==
  /\ Goto(c, "checked", "cleanup")
  /\ entry' = [entry EXCEPT ![target[c]] = c]
  /\ durable' = durable \ {target[c]}
  /\ outcome' = [outcome EXCEPT ![c] = "created"]
  /\ UNCHANGED <<target, payload, data, linked, epoch, ended>>

(* os.link succeeds: the final name leads to this call's inode. *)
Link(c) ==
  /\ Goto(c, "checked", "cleanup")
  /\ entry[target[c]] = Absent
  /\ entry' = [entry EXCEPT ![target[c]] = c]
  /\ outcome' = [outcome EXCEPT ![c] = "created"]
  /\ UNCHANGED <<target, payload, data, linked, durable, epoch, ended>>

(* os.link raises FileExistsError. *)
LinkTaken(c) ==
  /\ Goto(c, "checked", "taken")
  /\ entry[target[c]] # Absent
  /\ UNCHANGED <<target, payload, data, linked, entry, durable, outcome, epoch, ended>>

CompareTrusting(c) ==
  /\ Goto(c, "taken", "cleanup")
  /\ outcome' = [outcome EXCEPT ![c] = "reused"]
  /\ UNCHANGED <<target, payload, data, linked, entry, durable, epoch, ended>>

CompareAsContent(c) ==
  /\ Goto(c, "taken", "cleanup")
  /\ outcome' = [outcome EXCEPT ![c] = ContentAt(target[c])]
  /\ UNCHANGED <<target, payload, data, linked, entry, durable, epoch, ended>>

(* _files_equal of the temporary and the existing file: equal bytes are     *)
(* reused, different bytes raise ArtifactCollisionError.                    *)
Compare(c) ==
  /\ Goto(c, "taken", "cleanup")
  /\ outcome' = [outcome EXCEPT
       ![c] = IF ContentAt(target[c]) = payload[c] THEN "reused" ELSE "collision"]
  /\ UNCHANGED <<target, payload, data, linked, entry, durable, epoch, ended>>

(* The finally block unlinks the temporary name, and the call ends. *)
Cleanup(c) ==
  /\ Goto(c, "cleanup", "done")
  /\ linked' = linked \ {c}
  /\ ended' = [ended EXCEPT ![c] = epoch]
  /\ UNCHANGED <<target, payload, data, entry, durable, outcome, epoch>>

(* The process dies: no finally block runs and the temporary name stays. *)
Kill(c) ==
  /\ Running(c)
  /\ pc' = [pc EXCEPT ![c] = "killed"]
  /\ UNCHANGED <<target, payload, data, linked, entry, durable, outcome, epoch, ended>>

(* The file system writes a directory entry back in its own time. *)
WriteBack(p) ==
  /\ entry[p] # Absent
  /\ p \notin durable
  /\ durable' = durable \cup {p}
  /\ UNCHANGED <<pc, target, payload, data, linked, entry, outcome, epoch, ended>>

(* Power fails: every running call dies, bytes not fsynced are torn, and    *)
(* any set of final names not written back is forgotten.                    *)
PowerFailure(lost) ==
  /\ epoch < MaxOutages
  /\ lost \cap durable = {}
  /\ epoch' = epoch + 1
  /\ pc' = [c \in Calls |-> IF Running(c) THEN "killed" ELSE pc[c]]
  /\ data' = [c \in Calls |-> IF data[c] = "buffered" THEN "torn" ELSE data[c]]
  /\ entry' = [p \in Paths |-> IF p \in lost THEN Absent ELSE entry[p]]
  /\ UNCHANGED <<target, payload, linked, durable, outcome, ended>>

CallStep(c) ==
  \/ OpenTemporary(c) \/ Write(c) \/ SyncAndHash(c) \/ Raise(c) \/ BeforePublish(c)
  \/ Link(c) \/ LinkTaken(c) \/ Compare(c) \/ Cleanup(c) \/ Kill(c)

Next ==
  \/ \E c \in Calls : CallStep(c)
  \/ \E p \in Paths : WriteBack(p)
  \/ \E lost \in SUBSET Paths : PowerFailure(lost)

Spec == Init /\ [][Next]_vars

----------------------------------------------------------------------------
(* A reader of an artifact path never finds a partial or torn file, not     *)
(* even after a power failure: the bytes are fsynced before they are linked *)
(* (artifacts.py, flush and os.fsync before os.link).                       *)
NoTornArtifact ==
  \A p \in Paths : ContentAt(p) # Torn

(* A call that returned, in the current epoch, finds its own bytes at its   *)
(* path, whoever put them there: "created" and "reused" mean the same to    *)
(* the caller (ArtifactWriteResult).                                        *)
ReturnedIsPublished ==
  \A c \in Calls :
    pc[c] = "done" /\ outcome[c] \in Success /\ ended[c] = epoch
      => ContentAt(target[c]) = payload[c]

(* A call that raised, for its writer, its hook or a collision, owns no     *)
(* artifact, and no call that ended on its own left its temporary name      *)
(* ("a raised exception aborts publication and removes the temporary file"  *)
(* in the docstring of write_immutable_stream).                             *)
AbortLeavesNothing ==
  \A c \in Calls :
    pc[c] = "done" =>
      /\ c \notin linked
      /\ outcome[c] # "created" => \A p \in Paths : entry[p] # c

(* Write once: a published content is never replaced by another one.        *)
Abstract == INSTANCE WriteOnce WITH
  store <- [p \in Paths |-> ContentAt(p)], settled <- durable

WriteOnceSpec == Abstract!WSpec
=============================================================================
