----------------------------- MODULE WriteOnce -----------------------------
(***************************************************************************)
(* What nodelm promises of an artifact path: it is absent, or it holds one  *)
(* complete content, and no program step ever replaces that content.  The   *)
(* only way back to absence is a power failure, which may forget directory  *)
(* entries the file system had not yet made durable.                        *)
(***************************************************************************)
CONSTANTS
  Paths,      \* deterministic artifact paths
  Contents,   \* byte strings an artifact may hold
  Absent      \* no artifact at the path

VARIABLES
  store,      \* what a reader finds at each path
  settled     \* the paths whose entry survives a power failure

wvars == <<store, settled>>

WInit ==
  /\ store = [p \in Paths |-> Absent]
  /\ settled = {}

(* A path receives its content, once. *)
Publish(p, v) ==
  /\ store[p] = Absent
  /\ store' = [store EXCEPT ![p] = v]
  /\ UNCHANGED settled

(* The file system writes the entry of a published path to disk. *)
Settle(p) ==
  /\ store[p] # Absent
  /\ settled' = settled \cup {p}
  /\ UNCHANGED store

(* A power failure forgets some entries that were not settled. *)
Forget(S) ==
  /\ S \cap settled = {}
  /\ store' = [p \in Paths |-> IF p \in S THEN Absent ELSE store[p]]
  /\ UNCHANGED settled

WNext ==
  \/ \E p \in Paths, v \in Contents : Publish(p, v)
  \/ \E p \in Paths : Settle(p)
  \/ \E S \in SUBSET Paths : Forget(S)

WSpec == WInit /\ [][WNext]_wvars
=============================================================================
