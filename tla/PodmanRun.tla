------------------------------ MODULE PodmanRun ------------------------------
(***************************************************************************)
(* RootlessPodmanExecutor.run: tests of code that a model has written, in  *)
(* a container of their own.  The podman client is a child with a timeout; *)
(* its container belongs to podman and goes on when the client is killed,  *)
(* until the removal by name.  Every command has an executor of its own,   *)
(* which remembers that podman and the image were there for a workspace.   *)
(*                                                                         *)
(* The client is collected before its outcome is known, as is proved of    *)
(* CommandExecutor: nothing creates a container after that.                *)
(***************************************************************************)
CONSTANT Launches          \* the commands at work

VARIABLES box,             \* the run of each command
          imageHeld,       \* the pinned image is in podman's store
          executed         \* the tests that went to their end: <<workspace, passed>>

podmanVars == <<box, imageHeld, executed>>

NoBox == [phase |-> "idle", ready |-> FALSE, container |-> "none",
          outcome |-> "none", counted |-> FALSE]

PodmanInit ==
    /\ box = [l \in Launches |-> NoBox]
    /\ imageHeld = TRUE
    /\ executed = [l \in Launches |-> {}]

\* What run changes when it is called: the name of the container is new, and a container of
\* an earlier call that could not be removed keeps its own.
Called(l, newWorkspace) ==
    [box EXCEPT ![l] = [NoBox EXCEPT !.phase = "asked", !.ready = box[l].ready /\ ~newWorkspace]]

\* _ensure_ready; what was found for this workspace is not looked for again.
EnsureReady(l) ==
    /\ box[l].phase = "asked"
    /\ \E rootless \in BOOLEAN :
          LET available == box[l].ready \/ (rootless /\ imageHeld)
          IN  box' = [box EXCEPT ![l].phase = IF available THEN "client" ELSE "unavailable",
                                 ![l].ready = available]
    /\ UNCHANGED <<imageHeld, executed>>

\* podman run --pull=never
CreateContainer(l) ==
    /\ box[l].phase = "client" /\ box[l].container = "none" /\ imageHeld
    /\ box' = [box EXCEPT ![l].container = "running"]
    /\ UNCHANGED <<imageHeld, executed>>

Ended(l, outcome, counted, container) ==
    box' = [box EXCEPT ![l].phase = "removing", ![l].outcome = outcome,
                       ![l].counted = counted, ![l].container = container]

\* The tests end, and podman with their status; their summary may be among the lost output.
TestsEnd(l, workspace, passed) ==
    /\ box[l].phase = "client" /\ box[l].container = "running"
    /\ \E counted \in BOOLEAN, container \in {"none", "stopped"} :
          Ended(l, IF passed THEN "SUCCESS" ELSE "TEST_FAILURE", counted, container)
    /\ executed' = [executed EXCEPT ![l] = @ \cup {<<workspace, passed>>}]
    /\ UNCHANGED imageHeld

\* podman cannot start the container, or a limit ends it: this is another failing test.
ContainerFails(l) ==
    /\ box[l].phase = "client"
    /\ Ended(l, "TEST_FAILURE", FALSE, "none")
    /\ UNCHANGED <<imageHeld, executed>>

\* The executor kills the client, wherever it is.
ClientTimesOut(l) ==
    /\ box[l].phase = "client"
    /\ Ended(l, "TIMEOUT", FALSE, box[l].container)
    /\ UNCHANGED <<imageHeld, executed>>

\* The forced removal by name, in the finally; a container that is gone is none to fail on.
ForceRemove(l) ==
    /\ box[l].phase = "removing"
    /\ \/ box' = [box EXCEPT ![l].phase = "returned", ![l].container = "none"]
       \/ box' = [box EXCEPT ![l].phase = "returned", ![l].outcome = "INTERNAL_FAILURE"]
    /\ UNCHANGED <<imageHeld, executed>>

\* Somebody prunes the store.
PruneHeldImage ==
    /\ imageHeld /\ imageHeld' = FALSE
    /\ UNCHANGED <<box, executed>>

PodmanStep(l) ==
    \/ EnsureReady(l) \/ CreateContainer(l) \/ ContainerFails(l) \/ ClientTimesOut(l)
    \/ ForceRemove(l)

-----------------------------------------------------------------------------
PodmanTypeOK ==
    /\ imageHeld \in BOOLEAN
    /\ \A l \in Launches :
          /\ box[l].phase \in {"idle", "asked", "unavailable", "client", "removing", "returned"}
          /\ box[l].container \in {"none", "running", "stopped"}
          /\ box[l].container # "none" => box[l].phase \in {"client", "removing", "returned"}

\* The forced removal may meet a container that runs, has stopped, is gone or never was; any
\* outcome that run returns but INTERNAL_FAILURE means that there is none.
NoContainerIsLeft(l) ==
    box[l].phase = "returned" /\ box[l].outcome # "INTERNAL_FAILURE" => box[l].container = "none"
=============================================================================
