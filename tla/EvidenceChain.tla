--------------------------- MODULE EvidenceChain ---------------------------
(***************************************************************************)
(* The commands of cli.py as publishers of files bound to one another by    *)
(* digests.  Whatever it computes, a command captures the identities of     *)
(* its inputs, refuses what the trust roots in the code or the manifests it *)
(* read do not bind, copies its inputs to a private staging directory,      *)
(* derives its outputs from the copies, and publishes them one after the    *)
(* other, its manifest last; before each link a hook hashes the captured    *)
(* inputs, and the outputs already published, once more, one file after the *)
(* other, and raises at the first that is not the same.  Nothing looks at a *)
(* file again between its turn in the hook and the link.                    *)
(*                                                                          *)
(* Three chains of commands: a snapshot is transferred and audited; traces  *)
(* and task provenance are materialized, normalized, reviewed, audited,     *)
(* split and drawn into a pilot; labels are recovered and a canary workset  *)
(* is built.  A command may be killed at any step and is run again.  While  *)
(* it runs, somebody may overwrite a file with one of another run, put the  *)
(* right one back, or remove it.                                            *)
(*                                                                          *)
(* The content of a file is the set of the files it carries a foreign       *)
(* version of: itself, or what a manifest records of others.  {} is the     *)
(* content that the pinned sources lead to.                                 *)
(***************************************************************************)
EXTENDS Naturals, Sequences, FiniteSets

CONSTANTS
  MaxCrashes,       \* bound on killed commands
  MaxDisturbances   \* bound on files overwritten, put back or removed

ASSUME ChainAssumption == MaxCrashes \in Nat /\ MaxDisturbances \in Nat

VARIABLES
  chain,          \* the chain at work
  files,          \* the content of every file
  planted,        \* the files whose content no command wrote
  restored,       \* the files that were ever put back
  command,        \* the command that runs, or "none"
  captured,       \* the contents whose identities it captured
  staged,         \* whether it has its private copies
  tainted,        \* whether it derived its outputs from something foreign
  published,      \* how many of its outputs it has published
  checked,        \* how many files the hook of the next one has hashed again
  slipped,        \* of these, the files disturbed since the hook's turn at them
  crashes,
  disturbances

hookVars == <<checked, slipped>>
runVars == <<command, captured, staged, tainted, published, hookVars>>
vars == <<chain, files, planted, restored, runVars, crashes, disturbances>>

Absent == {"absent"}

----------------------------------------------------------------------------
(* The commands: what they read, which of it the code pins by a digest,     *)
(* what their outputs depend on, what of it is read in place rather than    *)
(* from a staged copy, what the hook hashes again, in its order, and what   *)
(* they publish, the manifest last.                                         *)

Traces == {"registry", "contract", "receipt", "snapshot"}
Tasks == {"registry", "taskReceipt", "taskSnapshot"}
Leaf == {"raw", "rawManifest", "normalized", "manifest", "safe", "safeManifest"}

Transfer ==
  [in |-> {"registry"}, pinned |-> {}, sources |-> {"snapshot"}, live |-> {},
   hook |-> <<"registry", "snapshot">>,
   out |-> <<"receipt">>]

AuditSnapshot ==
  [in |-> {"registry", "receipt", "snapshot"}, pinned |-> {}, sources |-> {"snapshot"},
   live |-> {},
   hook |-> <<"registry", "receipt">>,
   out |-> <<"ledger", "report", "lineage">>]

Materialize ==
  [in |-> Traces, pinned |-> Traces, sources |-> {"snapshot"}, live |-> {},
   hook |-> <<"snapshot", "registry", "contract", "receipt">>,
   out |-> <<"raw", "rawManifest">>]

ProjectTasks ==
  [in |-> Tasks, pinned |-> Tasks, sources |-> {"taskSnapshot"}, live |-> {},
   hook |-> <<"taskSnapshot", "registry", "taskReceipt">>,
   out |-> <<"safe", "safeRejections", "safeManifest">>]

Normalize ==
  [in |-> Traces \cup Tasks \cup {"raw", "rawManifest", "safe", "safeRejections", "safeManifest"},
   pinned |-> Traces \cup Tasks, sources |-> {"raw", "safe"}, live |-> {},
   hook |-> <<"snapshot", "taskSnapshot", "raw", "registry", "rawManifest", "contract",
             "receipt", "safe", "safeManifest", "taskReceipt", "safeRejections">>,
   out |-> <<"normalized", "rejections", "manifest">>]

ReviewOracleIsolation ==
  [in |-> Leaf, pinned |-> {}, sources |-> {"raw", "normalized", "safe"}, live |-> {},
   hook |-> <<"raw", "rawManifest", "normalized", "manifest", "safe", "safeManifest">>,
   out |-> <<"findings", "attestation">>]

AuditGoldExposure ==
  [in |-> Leaf \cup {"attestation", "findings"}, pinned |-> {"attestation"},
   sources |-> {"normalized"}, live |-> {},
   hook |-> <<"manifest", "normalized", "attestation", "raw", "rawManifest", "safe",
             "safeManifest", "findings">>,
   out |-> <<"goldFindings", "audit">>]

BuildSplit ==
  [in |-> {"normalized", "benchmark"}, pinned |-> {}, sources |-> {"normalized", "benchmark"},
   live |-> {},
   hook |-> <<"normalized", "benchmark">>,
   out |-> <<"split">>]

BuildPilot ==
  [in |-> Leaf \cup {"attestation", "findings", "audit", "goldFindings", "split", "policy",
                     "registry"},
   pinned |-> {"audit", "split"}, sources |-> {"normalized", "split", "policy", "registry"},
   live |-> {},
   hook |-> <<"policy", "registry", "normalized", "split", "manifest", "audit",
             "goldFindings", "attestation", "raw", "rawManifest", "safe", "safeManifest",
             "findings">>,
   out |-> <<"samples", "pilot">>]

RecoverResolutions ==
  [in |-> Traces, pinned |-> Traces, sources |-> {"snapshot"}, live |-> {},
   hook |-> <<"snapshot", "registry", "contract", "receipt">>,
   out |-> <<"candidates", "queue", "recovery">>]

BuildWorkset ==
  [in |-> Traces \cup Tasks \cup {"recovery", "candidates", "queue"},
   pinned |-> Tasks \cup {"receipt"}, sources |-> {"candidates", "queue", "snapshot",
                                                   "taskSnapshot"},
   live |-> {"recovery", "candidates", "queue", "contract", "receipt", "taskReceipt"},
   hook |-> <<"snapshot", "taskSnapshot", "recovery", "candidates", "queue", "contract",
             "receipt", "taskReceipt", "registry">>,
   out |-> <<"workset", "worksetManifest">>]

Commands ==
  [transfer |-> Transfer, auditSnapshot |-> AuditSnapshot, materialize |-> Materialize,
   projectTasks |-> ProjectTasks, normalize |-> Normalize, review |-> ReviewOracleIsolation,
   auditGold |-> AuditGoldExposure, split |-> BuildSplit, pilot |-> BuildPilot,
   recover |-> RecoverResolutions, workset |-> BuildWorkset]

(* What the file a command publishes last records the identity of. *)
Records ==
  [receipt |-> {"registry", "snapshot"},
   lineage |-> {"registry", "snapshot", "receipt", "ledger", "report"},
   rawManifest |-> Traces \cup {"raw"},
   safeManifest |-> Tasks \cup {"safe", "safeRejections"},
   manifest |-> {"registry", "contract", "receipt", "taskReceipt", "raw", "rawManifest", "safe",
                 "safeManifest", "normalized", "rejections"},
   attestation |-> Leaf \cup {"findings"},
   audit |-> {"normalized", "manifest", "attestation", "goldFindings"},
   split |-> {"normalized", "benchmark"},
   pilot |-> {"normalized", "manifest", "audit", "split", "policy", "registry", "samples"},
   recovery |-> {"contract", "receipt", "snapshot", "candidates", "queue"},
   worksetManifest |-> {"recovery", "candidates", "queue", "receipt", "taskReceipt", "workset"}]

Chains ==
  [seal |-> {"transfer", "auditSnapshot"},
   normalization |-> {"materialize", "projectTasks", "normalize", "review", "auditGold",
                      "split", "pilot"},
   recovery |-> {"recover", "workset"}]

Goal == [seal |-> "lineage", normalization |-> "pilot", recovery |-> "worksetManifest"]

Outputs(c) == {Commands[c].out[i] : i \in DOMAIN Commands[c].out}
Manifest(c) == Commands[c].out[Len(Commands[c].out)]
FilesOf(ch) == UNION {Commands[c].in \cup Outputs(c) : c \in Chains[ch]}
Made(ch) ==
  (UNION {Outputs(c) : c \in Chains[ch]}) \cup (IF ch = "seal" THEN {"snapshot"} ELSE {})

(* A file of another run: its manifests were made from the same pinned      *)
(* sources, and record the files of that run.                               *)
Foreign(f) ==
  {f} \cup (IF f \in DOMAIN Records THEN Records[f] \cap Made(chain) ELSE {})

Is(f, content) == files[f] = content
Exists(f) == f \in DOMAIN files /\ files[f] # Absent

----------------------------------------------------------------------------
Init ==
  /\ chain \in DOMAIN Chains
  /\ files = [f \in FilesOf(chain) |-> IF f \in Made(chain) THEN Absent ELSE {}]
  /\ planted = {} /\ restored = {}
  /\ command = "none" /\ captured = <<>> /\ staged = FALSE /\ tainted = FALSE
  /\ published = 0 /\ checked = 0 /\ slipped = {} /\ crashes = 0 /\ disturbances = 0

(* Mutant: the count of outputs outlives the command. *)
StopKeepingCount ==
  /\ command' = "none" /\ captured' = <<>> /\ staged' = FALSE /\ tainted' = FALSE
  /\ checked' = 0 /\ slipped' = {}
  /\ UNCHANGED published

(* The command ends, with what it has published by then. *)
Stop ==
  /\ command' = "none" /\ captured' = <<>> /\ staged' = FALSE /\ tainted' = FALSE
  /\ published' = 0 /\ checked' = 0 /\ slipped' = {}

(* What a manifest of another run records, another run made. *)
Binds(m, recorded) == \A f \in recorded : f \in files[m] <=> ~Is(f, {})

(* What each command finds bound in the manifests that it reads; what it    *)
(* pins besides is right already.                                           *)
BoundReceipt == Binds("receipt", {"registry", "snapshot"})
BoundMaterialization == Binds("rawManifest", Traces \cup {"raw"})
BoundTaskProvenance == Binds("safeManifest", Tasks \cup {"safe", "safeRejections"})

BoundLeaf ==
  /\ Binds("manifest", {"raw", "rawManifest", "safe", "safeManifest", "normalized"})
  /\ Binds("rawManifest", {"raw"}) /\ Binds("safeManifest", {"safe"})

BoundAttestation == BoundLeaf /\ Binds("attestation", Leaf \cup {"findings"})

(* Nothing compares the registry of the pilot with that of its leaf. *)
BoundAudit ==
  /\ Binds("audit", {"normalized", "manifest", "attestation", "goldFindings"})
  /\ Binds("split", {"normalized"})

(* build-resolution-canary-workset parses the recovery manifest after it    *)
(* has hashed it, and compares what it finds there with what it captured.   *)
BoundRecovery ==
  \A f \in {"contract", "receipt", "snapshot", "candidates", "queue"} :
    f \in files["recovery"] <=> captured[f] # {}

Bound(c) ==
  CASE c = "auditSnapshot" -> BoundReceipt
    [] c = "normalize"     -> BoundMaterialization /\ BoundTaskProvenance
    [] c = "review"        -> BoundLeaf
    [] c = "auditGold"     -> BoundAttestation
    [] c = "pilot"         -> BoundAttestation /\ BoundAudit
    [] OTHER               -> TRUE

(* The digests that the code knows: partition contracts, seals of snapshots *)
(* and receipts, attestations, audits and split manifests.                  *)
Authorized(c) == \A f \in Commands[c].pinned : Is(f, {})

(* Mutant: the manifests are believed. *)
NotReplayed == TRUE

(* normalize computes the raw rows, the provenance and its rejections again *)
(* from the pinned snapshots.                                               *)
Replayed == \A f \in {"raw", "safe", "safeRejections"} : Is(f, {})

(* There is something left to make.  The audit of gold exposure refuses to  *)
(* run where an audit is, and a transfer where anything is.                 *)
Wanted(c) ==
  /\ \E o \in Outputs(c) \cup (IF c = "transfer" THEN {"snapshot"} ELSE {}) : ~Exists(o)
  /\ c = "auditGold" => ~Exists("audit")
  /\ c = "transfer" => ~Exists("snapshot")

(* The inputs are read and found bound.  A refusal changes nothing. *)
Capture(c) ==
  /\ command = "none" /\ c \in Chains[chain]
  /\ Wanted(c)
  /\ \A f \in Commands[c].in : Exists(f)
  /\ Authorized(c) /\ Bound(c)
  /\ c = "normalize" => Replayed
  /\ command' = c
  /\ captured' = [f \in Commands[c].in |-> files[f]]
  /\ UNCHANGED <<chain, files, planted, restored, staged, tainted, published, hookVars,
                 crashes, disturbances>>

Running(c) == command = c

(* The download fills a new or empty destination, file by file. *)
Download ==
  /\ Running("transfer") /\ ~staged
  /\ "snapshot" \notin planted
  /\ ~Exists("snapshot") \/ ~Is("snapshot", {})
  /\ files' = [files EXCEPT !["snapshot"] = IF Exists("snapshot") THEN {} ELSE {"snapshot"}]
  /\ planted' = planted \ {"snapshot"}
  /\ UNCHANGED <<chain, restored, runVars, crashes, disturbances>>

(* The identity of what was downloaded is the receipt's content. *)
Receipt ==
  /\ Running("transfer") /\ ~staged
  /\ Is("snapshot", {}) \/ "snapshot" \in planted
  /\ captured' = [f \in {"registry", "snapshot"} |->
       IF f = "snapshot" THEN files[f] ELSE captured[f]]
  /\ tainted' = ~Is("snapshot", {})
  /\ staged' = TRUE
  /\ UNCHANGED <<chain, files, planted, restored, command, published, hookVars, crashes,
                 disturbances>>

SameCopies ==
  /\ \A f \in DOMAIN captured :
       IF f \in Commands[command].live THEN Exists(f) ELSE Is(f, captured[f])
  /\ command = "workset" => BoundRecovery

(* The private copies match the captured identities, and the outputs are    *)
(* computed from them; what is read in place is read as it is now.          *)
Stage ==
  /\ command \notin {"none", "transfer"} /\ ~staged
  /\ SameCopies
  /\ tainted' = \E f \in Commands[command].sources : ~Is(f, {})
  /\ staged' = TRUE
  /\ UNCHANGED <<chain, files, planted, restored, command, captured, published, hookVars,
                 crashes, disturbances>>

(* The identities a file that is published records, the file's own content  *)
(* included: a manifest says what was captured and what was made.           *)
Content(o) ==
  (IF tainted THEN Outputs(command) \cap ({o} \cup (IF o \in DOMAIN Records THEN Records[o] ELSE {}))
              ELSE {})
  \cup (IF o \in DOMAIN Records
        THEN {f \in Records[o] \cap DOMAIN captured : captured[f] # {}} ELSE {})

(* Mutant: the hook of a manifest does not look at the outputs. *)
InputsOnly == Len(Commands[command].hook)

(* How many files the before_publish hook hashes again: the inputs, and the *)
(* outputs published so far.                                                *)
Boundary == Len(Commands[command].hook) + published

(* The file that comes i-th. *)
Subject(i) ==
  LET inputs == Commands[command].hook
  IN IF i <= Len(inputs) THEN inputs[i] ELSE Commands[command].out[i - Len(inputs)]

(* The identity it must have: as captured, or as published. *)
Expected(f) == IF f \in DOMAIN captured THEN captured[f] ELSE Content(f)

(* Where the hook has been. *)
Checked == {Subject(i) : i \in 1..checked}

(* The hook hashes one more file and finds it unchanged. *)
CheckFile ==
  /\ staged /\ checked < Boundary
  /\ LET f == Subject(checked + 1) IN Is(f, Expected(f))
  /\ checked' = checked + 1
  /\ UNCHANGED <<chain, files, planted, restored, command, captured, staged, tainted,
                 published, slipped, crashes, disturbances>>

(* Mutant: what is there already refuses the link. *)
LinkNew(o) == files[o] = Absent

(* os.link, or equal bytes that are there already. *)
Linkable(o) == files[o] \in {Absent, Content(o)}

(* The hook is through: one output gets its name; the manifest is the last, *)
(* and the command is over.                                                 *)
Link ==
  /\ staged /\ checked = Boundary
  /\ LET o == Commands[command].out[published + 1]
     IN /\ Linkable(o)
        /\ files' = [files EXCEPT ![o] = Content(o)]
        /\ planted' = IF files[o] = Absent THEN planted \ {o} ELSE planted
        /\ IF o = Manifest(command)
             THEN Stop
             ELSE /\ published' = published + 1 /\ checked' = 0 /\ slipped' = {}
                  /\ UNCHANGED <<command, captured, staged, tainted>>
  /\ UNCHANGED <<chain, restored, crashes, disturbances>>

(* A copy, a file the hook comes to or the name to publish is not what it   *)
(* has to be: the command raises and leaves what it has published.          *)
GiveUp ==
  /\ command # "none"
  /\ \/ ~staged /\ command # "transfer" /\ ~SameCopies
     \/ /\ staged /\ checked < Boundary
        /\ LET f == Subject(checked + 1) IN ~Is(f, Expected(f))
     \/ staged /\ checked = Boundary /\ ~Linkable(Commands[command].out[published + 1])
  /\ Stop
  /\ UNCHANGED <<chain, files, planted, restored, crashes, disturbances>>

(* A destination in which a transfer ended early is never completed: the    *)
(* operator transfers to another one.                                       *)
FreshDestination ==
  /\ chain = "seal" /\ command = "none" /\ Exists("snapshot") /\ ~Exists("receipt")
  /\ files' = [files EXCEPT !["snapshot"] = Absent]
  /\ planted' = planted \ {"snapshot"}
  /\ UNCHANGED <<chain, restored, runVars, crashes, disturbances>>

Work ==
  \/ \E c \in DOMAIN Commands : Capture(c)
  \/ Download \/ Receipt \/ Stage \/ CheckFile \/ Link \/ GiveUp \/ FreshDestination

(* The process is killed. *)
Crash ==
  /\ command # "none" /\ crashes < MaxCrashes
  /\ crashes' = crashes + 1
  /\ Stop
  /\ UNCHANGED <<chain, files, planted, restored, disturbances>>

Disturb(f, content) ==
  /\ disturbances < MaxDisturbances
  /\ disturbances' = disturbances + 1
  /\ files' = [files EXCEPT ![f] = content]
  /\ slipped' = slipped \cup ({f} \cap Checked)
  /\ UNCHANGED <<chain, command, captured, staged, tainted, published, checked, crashes>>

(* A file is overwritten by one of another run. *)
Overwrite(f) ==
  /\ Is(f, {})
  /\ Disturb(f, Foreign(f))
  /\ planted' = planted \cup {f}
  /\ UNCHANGED restored

(* The right file is put back. *)
PutBack(f) ==
  /\ f \in planted /\ Exists(f)
  /\ Disturb(f, {})
  /\ planted' = planted \ {f}
  /\ restored' = restored \cup {f}

Remove(f) ==
  /\ f \in Made(chain) /\ Exists(f)
  /\ Disturb(f, Absent)
  /\ planted' = planted \ {f}
  /\ UNCHANGED restored

Next ==
  \/ Work
  \/ Crash
  \/ \E f \in DOMAIN files : Overwrite(f) \/ PutBack(f) \/ Remove(f)

Spec == Init /\ [][Next]_vars

(* A command that runs goes on, and the operator runs what is still wanted. *)
FairSpec == Spec /\ WF_vars(Work)

----------------------------------------------------------------------------
(* The types, and that nothing of a command outlives it. *)
ChainTypeOK ==
  /\ chain \in DOMAIN Chains
  /\ DOMAIN files = FilesOf(chain)
  /\ \A f \in DOMAIN files : files[f] \in (SUBSET FilesOf(chain)) \cup {Absent}
  /\ planted \subseteq DOMAIN files /\ restored \subseteq DOMAIN files
  /\ command \in Chains[chain] \cup {"none"}
  /\ staged \in BOOLEAN /\ tainted \in BOOLEAN
  /\ crashes \in 0..MaxCrashes /\ disturbances \in 0..MaxDisturbances
  /\ IF command = "none"
       THEN captured = <<>> /\ published = 0 /\ checked = 0 /\ ~staged /\ ~tainted
       ELSE /\ Commands[command].in \subseteq DOMAIN captured
            /\ published < Len(Commands[command].out)
            /\ checked \in 0..Boundary
  /\ slipped \subseteq DOMAIN files

(* The manifest that a step of the command c completes. *)
Completes(c) ==
  /\ command = c /\ command' = "none"
  /\ files'[Manifest(c)] # Absent /\ files[Manifest(c)] = Absent

(* The inputs a command's hook hashes again. *)
Watched(c) == {Commands[c].hook[i] : i \in DOMAIN Commands[c].hook}

(* When a manifest appears, every file that it records is on disk with the  *)
(* content it records, unless the file was disturbed after the manifest's   *)
(* own hook had hashed it: no earlier change, between the capture of the    *)
(* inputs, the copies, and the publication of one output after the other,   *)
(* goes unseen.  And what it says was made was made from what it says was   *)
(* read: if an output is foreign, so is one of the sources it names.        *)
(* Excluded are the snapshot that audit-snapshot has only staged, and the   *)
(* candidates and queue that build-resolution-canary-workset reads in       *)
(* place, if they were ever overwritten and put back.                       *)
ManifestTellsTruth ==
  [][\A c \in Chains[chain] :
       Completes(c) =>
         LET said == files'[Manifest(c)]
         IN /\ \A f \in Records[Manifest(c)] \cap (Watched(c) \cup Outputs(c)) :
                 f \notin slipped => (f \in said) = (files'[f] # {})
            /\ restored \cap Commands[c].live \cap Commands[c].sources = {} =>
                 \A o \in Outputs(c) : o \in said => said \cap Commands[c].sources # {}]_vars

(* normalize does not take a manifest's word for the rows it describes:     *)
(* whatever it publishes comes from the pinned snapshots; and the leaf that *)
(* a pilot records is the one its pinned audit and split lead to.           *)
NormalizedIsReplayed ==
  /\ \A f \in {"normalized", "rejections", "manifest"} \ planted :
       Exists(f) => Is(f, {})
  /\ Exists("pilot") /\ "pilot" \notin planted =>
       files["pilot"] \cap {"normalized", "manifest", "audit", "split"} = {}

(* An audit of gold exposure that has lost its findings. *)
Unrepeatable == Exists("audit") /\ ~Exists("goldFindings")

(* However often commands were killed and files taken away, a chain is run  *)
(* to its end once every file that is there is the right one: what was left *)
(* is made again, byte for byte, or reused.  The exception is an audit of   *)
(* gold exposure whose findings are gone, which nothing makes again.        *)
RestartCompletes ==
  <>[](\A f \in DOMAIN files : files[f] \in {{}, Absent})
    => <>(Exists(Goal[chain]) \/ Unrepeatable)
=============================================================================
