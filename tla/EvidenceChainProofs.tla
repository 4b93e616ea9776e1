------------------------- MODULE EvidenceChainProofs -------------------------
(* Proofs about EvidenceChain: what a manifest says is true when it         *)
(* appears, and what is normalized comes from the pinned snapshots, for any *)
(* number of killed commands and of files overwritten, put back or removed. *)
EXTENDS EvidenceChain, TLAPS

(* What the running command has captured: the identities of its inputs, in  *)
(* which what it pins, replays or finds bound by a pinned file is right.    *)
Reads(c) == IF c = "transfer" /\ staged THEN {"registry", "snapshot"} ELSE Commands[c].in

Right(c) ==
  CASE c = "normalize" -> Commands[c].in
    [] c = "pilot"     -> {"normalized", "manifest", "audit", "split"}
    [] OTHER           -> Commands[c].pinned

CapturedRight ==
  command # "none" =>
    /\ DOMAIN captured = Reads(command)
    /\ \A f \in DOMAIN captured : captured[f] \subseteq FilesOf(chain)
    /\ \A f \in Right(command) : captured[f] = {}
    /\ command = "workset" /\ staged => captured["snapshot"] = {}

(* A source accounts for foreign outputs: as it was captured, or, where it  *)
(* is read in place, as it was at that moment.  The hook then finds it      *)
(* changed, unless it was put back before the hook came to it.              *)
Accounts(f) ==
  \/ captured[f] # {}
  \/ /\ f \in Commands[command].live
     /\ f \in restored \/ (files[f] # captured[f] /\ f \notin Checked)

(* Outputs are foreign only if a source was. *)
TaintHasSource ==
  tainted => staged /\ \E f \in Commands[command].sources : Accounts(f)

(* What the hook has hashed again is what it has to be, or was disturbed    *)
(* since.                                                                   *)
HookInOrder ==
  command # "none" =>
    /\ checked \in 0..Boundary
    /\ ~staged => checked = 0
    /\ \A i \in 1..checked : Is(Subject(i), Expected(Subject(i))) \/ Subject(i) \in slipped

(* A foreign manifest over rows has foreign rows, and no manifest of a      *)
(* recovery was made from a foreign snapshot, which recovery pins.          *)
ManifestsNameTheirRows ==
  /\ Exists("rawManifest") /\ ~Is("rawManifest", {}) => "raw" \in files["rawManifest"]
  /\ Exists("safeManifest") /\ ~Is("safeManifest", {}) => "safe" \in files["safeManifest"]
  /\ Exists("recovery") => "snapshot" \notin files["recovery"]

(* The files, the command that runs, and the counters. *)
FilesInv ==
  /\ DOMAIN files = FilesOf(chain)
  /\ \A f \in DOMAIN files : files[f] \in (SUBSET FilesOf(chain)) \cup {Absent}
  /\ planted \subseteq DOMAIN files /\ restored \subseteq DOMAIN files
  /\ \A f \in planted : files[f] # Absent
  /\ ManifestsNameTheirRows
  /\ NormalizedIsReplayed

RunInv ==
  /\ command \in Chains[chain] \cup {"none"}
  /\ staged \in BOOLEAN /\ tainted \in BOOLEAN
  /\ command = "none" => captured = <<>> /\ published = 0 /\ checked = 0 /\ ~staged /\ ~tainted
  /\ command # "none" => published \in 0..(Len(Commands[command].out) - 1)
  /\ slipped \subseteq DOMAIN files
  /\ CapturedRight
  /\ TaintHasSource
  /\ HookInOrder

CountsInv == crashes \in 0..MaxCrashes /\ disturbances \in 0..MaxDisturbances

ChainInv == chain \in DOMAIN Chains /\ FilesInv /\ RunInv /\ CountsInv

----------------------------------------------------------------------------
(* What the table of commands says, command by command.                     *)

Names == {"transfer", "auditSnapshot", "materialize", "projectTasks", "normalize", "review",
          "auditGold", "split", "pilot", "recover", "workset"}

LEMMA CommandNames == DOMAIN Commands = Names
BY DEF Commands, Names

OutputFacts(c) ==
  /\ Len(Commands[c].out) \in Nat \ {0}
  /\ DOMAIN Commands[c].out = 1..Len(Commands[c].out)
  /\ \A i, j \in 1..Len(Commands[c].out) : Commands[c].out[i] = Commands[c].out[j] => i = j
  /\ Outputs(c) \cap (Commands[c].in \cup {"registry", "snapshot"}) = {}
  /\ Outputs(c) \cap DOMAIN Records = {Manifest(c)}

SourceFacts(c) ==
  /\ Records[Manifest(c)] \subseteq
       Commands[c].in \cup Outputs(c) \cup (IF c = "transfer" THEN {"snapshot"} ELSE {})
  /\ Manifest(c) \notin Records[Manifest(c)]
  /\ Right(c) \subseteq Commands[c].in
  /\ Commands[c].pinned \subseteq Right(c)
  /\ c # "transfer" => Commands[c].sources \subseteq Commands[c].in
  /\ Commands[c].sources \subseteq
       Records[Manifest(c)] \cup Right(c) \cup (IF c = "workset" THEN {"snapshot"} ELSE {})
  /\ c \in {"materialize", "projectTasks", "normalize", "recover"} =>
       Right(c) = Commands[c].in /\ Commands[c].live = {}

(* What the hook hashes again. *)
HookFacts(c) ==
  /\ Len(Commands[c].hook) \in Nat
  /\ DOMAIN Commands[c].hook = 1..Len(Commands[c].hook)
  /\ Watched(c) \subseteq Commands[c].in \cup (IF c = "transfer" THEN {"snapshot"} ELSE {})
  /\ Commands[c].live \subseteq Watched(c)

(* Whose output a file is, and in which chain it is found. *)
Owns(f, c) == f \in Outputs(c)
Meets(f, c) == f \in Commands[c].in \cup Outputs(c)

OwnerFacts(c) ==
  /\ \A f \in {"normalized", "rejections", "manifest"} : Owns(f, c) => c = "normalize"
  /\ Owns("pilot", c) => c = "pilot"
  /\ Owns("rawManifest", c) => c = "materialize"
  /\ Owns("safeManifest", c) => c = "projectTasks"
  /\ Owns("recovery", c) => c = "recover"
  /\ Meets("rawManifest", c) \/ Meets("safeManifest", c) => c \in Chains["normalization"]
  /\ Meets("recovery", c) => c \in Chains["recovery"]
  /\ ~Meets("absent", c)

(* The outputs as a set, for one, two and three of them. *)
LEMMA OneOutput ==
  ASSUME NEW c, NEW x, Commands[c].out = <<x>>
  PROVE  /\ Len(Commands[c].out) = 1 /\ DOMAIN Commands[c].out = 1..1
         /\ Outputs(c) = {x} /\ Manifest(c) = x
BY DEF Outputs, Manifest

LEMMA TwoOutputs ==
  ASSUME NEW c, NEW x, NEW y, Commands[c].out = <<x, y>>
  PROVE  /\ Len(Commands[c].out) = 2 /\ DOMAIN Commands[c].out = 1..2
         /\ Outputs(c) = {x, y} /\ Manifest(c) = y
BY DEF Outputs, Manifest

LEMMA ThreeOutputs ==
  ASSUME NEW c, NEW x, NEW y, NEW z, Commands[c].out = <<x, y, z>>
  PROVE  /\ Len(Commands[c].out) = 3 /\ DOMAIN Commands[c].out = 1..3
         /\ Outputs(c) = {x, y, z} /\ Manifest(c) = z
BY DEF Outputs, Manifest

LEMMA HooksByCommand ==
  ASSUME NEW c \in DOMAIN Commands
  PROVE  HookFacts(c)
<1>1. CASE c = "transfer"
  BY <1>1 DEF HookFacts, Watched, Commands, Transfer
<1>2. CASE c = "auditSnapshot"
  BY <1>2 DEF HookFacts, Watched, Commands, AuditSnapshot
<1>3. CASE c = "materialize"
  BY <1>3 DEF HookFacts, Watched, Commands, Materialize, Traces
<1>4. CASE c = "projectTasks"
  BY <1>4 DEF HookFacts, Watched, Commands, ProjectTasks, Tasks
<1>5. CASE c = "normalize"
  <2>1. Commands[c].hook = <<"snapshot", "taskSnapshot", "raw", "registry", "rawManifest",
                               "contract", "receipt", "safe", "safeManifest", "taskReceipt",
                               "safeRejections">>
    BY <1>5 DEF Commands, Normalize
  <2>2. Len(Commands[c].hook) = 11 /\ DOMAIN Commands[c].hook = 1..11
    BY <2>1
  <2>3. \A i \in 1..11 : Commands[c].hook[i] \in Commands[c].in
    BY <1>5, <2>1 DEF Commands, Normalize, Traces, Tasks
  <2>4. Commands[c].live \subseteq Watched(c)
    BY <1>5, <2>1 DEF Watched, Commands, Normalize
  <2> QED BY <2>2, <2>3, <2>4 DEF HookFacts, Watched
<1>6. CASE c = "review"
  BY <1>6 DEF HookFacts, Watched, Commands, ReviewOracleIsolation, Leaf
<1>7. CASE c = "auditGold"
  BY <1>7 DEF HookFacts, Watched, Commands, AuditGoldExposure, Leaf
<1>8. CASE c = "split"
  BY <1>8 DEF HookFacts, Watched, Commands, BuildSplit
<1>9. CASE c = "pilot"
  <2>1. Commands[c].hook = <<"policy", "registry", "normalized", "split", "manifest",
                               "audit", "goldFindings", "attestation", "raw", "rawManifest",
                               "safe", "safeManifest", "findings">>
    BY <1>9 DEF Commands, BuildPilot
  <2>2. Len(Commands[c].hook) = 13 /\ DOMAIN Commands[c].hook = 1..13
    BY <2>1
  <2>3. \A i \in 1..13 : Commands[c].hook[i] \in Commands[c].in
    BY <1>9, <2>1 DEF Commands, BuildPilot, Leaf
  <2>4. Commands[c].live \subseteq Watched(c)
    BY <1>9, <2>1 DEF Watched, Commands, BuildPilot
  <2> QED BY <2>2, <2>3, <2>4 DEF HookFacts, Watched
<1>10. CASE c = "recover"
  BY <1>10 DEF HookFacts, Watched, Commands, RecoverResolutions, Traces
<1>11. CASE c = "workset"
  <2>1. Commands[c].hook = <<"snapshot", "taskSnapshot", "recovery", "candidates",
                               "queue", "contract", "receipt", "taskReceipt", "registry">>
    BY <1>11 DEF Commands, BuildWorkset
  <2>2. Len(Commands[c].hook) = 9 /\ DOMAIN Commands[c].hook = 1..9
    BY <2>1
  <2>3. \A i \in 1..9 : Commands[c].hook[i] \in Commands[c].in
    BY <1>11, <2>1 DEF Commands, BuildWorkset, Traces, Tasks
  <2>4. Commands[c].live \subseteq Watched(c)
    BY <1>11, <2>1 DEF Watched, Commands, BuildWorkset
  <2> QED BY <2>2, <2>3, <2>4 DEF HookFacts, Watched
<1> QED BY <1>1, <1>2, <1>3, <1>4, <1>5, <1>6, <1>7, <1>8, <1>9, <1>10, <1>11, CommandNames DEF Names

LEMMA CommandFacts ==
  ASSUME NEW c \in DOMAIN Commands
  PROVE  OutputFacts(c) /\ SourceFacts(c) /\ OwnerFacts(c)
<1>1. CASE c = "transfer"
  <2>1. Commands[c] = Transfer
    BY <1>1 DEF Commands
  <2>2. Commands[c].out = <<"receipt">>
    BY <2>1 DEF Transfer
  <2>3. OutputFacts(c)
    BY <2>1, <2>2, OneOutput DEF OutputFacts, Records, Transfer
  <2>4. SourceFacts(c)
    BY <1>1, <2>1, <2>2, OneOutput DEF SourceFacts, Right, Records, Transfer
  <2>5. OwnerFacts(c)
    BY <1>1, <2>1, <2>2, OneOutput DEF OwnerFacts, Owns, Meets, Chains, Transfer
  <2> QED BY <2>3, <2>4, <2>5
<1>2. CASE c = "auditSnapshot"
  <2>1. Commands[c] = AuditSnapshot
    BY <1>2 DEF Commands
  <2>2. Commands[c].out = <<"ledger", "report", "lineage">>
    BY <2>1 DEF AuditSnapshot
  <2>3. OutputFacts(c)
    BY <2>1, <2>2, ThreeOutputs DEF OutputFacts, Records, AuditSnapshot
  <2>4. SourceFacts(c)
    BY <1>2, <2>1, <2>2, ThreeOutputs DEF SourceFacts, Right, Records, AuditSnapshot
  <2>5. OwnerFacts(c)
    BY <1>2, <2>1, <2>2, ThreeOutputs DEF OwnerFacts, Owns, Meets, Chains, AuditSnapshot
  <2> QED BY <2>3, <2>4, <2>5
<1>3. CASE c = "materialize"
  <2>1. Commands[c] = Materialize
    BY <1>3 DEF Commands
  <2>2. Commands[c].out = <<"raw", "rawManifest">>
    BY <2>1 DEF Materialize
  <2>3. OutputFacts(c)
    BY <2>1, <2>2, TwoOutputs DEF OutputFacts, Records, Materialize, Traces
  <2>4. SourceFacts(c)
    BY <1>3, <2>1, <2>2, TwoOutputs DEF SourceFacts, Right, Records, Materialize, Traces
  <2>5. OwnerFacts(c)
    BY <1>3, <2>1, <2>2, TwoOutputs DEF OwnerFacts, Owns, Meets, Chains, Materialize, Traces
  <2> QED BY <2>3, <2>4, <2>5
<1>4. CASE c = "projectTasks"
  <2>1. Commands[c] = ProjectTasks
    BY <1>4 DEF Commands
  <2>2. Commands[c].out = <<"safe", "safeRejections", "safeManifest">>
    BY <2>1 DEF ProjectTasks
  <2>3. OutputFacts(c)
    BY <2>1, <2>2, ThreeOutputs DEF OutputFacts, Records, ProjectTasks, Tasks
  <2>4. SourceFacts(c)
    BY <1>4, <2>1, <2>2, ThreeOutputs DEF SourceFacts, Right, Records, ProjectTasks, Tasks
  <2>5. OwnerFacts(c)
    BY <1>4, <2>1, <2>2, ThreeOutputs DEF OwnerFacts, Owns, Meets, Chains, ProjectTasks, Tasks
  <2> QED BY <2>3, <2>4, <2>5
<1>5. CASE c = "normalize"
  <2>1. Commands[c] = Normalize
    BY <1>5 DEF Commands
  <2>2. Commands[c].out = <<"normalized", "rejections", "manifest">>
    BY <2>1 DEF Normalize
  <2>3. OutputFacts(c)
    BY <2>1, <2>2, ThreeOutputs DEF OutputFacts, Records, Normalize, Traces, Tasks
  <2>4. SourceFacts(c)
    BY <1>5, <2>1, <2>2, ThreeOutputs DEF SourceFacts, Right, Records, Normalize, Tasks, Traces
  <2>5. OwnerFacts(c)
    BY <1>5, <2>1, <2>2, ThreeOutputs DEF OwnerFacts, Owns, Meets, Chains, Normalize, Traces, Tasks
  <2> QED BY <2>3, <2>4, <2>5
<1>6. CASE c = "review"
  <2>1. Commands[c] = ReviewOracleIsolation
    BY <1>6 DEF Commands
  <2>2. Commands[c].out = <<"findings", "attestation">>
    BY <2>1 DEF ReviewOracleIsolation
  <2>3. OutputFacts(c)
    BY <2>1, <2>2, TwoOutputs DEF OutputFacts, Records, ReviewOracleIsolation, Leaf
  <2>4. SourceFacts(c)
    BY <1>6, <2>1, <2>2, TwoOutputs DEF SourceFacts, Right, Records, ReviewOracleIsolation, Leaf
  <2>5. OwnerFacts(c)
    BY <1>6, <2>1, <2>2, TwoOutputs DEF OwnerFacts, Owns, Meets, Chains, ReviewOracleIsolation, Leaf
  <2> QED BY <2>3, <2>4, <2>5
<1>7. CASE c = "auditGold"
  <2>1. Commands[c] = AuditGoldExposure
    BY <1>7 DEF Commands
  <2>2. Commands[c].out = <<"goldFindings", "audit">>
    BY <2>1 DEF AuditGoldExposure
  <2>3. OutputFacts(c)
    BY <2>1, <2>2, TwoOutputs DEF OutputFacts, Records, AuditGoldExposure, Leaf
  <2>4. SourceFacts(c)
    BY <1>7, <2>1, <2>2, TwoOutputs DEF SourceFacts, Right, Records, AuditGoldExposure, Leaf
  <2>5. OwnerFacts(c)
    BY <1>7, <2>1, <2>2, TwoOutputs DEF OwnerFacts, Owns, Meets, Chains, AuditGoldExposure, Leaf
  <2> QED BY <2>3, <2>4, <2>5
<1>8. CASE c = "split"
  <2>1. Commands[c] = BuildSplit
    BY <1>8 DEF Commands
  <2>2. Commands[c].out = <<"split">>
    BY <2>1 DEF BuildSplit
  <2>3. OutputFacts(c)
    BY <2>1, <2>2, OneOutput DEF OutputFacts, Records, BuildSplit
  <2>4. SourceFacts(c)
    BY <1>8, <2>1, <2>2, OneOutput DEF SourceFacts, Right, Records, BuildSplit
  <2>5. OwnerFacts(c)
    BY <1>8, <2>1, <2>2, OneOutput DEF OwnerFacts, Owns, Meets, Chains, BuildSplit
  <2> QED BY <2>3, <2>4, <2>5
<1>9. CASE c = "pilot"
  <2>1. Commands[c] = BuildPilot
    BY <1>9 DEF Commands
  <2>2. Commands[c].out = <<"samples", "pilot">>
    BY <2>1 DEF BuildPilot
  <2>3. OutputFacts(c)
    BY <2>1, <2>2, TwoOutputs DEF OutputFacts, Records, BuildPilot, Leaf
  <2>4. SourceFacts(c)
    BY <1>9, <2>1, <2>2, TwoOutputs DEF SourceFacts, Right, Records, BuildPilot, Leaf
  <2>5. OwnerFacts(c)
    BY <1>9, <2>1, <2>2, TwoOutputs DEF OwnerFacts, Owns, Meets, Chains, BuildPilot, Leaf
  <2> QED BY <2>3, <2>4, <2>5
<1>10. CASE c = "recover"
  <2>1. Commands[c] = RecoverResolutions
    BY <1>10 DEF Commands
  <2>2. Commands[c].out = <<"candidates", "queue", "recovery">>
    BY <2>1 DEF RecoverResolutions
  <2>3. OutputFacts(c)
    BY <2>1, <2>2, ThreeOutputs DEF OutputFacts, Records, RecoverResolutions, Traces
  <2>4. SourceFacts(c)
    BY <1>10, <2>1, <2>2, ThreeOutputs DEF SourceFacts, Right, Records, RecoverResolutions, Traces
  <2>5. OwnerFacts(c)
    BY <1>10, <2>1, <2>2, ThreeOutputs DEF OwnerFacts, Owns, Meets, Chains, RecoverResolutions, Traces
  <2> QED BY <2>3, <2>4, <2>5
<1>11. CASE c = "workset"
  <2>1. Commands[c] = BuildWorkset
    BY <1>11 DEF Commands
  <2>2. Commands[c].out = <<"workset", "worksetManifest">>
    BY <2>1 DEF BuildWorkset
  <2>3. OutputFacts(c)
    BY <2>1, <2>2, TwoOutputs DEF OutputFacts, Records, BuildWorkset, Traces, Tasks
  <2>4. SourceFacts(c)
    BY <1>11, <2>1, <2>2, TwoOutputs DEF SourceFacts, Right, Records, BuildWorkset, Tasks, Traces
  <2>5. OwnerFacts(c)
    BY <1>11, <2>1, <2>2, TwoOutputs DEF OwnerFacts, Owns, Meets, Chains, BuildWorkset, Traces, Tasks
  <2> QED BY <2>3, <2>4, <2>5
<1> QED BY <1>1, <1>2, <1>3, <1>4, <1>5, <1>6, <1>7, <1>8, <1>9, <1>10, <1>11, CommandNames DEF Names

(* Every command of a chain finds its files among the files of the chain. *)
LEMMA ChainFacts ==
  ASSUME chain \in DOMAIN Chains
  PROVE  /\ Chains[chain] \subseteq DOMAIN Commands
         /\ "none" \notin DOMAIN Commands
         /\ \A c \in Chains[chain] :
              /\ Commands[c].in \cup Outputs(c) \subseteq FilesOf(chain)
              /\ Outputs(c) \subseteq Made(chain)
         /\ "transfer" \in Chains[chain] => "snapshot" \in FilesOf(chain)
         /\ Made(chain) \subseteq FilesOf(chain)
<1>1. /\ DOMAIN Chains = {"seal", "normalization", "recovery"}
      /\ Chains[chain] \subseteq Names
  BY DEF Chains, Names
<1>2. \A c \in Chains[chain] :
        /\ Commands[c].in \cup Outputs(c) \subseteq FilesOf(chain)
        /\ Outputs(c) \subseteq Made(chain)
  BY DEF FilesOf, Made
<1>3. chain = "seal" => "auditSnapshot" \in Chains[chain] /\ "snapshot" \in FilesOf(chain)
  <2>1. "snapshot" \in Commands["auditSnapshot"].in
    BY DEF Commands, AuditSnapshot
  <2> QED BY <2>1, <1>2 DEF Chains
<1>4. "transfer" \in Chains[chain] => chain = "seal"
  BY <1>1 DEF Chains
<1>5. Made(chain) \subseteq FilesOf(chain)
  <2>1. ASSUME NEW f \in Made(chain) PROVE f \in FilesOf(chain)
    <3>1. CASE \E c \in Chains[chain] : f \in Outputs(c)
      BY <3>1, <1>2
    <3>2. CASE chain = "seal" /\ f = "snapshot"
      BY <3>2, <1>3
    <3>3. f \in (UNION {Outputs(c) : c \in Chains[chain]}) \/ (chain = "seal" /\ f = "snapshot")
      BY <2>1 DEF Made
    <3> QED BY <3>1, <3>2, <3>3
  <2> QED BY <2>1
<1> QED BY <1>1, <1>2, <1>3, <1>4, <1>5, CommandNames DEF Names

LEMMA ChainOfManifests ==
  ASSUME chain \in DOMAIN Chains
  PROVE  /\ "rawManifest" \in FilesOf(chain) => "raw" \in Made(chain)
         /\ "safeManifest" \in FilesOf(chain) => "safe" \in Made(chain)
         /\ "recovery" \in FilesOf(chain) => "snapshot" \notin Made(chain)
         /\ Absent \notin SUBSET FilesOf(chain)
<1>1. \A f \in FilesOf(chain) : \E c \in Chains[chain] : c \in DOMAIN Commands /\ Meets(f, c)
  BY ChainFacts DEF FilesOf, Meets
<1>2. "rawManifest" \in FilesOf(chain) \/ "safeManifest" \in FilesOf(chain)
        => "materialize" \in Chains[chain] /\ "projectTasks" \in Chains[chain]
  <2>1. ASSUME NEW c \in Chains[chain], c \in Chains["normalization"]
        PROVE  "materialize" \in Chains[chain] /\ "projectTasks" \in Chains[chain]
    BY <2>1 DEF Chains
  <2> QED BY <1>1, <2>1, CommandFacts DEF OwnerFacts
<1>3. "raw" \in Outputs("materialize") /\ "safe" \in Outputs("projectTasks")
  <2>1. /\ Commands["materialize"].out = <<"raw", "rawManifest">>
        /\ Commands["projectTasks"].out = <<"safe", "safeRejections", "safeManifest">>
    BY DEF Commands, Materialize, ProjectTasks
  <2> QED BY <2>1, TwoOutputs, ThreeOutputs
<1>4. "recovery" \in FilesOf(chain) => chain = "recovery"
  <2>1. ASSUME NEW c \in Chains[chain], c \in Chains["recovery"] PROVE chain = "recovery"
    BY <2>1 DEF Chains
  <2> QED BY <1>1, <2>1, CommandFacts DEF OwnerFacts
<1>5. chain # "seal" => "snapshot" \notin Made(chain)
  BY ChainFacts, CommandFacts DEF Made, OutputFacts
<1>6. "absent" \notin FilesOf(chain)
  BY <1>1, CommandFacts DEF OwnerFacts
<1> QED BY <1>2, <1>3, <1>4, <1>5, <1>6, ChainFacts DEF Absent

----------------------------------------------------------------------------
(* The files of the running command.                                        *)

LEMMA TransferRuns ==
  ASSUME ChainInv, command = "transfer"
  PROVE  /\ "transfer" \in Chains[chain] /\ "transfer" \in DOMAIN Commands
         /\ "snapshot" \in DOMAIN files /\ "registry" \in DOMAIN captured
         /\ Commands["transfer"].in = {"registry"} /\ Commands["transfer"].sources = {"snapshot"}
         /\ Commands["transfer"].live = {} /\ Right("transfer") = {}
<1>1. /\ Commands["transfer"].in = {"registry"} /\ Commands["transfer"].sources = {"snapshot"}
      /\ Commands["transfer"].live = {} /\ Right("transfer") = {}
  BY DEF Commands, Transfer, Right
<1> QED BY <1>1, ChainFacts DEF ChainInv, FilesInv, RunInv, CapturedRight, Reads

LEMMA OutputAtHand ==
  ASSUME ChainInv, command # "none"
  PROVE  /\ command \in Chains[chain] /\ command \in DOMAIN Commands
         /\ Outputs(command) \subseteq DOMAIN files
         /\ Outputs(command) \cap DOMAIN captured = {}
         /\ published + 1 \in 1..Len(Commands[command].out)
         /\ Commands[command].out[published + 1] \in Outputs(command)
<1>1. command \in Chains[chain] /\ command \in DOMAIN Commands
  BY ChainFacts DEF ChainInv, RunInv
<1>2. Outputs(command) \subseteq DOMAIN files
  BY <1>1, ChainFacts DEF ChainInv, FilesInv
<1>3. Outputs(command) \cap DOMAIN captured = {}
  BY <1>1, CommandFacts DEF ChainInv, RunInv, CapturedRight, Reads, OutputFacts
<1>4. published + 1 \in 1..Len(Commands[command].out)
  BY <1>1, CommandFacts DEF ChainInv, RunInv, OutputFacts
<1>5. Commands[command].out[published + 1] \in Outputs(command)
  BY <1>1, <1>4, CommandFacts DEF Outputs, OutputFacts
<1> QED BY <1>1, <1>2, <1>3, <1>4, <1>5

(* What the hook comes to is an input it watches, or a published output.    *)
LEMMA SubjectAtHand ==
  ASSUME ChainInv, command # "none", NEW i \in 1..Boundary
  PROVE  /\ Subject(i) \in DOMAIN files
         /\ \/ Subject(i) \in Watched(command)
            \/ \E j \in 1..published : Subject(i) = Commands[command].out[j]
<1> DEFINE n == Len(Commands[command].hook)
<1>1. /\ command \in DOMAIN Commands /\ command \in Chains[chain]
      /\ n \in Nat /\ DOMAIN Commands[command].hook = 1..n
      /\ published \in Nat /\ Boundary = n + published
      /\ published + 1 \in 1..Len(Commands[command].out)
      /\ Len(Commands[command].out) \in Nat
      /\ DOMAIN Commands[command].out = 1..Len(Commands[command].out)
  BY OutputAtHand, HooksByCommand, CommandFacts
     DEF HookFacts, OutputFacts, Boundary, ChainInv, RunInv
<1>2. CASE i <= n
  <2>1. Subject(i) = Commands[command].hook[i] /\ i \in DOMAIN Commands[command].hook
    BY <1>1, <1>2 DEF Subject
  <2>2. Subject(i) \in Watched(command)
    BY <2>1 DEF Watched
  <2> QED BY <1>1, <2>2, HooksByCommand, ChainFacts, TransferRuns
          DEF HookFacts, ChainInv, FilesInv
<1>3. CASE i > n
  <2>1. Subject(i) = Commands[command].out[i - n] /\ i - n \in 1..published
    BY <1>1, <1>3 DEF Subject
  <2>2. i - n \in DOMAIN Commands[command].out
    BY <1>1, <2>1
  <2>3. Subject(i) \in Outputs(command)
    BY <2>1, <2>2 DEF Outputs
  <2> QED BY <2>1, <2>3, OutputAtHand
<1> QED BY <1>1, <1>2, <1>3

(* What the hook watches has been captured. *)
LEMMA WatchedIsCaptured ==
  ASSUME ChainInv, command # "none", staged
  PROVE  Watched(command) \subseteq DOMAIN captured /\ Commands[command].live \subseteq DOMAIN captured
BY OutputAtHand, HooksByCommand, TransferRuns
   DEF HookFacts, ChainInv, RunInv, CapturedRight, Reads

LEMMA LiveAtHand ==
  ASSUME ChainInv, command # "none"
  PROVE  Commands[command].live \subseteq DOMAIN files
BY OutputAtHand, HooksByCommand, TransferRuns, ChainFacts DEF HookFacts, ChainInv, FilesInv

----------------------------------------------------------------------------
(* A file is written: by a command, or by somebody else. *)
LEMMA WriteKeepsFiles ==
  ASSUME ChainInv, NEW f \in DOMAIN files, NEW content \in (SUBSET FilesOf(chain)) \cup {Absent},
         UNCHANGED chain,
         files' = [files EXCEPT ![f] = content],
         \A g \in DOMAIN files \ {f} : g \in planted' <=> g \in planted,
         planted' \subseteq DOMAIN files, restored' \subseteq DOMAIN files,
         content = Absent => f \notin planted',
         f = "rawManifest" => content = Absent \/ content = {} \/ "raw" \in content,
         f = "safeManifest" => content = Absent \/ content = {} \/ "safe" \in content,
         f = "recovery" => content = Absent \/ "snapshot" \notin content,
         f \in {"normalized", "rejections", "manifest"} \ planted' => content \in {{}, Absent},
         f = "pilot" /\ f \notin planted' =>
           content = Absent \/ content \cap {"normalized", "manifest", "audit", "split"} = {}
  PROVE  FilesInv'
<1> USE DEF ChainInv, FilesInv
<1>1. /\ DOMAIN files' = DOMAIN files
      /\ files'[f] = content
      /\ \A g \in DOMAIN files \ {f} : files'[g] = files[g]
  OBVIOUS
<1>2. ManifestsNameTheirRows'
  BY <1>1 DEF ManifestsNameTheirRows, Exists, Is
<1>3. NormalizedIsReplayed'
  BY <1>1 DEF NormalizedIsReplayed, Exists, Is
<1>4. \A g \in DOMAIN files' : files'[g] \in (SUBSET FilesOf(chain)) \cup {Absent}
  BY <1>1
<1> QED BY <1>1, <1>2, <1>3, <1>4

LEMMA StopKeeps ==
  ASSUME ChainInv, Stop, UNCHANGED chain
  PROVE  RunInv'
BY DEF ChainInv, RunInv, Stop, CapturedRight, TaintHasSource, HookInOrder

(* The command is killed or gives up. *)
LEMMA EndKeeps ==
  ASSUME ChainInv, GiveUp \/ Crash
  PROVE  ChainInv'
<1>1. Stop /\ UNCHANGED <<chain, files, planted, restored, disturbances>>
      /\ crashes' \in 0..MaxCrashes
  BY ChainAssumption DEF ChainInv, CountsInv, GiveUp, Crash
<1>2. FilesInv'
  BY <1>1 DEF ChainInv, FilesInv, ManifestsNameTheirRows, NormalizedIsReplayed, Exists, Is
<1> QED BY <1>1, <1>2, StopKeeps DEF ChainInv, CountsInv

(* Somebody writes: the outputs of the running command keep a source. *)
LEMMA DisturbKeepsRun ==
  ASSUME ChainInv, NEW f \in DOMAIN files, NEW content, Disturb(f, content),
         restored \subseteq restored', content = {} => f \in restored'
  PROVE  RunInv' /\ CountsInv'
<1> USE DEF ChainInv, RunInv
<1>1. /\ UNCHANGED <<chain, command, captured, staged, tainted, published, checked>>
      /\ files' = [files EXCEPT ![f] = content]
      /\ slipped' = slipped \cup ({f} \cap Checked)
  BY DEF Disturb
<1>2. CapturedRight'
  BY <1>1 DEF CapturedRight, Reads
<1>3. Checked' = Checked
  BY <1>1 DEF Checked, Subject
<1>4. TaintHasSource'
  <2> SUFFICES ASSUME tainted PROVE TaintHasSource'
    BY <1>1 DEF TaintHasSource
  <2>1. PICK g \in Commands[command].sources : Accounts(g)
    BY DEF TaintHasSource
  <2>2. CASE captured[g] # {} \/ (g \in Commands[command].live /\ g \in restored)
    BY <1>1, <2>1, <2>2 DEF TaintHasSource, Accounts
  <2>3. CASE captured[g] = {} /\ g \notin restored
    <3>1. g \in Commands[command].live /\ files[g] # {} /\ g \notin Checked
      BY <2>1, <2>3 DEF Accounts
    <3>2. files'[g] # {} \/ g \in restored'
      BY <1>1, <3>1 DEF FilesInv
    <3> QED BY <1>1, <1>3, <2>1, <2>3, <3>1, <3>2 DEF TaintHasSource, Accounts
  <2> QED BY <2>1, <2>2, <2>3 DEF Accounts
<1>5. HookInOrder'
  <2> SUFFICES ASSUME command # "none" PROVE HookInOrder'
    BY <1>1 DEF HookInOrder
  <2>1. Boundary' = Boundary /\ checked \in 0..Boundary /\ (~staged => checked = 0)
    BY <1>1 DEF HookInOrder, Boundary
  <2>2. ASSUME NEW i \in 1..checked
        PROVE  Is(Subject(i), Expected(Subject(i)))' \/ Subject(i)' \in slipped'
    <3>1. Subject(i)' = Subject(i) /\ Expected(Subject(i))' = Expected(Subject(i))
      BY <1>1 DEF Subject, Expected, Content
    <3>2. CASE Subject(i) = f
      BY <1>1, <2>2, <3>1, <3>2 DEF Checked
    <3>3. CASE Subject(i) # f
      <4>1. Boundary \in Nat
        BY OutputAtHand, HooksByCommand DEF Boundary, HookFacts
      <4>2. i \in 1..Boundary
        BY <2>1, <2>2, <4>1
      <4>3. files'[Subject(i)] = files[Subject(i)]
        BY <1>1, <3>3, <4>2, SubjectAtHand
      <4>4. Is(Subject(i), Expected(Subject(i))) \/ Subject(i) \in slipped
        BY <2>2 DEF HookInOrder
      <4> QED BY <1>1, <3>1, <4>3, <4>4 DEF Is
    <3> QED BY <3>2, <3>3
  <2> QED BY <1>1, <2>1, <2>2 DEF HookInOrder
<1>6. CountsInv'
  BY ChainAssumption DEF CountsInv, Disturb
<1>7. slipped' \subseteq DOMAIN files'
  BY <1>1
<1> QED BY <1>1, <1>2, <1>4, <1>5, <1>6, <1>7

LEMMA OverwriteKeeps ==
  ASSUME ChainInv, NEW f \in DOMAIN files, Overwrite(f)
  PROVE  ChainInv'
<1>1. Foreign(f) \in (SUBSET FilesOf(chain)) \ {{}}
  <2>1. /\ f \in Foreign(f)
        /\ \A g \in Foreign(f) : g = f \/ g \in Made(chain)
    BY DEF Foreign
  <2> QED BY <2>1, ChainFacts DEF ChainInv, FilesInv
<1>2. /\ f = "rawManifest" => "raw" \in Foreign(f)
      /\ f = "safeManifest" => "safe" \in Foreign(f)
      /\ f = "recovery" => "snapshot" \notin Foreign(f)
  BY ChainOfManifests DEF ChainInv, FilesInv, Foreign, Records
<1>3. FilesInv'
  BY <1>1, <1>2, ChainOfManifests, WriteKeepsFiles DEF Overwrite, Disturb, ChainInv, FilesInv
<1>4. RunInv' /\ CountsInv'
  <2>1. Disturb(f, Foreign(f)) /\ restored' = restored /\ Foreign(f) # {}
    BY <1>1 DEF Overwrite
  <2> QED BY <2>1, DisturbKeepsRun
<1> QED BY <1>3, <1>4 DEF Overwrite, Disturb, ChainInv

LEMMA PutBackKeeps ==
  ASSUME ChainInv, NEW f \in DOMAIN files, PutBack(f)
  PROVE  ChainInv'
<1>1. FilesInv'
  BY WriteKeepsFiles DEF PutBack, Disturb, ChainInv, FilesInv
<1>2. RunInv' /\ CountsInv'
  BY DisturbKeepsRun DEF PutBack
<1> QED BY <1>1, <1>2 DEF PutBack, Disturb, ChainInv

LEMMA RemoveKeeps ==
  ASSUME ChainInv, NEW f \in DOMAIN files, Remove(f)
  PROVE  ChainInv'
<1>1. FilesInv'
  <2>1. /\ files' = [files EXCEPT ![f] = Absent] /\ planted' = planted \ {f}
        /\ UNCHANGED <<chain, restored>>
    BY DEF Remove, Disturb
  <2>2. planted \subseteq DOMAIN files /\ restored \subseteq DOMAIN files
    BY DEF ChainInv, FilesInv
  <2> QED BY <2>1, <2>2, WriteKeepsFiles
<1>2. RunInv' /\ CountsInv'
  BY DisturbKeepsRun DEF Remove, Absent
<1> QED BY <1>1, <1>2 DEF Remove, Disturb, ChainInv

----------------------------------------------------------------------------
(* The steps of a command before it publishes. *)

(* What is pinned, replayed or bound by what is pinned is the right file.   *)
LEMMA CaptureIsRight ==
  ASSUME ChainInv, NEW c \in DOMAIN Commands, Capture(c)
  PROVE  \A f \in Right(c) : files[f] = {}
<1> USE DEF ChainInv, FilesInv
<1>1. \A f \in Commands[c].pinned : files[f] = {}
  BY DEF Capture, Authorized, Is
<1>2. CASE c = "normalize"
  <2>1. Replayed /\ BoundMaterialization /\ BoundTaskProvenance
    BY <1>2 DEF Capture, Bound
  <2>2. files["raw"] = {} /\ files["safe"] = {} /\ files["safeRejections"] = {}
    BY <2>1 DEF Replayed, Is
  <2>3. "raw" \notin files["rawManifest"] /\ "safe" \notin files["safeManifest"]
    BY <2>1, <2>2 DEF BoundMaterialization, BoundTaskProvenance, Binds, Is
  <2>4. /\ Commands[c].in = Traces \cup Tasks \cup {"raw", "rawManifest", "safe",
                                                     "safeRejections", "safeManifest"}
        /\ Commands[c].pinned = Traces \cup Tasks
    BY <1>2 DEF Commands, Normalize
  <2>5. Exists("rawManifest") /\ Exists("safeManifest")
    BY <2>4 DEF Capture
  <2>6. files["rawManifest"] = {} /\ files["safeManifest"] = {}
    BY <2>3, <2>5 DEF ManifestsNameTheirRows, Is
  <2> QED BY <1>1, <1>2, <2>2, <2>4, <2>6 DEF Right
<1>3. CASE c = "pilot"
  <2>1. Commands[c].pinned = {"audit", "split"}
    BY <1>3 DEF Commands, BuildPilot
  <2>2. BoundAudit
    BY <1>3 DEF Capture, Bound
  <2>3. files["normalized"] = {} /\ files["manifest"] = {}
    BY <1>1, <2>1, <2>2 DEF BoundAudit, Binds, Is
  <2> QED BY <1>1, <1>3, <2>1, <2>3 DEF Right
<1> QED BY <1>1, <1>2, <1>3 DEF Right

LEMMA FilesUntouched ==
  ASSUME ChainInv, UNCHANGED <<chain, files, planted, restored>>
  PROVE  FilesInv'
BY DEF ChainInv, FilesInv, ManifestsNameTheirRows, NormalizedIsReplayed, Exists, Is

LEMMA CaptureKeeps ==
  ASSUME ChainInv, NEW c \in DOMAIN Commands, Capture(c)
  PROVE  ChainInv'
<1> USE DEF ChainInv, RunInv
<1>1. /\ command = "none" /\ c \in Chains[chain] /\ c # "none"
      /\ command' = c /\ captured' = [f \in Commands[c].in |-> files[f]]
      /\ UNCHANGED <<chain, files, planted, restored, staged, tainted, published, hookVars,
                     crashes, disturbances>>
  BY ChainFacts DEF Capture
<1>2. CapturedRight'
  <2>1. Reads(c)' = Commands[c].in
    BY <1>1 DEF Reads
  <2>2. \A f \in Commands[c].in : files[f] \subseteq FilesOf(chain)
    BY DEF Capture, Exists, FilesInv
  <2>3. Right(c) \subseteq Commands[c].in
    BY CommandFacts DEF SourceFacts
  <2>4. \A f \in Right(c) : captured'[f] = {}
    BY <1>1, <2>3, CaptureIsRight
  <2> QED BY <1>1, <2>1, <2>2, <2>4 DEF CapturedRight
<1>3. TaintHasSource' /\ published' \in 0..(Len(Commands[c].out) - 1)
  BY <1>1, CommandFacts DEF TaintHasSource, OutputFacts
<1>4. HookInOrder'
  <2>1. checked' = 0 /\ published' = 0 /\ ~staged'
    BY <1>1 DEF hookVars
  <2>2. 0 \in 0..Boundary'
    BY <1>1, <2>1, HooksByCommand DEF Boundary, HookFacts
  <2> QED BY <2>1, <2>2 DEF HookInOrder
<1> QED BY <1>1, <1>2, <1>3, <1>4, FilesUntouched DEF CountsInv, hookVars, FilesInv

LEMMA StageKeeps ==
  ASSUME ChainInv, Stage
  PROVE  ChainInv'
<1> USE DEF ChainInv, RunInv
<1>1. /\ command \in DOMAIN Commands \ {"transfer"} /\ command # "none" /\ ~staged /\ staged'
      /\ SameCopies
      /\ tainted' = \E f \in Commands[command].sources : ~Is(f, {})
      /\ UNCHANGED <<chain, files, planted, restored, command, captured, published, hookVars,
                     crashes, disturbances>>
  BY ChainFacts DEF Stage
<1>2. checked = 0 /\ checked' = 0
  BY <1>1 DEF HookInOrder, hookVars
<1>3. CapturedRight'
  <2>1. ASSUME command = "workset" PROVE captured["snapshot"] = {}
    <3>1. BoundRecovery /\ "recovery" \in DOMAIN captured /\ "recovery" \in Commands[command].live
      BY <1>1, <2>1 DEF SameCopies, CapturedRight, Reads, Commands, BuildWorkset
    <3>2. "snapshot" \notin files["recovery"]
      BY <1>1, <3>1 DEF SameCopies, ManifestsNameTheirRows, FilesInv
    <3> QED BY <3>1, <3>2 DEF BoundRecovery
  <2> QED BY <1>1, <2>1 DEF CapturedRight, Reads
<1>4. TaintHasSource'
  <2> SUFFICES ASSUME tainted' PROVE TaintHasSource'
    BY DEF TaintHasSource
  <2>1. PICK f \in Commands[command].sources : files[f] # {}
    BY <1>1 DEF Is
  <2>2. f \in DOMAIN captured
    BY <1>1, <2>1, CommandFacts DEF SourceFacts, CapturedRight, Reads
  <2>3. f \in Commands[command].live \/ files[f] = captured[f]
    BY <1>1, <2>2 DEF SameCopies, Is
  <2>4. captured[f] # {} \/ (f \in Commands[command].live /\ files[f] # captured[f])
    BY <2>1, <2>3
  <2>5. f \notin Checked'
    BY <1>2 DEF Checked
  <2> QED BY <1>1, <2>1, <2>4, <2>5 DEF TaintHasSource, Accounts
<1>5. HookInOrder'
  BY <1>1, <1>2 DEF HookInOrder, Boundary
<1>6. tainted' \in BOOLEAN /\ staged' \in BOOLEAN
  BY <1>1 DEF Stage
<1> QED BY <1>1, <1>3, <1>4, <1>5, <1>6, FilesUntouched DEF CountsInv, hookVars, FilesInv

LEMMA DownloadKeeps ==
  ASSUME ChainInv, Download
  PROVE  ChainInv'
<1> USE DEF ChainInv, RunInv
<1>1. /\ command = "transfer" /\ ~staged
      /\ \E content \in {{}, {"snapshot"}} : files' = [files EXCEPT !["snapshot"] = content]
      /\ planted' = planted \ {"snapshot"}
      /\ UNCHANGED <<chain, restored, runVars, crashes, disturbances>>
  BY DEF Download, Running
<1>2. FilesInv'
  <2>1. PICK content \in {{}, {"snapshot"}} : files' = [files EXCEPT !["snapshot"] = content]
    BY <1>1
  <2>2. "snapshot" \in DOMAIN files /\ content \in SUBSET FilesOf(chain)
    BY <1>1, TransferRuns DEF FilesInv
  <2> QED BY <1>1, <2>1, <2>2, WriteKeepsFiles DEF FilesInv
<1>3. checked = 0 /\ ~tainted
  BY <1>1 DEF HookInOrder, TaintHasSource
<1>4. RunInv'
  BY <1>1, <1>3 DEF runVars, hookVars, CapturedRight, Reads, TaintHasSource, HookInOrder, Boundary,
                    FilesInv
<1> QED BY <1>1, <1>2, <1>4 DEF CountsInv

LEMMA ReceiptKeeps ==
  ASSUME ChainInv, Receipt
  PROVE  ChainInv'
<1> USE DEF ChainInv, RunInv
<1>1. /\ command = "transfer" /\ staged'
      /\ captured' = [f \in {"registry", "snapshot"} |->
                        IF f = "snapshot" THEN files[f] ELSE captured[f]]
      /\ tainted' = (files["snapshot"] # {})
      /\ UNCHANGED <<chain, files, planted, restored, command, published, hookVars, crashes,
                     disturbances>>
  BY DEF Receipt, Running, Is
<1>2. files["snapshot"] \subseteq FilesOf(chain)
  <2>1. files["snapshot"] # Absent
    BY DEF Receipt, Is, Absent, FilesInv
  <2> QED BY <2>1, TransferRuns, <1>1 DEF FilesInv
<1>3. CapturedRight'
  BY <1>1, <1>2, TransferRuns DEF CapturedRight, Reads
<1>4. TaintHasSource'
  BY <1>1, TransferRuns DEF TaintHasSource, Accounts
<1>5. HookInOrder'
  <2>1. ~staged
    BY DEF Receipt
  <2> QED BY <1>1, <2>1 DEF HookInOrder, Boundary, hookVars
<1>6. tainted' \in BOOLEAN /\ staged' \in BOOLEAN
  BY <1>1 DEF Receipt
<1> QED BY <1>1, <1>3, <1>4, <1>5, <1>6, FilesUntouched DEF CountsInv, hookVars, FilesInv

LEMMA FreshDestinationKeeps ==
  ASSUME ChainInv, FreshDestination
  PROVE  ChainInv'
<1> USE DEF ChainInv, RunInv
<1>1. /\ command = "none" /\ "snapshot" \in DOMAIN files
      /\ files' = [files EXCEPT !["snapshot"] = Absent]
      /\ planted' = planted \ {"snapshot"}
      /\ UNCHANGED <<chain, restored, runVars, crashes, disturbances>>
  BY DEF FreshDestination, Exists
<1>2. FilesInv'
  BY <1>1, WriteKeepsFiles DEF FilesInv
<1>3. RunInv'
  BY <1>1 DEF runVars, hookVars, CapturedRight, Reads, TaintHasSource, HookInOrder, FilesInv
<1> QED BY <1>1, <1>2, <1>3 DEF CountsInv

----------------------------------------------------------------------------
(* Publication. *)

LEMMA ContentIsOfFiles ==
  ASSUME ChainInv, command # "none", NEW o
  PROVE  Content(o) \in SUBSET FilesOf(chain)
<1>1. Outputs(command) \subseteq FilesOf(chain)
  BY OutputAtHand DEF ChainInv, FilesInv
<1>2. DOMAIN captured \subseteq FilesOf(chain)
  BY OutputAtHand, ChainFacts, TransferRuns
     DEF ChainInv, FilesInv, RunInv, CapturedRight, Reads
<1>3. \A f \in Content(o) : f \in Outputs(command) \/ f \in DOMAIN captured
  BY DEF Content
<1> QED BY <1>1, <1>2, <1>3

(* Commands that pin or replay all that they read make what they should.    *)
LEMMA PinnedContent ==
  ASSUME ChainInv, command \in {"materialize", "projectTasks", "normalize", "recover"}, NEW o
  PROVE  Content(o) = {}
<1>1. command \in DOMAIN Commands /\ command # "transfer" /\ command # "none"
  BY OutputAtHand
<1>2. /\ Right(command) = Commands[command].in /\ Commands[command].live = {}
      /\ Commands[command].sources \subseteq Commands[command].in
  BY <1>1, CommandFacts DEF SourceFacts
<1>3. \A f \in DOMAIN captured : captured[f] = {}
  BY <1>1, <1>2 DEF ChainInv, RunInv, CapturedRight, Reads
<1>4. ~tainted
  BY <1>1, <1>2, <1>3 DEF ChainInv, RunInv, TaintHasSource, Accounts, CapturedRight, Reads
<1> QED BY <1>3, <1>4 DEF Content

LEMMA PilotContent ==
  ASSUME ChainInv, command = "pilot"
  PROVE  Content("pilot") \cap {"normalized", "manifest", "audit", "split"} = {}
<1>1. command \in DOMAIN Commands /\ command # "none"
  BY OutputAtHand
<1>2. \A f \in {"normalized", "manifest", "audit", "split"} :
        f \in Commands["pilot"].in /\ captured[f] = {}
  <2>1. Right("pilot") = {"normalized", "manifest", "audit", "split"}
    BY DEF Right
  <2> QED BY <1>1, <2>1, CommandFacts DEF ChainInv, RunInv, CapturedRight, SourceFacts
<1>3. \A f \in {"normalized", "manifest", "audit", "split"} : f \notin Outputs(command)
  BY <1>1, <1>2, CommandFacts DEF OutputFacts
<1> QED BY <1>2, <1>3 DEF Content

(* The hook hashes one more file.                                           *)
LEMMA CheckKeeps ==
  ASSUME ChainInv, CheckFile
  PROVE  ChainInv'
<1> USE DEF ChainInv, RunInv
<1> DEFINE n == checked + 1
           f == Subject(n)
<1>1. /\ command # "none" /\ staged /\ checked < Boundary /\ checked' = n
      /\ Is(f, Expected(f))
      /\ UNCHANGED <<chain, files, planted, restored, command, captured, staged, tainted,
                     published, slipped, crashes, disturbances>>
  BY DEF CheckFile
<1>2. /\ Boundary \in Nat /\ checked \in 0..Boundary /\ checked \in Nat /\ n \in 1..Boundary
      /\ Boundary' = Boundary
  <2>1. Boundary \in Nat
    BY <1>1, OutputAtHand, HooksByCommand DEF Boundary, HookFacts
  <2>2. checked \in 0..Boundary
    BY <1>1 DEF HookInOrder
  <2> QED BY <1>1, <2>1, <2>2 DEF Boundary
<1>3. /\ \A i : Subject(i)' = Subject(i)
      /\ \A g : Expected(g)' = Expected(g)
  BY <1>1 DEF Subject, Expected, Content
<1>4. \A i \in 1..n : i \in 1..checked \/ i = n
  BY <1>2
<1>5. HookInOrder'
  <2>1. ASSUME NEW i \in 1..n PROVE Is(Subject(i), Expected(Subject(i))) \/ Subject(i) \in slipped
    <3>1. CASE i \in 1..checked
      BY <1>1, <3>1 DEF HookInOrder
    <3>2. CASE i = n
      BY <1>1, <3>2
    <3> QED BY <1>4, <3>1, <3>2
  <2>2. n \in 0..Boundary
    BY <1>2
  <2> HIDE DEF f, n
  <2>3. \A i \in 1..n : Is(Subject(i), Expected(Subject(i)))' \/ Subject(i)' \in slipped'
    BY <1>1, <1>3, <2>1 DEF Is
  <2> QED BY <1>1, <1>2, <2>2, <2>3 DEF HookInOrder
<1>6. TaintHasSource'
  <2> SUFFICES ASSUME tainted PROVE TaintHasSource'
    BY <1>1 DEF TaintHasSource
  <2>1. PICK g \in Commands[command].sources : Accounts(g)
    BY DEF TaintHasSource
  <2>2. CASE captured[g] # {} \/ (g \in Commands[command].live /\ g \in restored)
    BY <1>1, <2>1, <2>2 DEF TaintHasSource, Accounts
  <2>3. CASE g \in Commands[command].live /\ files[g] # captured[g] /\ g \notin Checked
    <3>1. g \in DOMAIN captured
      BY <1>1, <2>3, WatchedIsCaptured
    <3>2. g # f
      BY <1>1, <2>3, <3>1 DEF Is, Expected
    <3>3. ASSUME NEW i \in 1..n PROVE g # Subject(i)
      BY <1>4, <2>3, <3>2 DEF Checked
    <3>4. Checked' = {Subject(i) : i \in 1..n}
      BY <1>1, <1>3 DEF Checked
    <3> HIDE DEF f, n
    <3>5. g \notin Checked'
      BY <3>3, <3>4
    <3> QED BY <1>1, <2>1, <2>3, <3>5 DEF TaintHasSource, Accounts
  <2> QED BY <2>1, <2>2, <2>3 DEF Accounts
<1>7. CapturedRight'
  BY <1>1 DEF CapturedRight, Reads
<1> QED BY <1>1, <1>5, <1>6, <1>7, FilesUntouched DEF CountsInv, FilesInv

LEMMA LinkKeeps ==
  ASSUME ChainInv, Link
  PROVE  ChainInv'
<1> DEFINE o == Commands[command].out[published + 1]
<1>0. command # "none"
  BY DEF Link, ChainInv, RunInv
<1>1. /\ files' = [files EXCEPT ![o] = Content(o)]
      /\ planted' = IF files[o] = Absent THEN planted \ {o} ELSE planted
      /\ UNCHANGED <<chain, restored, crashes, disturbances>>
      /\ o = Manifest(command) => Stop
      /\ o # Manifest(command) =>
           /\ published' = published + 1 /\ checked' = 0 /\ slipped' = {}
           /\ UNCHANGED <<command, captured, staged, tainted>>
  BY DEF Link
<1>2. o \in Outputs(command) /\ o \in DOMAIN files
  BY <1>0, OutputAtHand
<1>3. Content(o) \in SUBSET FilesOf(chain) /\ Content(o) # Absent
  BY <1>0, ContentIsOfFiles, ChainOfManifests DEF ChainInv
<1> HIDE DEF o
<1>4. /\ o \in {"normalized", "rejections", "manifest", "rawManifest", "safeManifest",
                "recovery"} => Content(o) = {}
      /\ o = "pilot" => Content(o) \cap {"normalized", "manifest", "audit", "split"} = {}
  BY <1>0, <1>2, OutputAtHand, CommandFacts, PinnedContent, PilotContent DEF OwnerFacts, Owns
<1>5. FilesInv'
  <2>1. planted \subseteq DOMAIN files /\ restored \subseteq DOMAIN files
    BY DEF ChainInv, FilesInv
  <2>2. /\ \A g \in DOMAIN files \ {o} : g \in planted' <=> g \in planted
        /\ planted' \subseteq DOMAIN files /\ restored' \subseteq DOMAIN files
    BY <1>1, <2>1
  <2> QED BY <1>1, <1>2, <1>3, <1>4, <2>2, WriteKeepsFiles
<1>6. RunInv'
  <2>1. CASE o = Manifest(command)
    BY <1>1, <2>1, StopKeeps
  <2>2. CASE o # Manifest(command)
    <3>1. /\ published' = published + 1 /\ checked' = 0 /\ slipped' = {}
          /\ UNCHANGED <<chain, command, captured, staged, tainted, restored>>
      BY <1>1, <2>2
    <3>2. published' \in 0..(Len(Commands[command].out) - 1)
      <4>1. published + 1 # Len(Commands[command].out)
        BY <2>2 DEF Manifest, o
      <4> QED BY <1>0, <3>1, <4>1, OutputAtHand, CommandFacts DEF OutputFacts
    <3>3. CapturedRight'
      BY <3>1 DEF ChainInv, RunInv, CapturedRight, Reads
    <3>4. TaintHasSource'
      <4> SUFFICES ASSUME tainted PROVE TaintHasSource'
        BY <3>1 DEF TaintHasSource
      <4>1. PICK f \in Commands[command].sources : Accounts(f)
        BY DEF ChainInv, RunInv, TaintHasSource
      <4>2. staged /\ Checked' = {}
        BY <3>1 DEF ChainInv, RunInv, TaintHasSource, Checked
      <4>3. f \in Commands[command].live => files'[f] = files[f]
        <5>1. o \notin Commands[command].live
          BY <1>0, <1>2, <4>2, OutputAtHand, WatchedIsCaptured
        <5> QED BY <1>1, <5>1, <1>0, <4>2, LiveAtHand
      <4> QED BY <3>1, <4>1, <4>2, <4>3 DEF TaintHasSource, Accounts
    <3>5. HookInOrder'
      <4>1. Boundary' \in Nat
        BY <1>0, <3>1, <3>2, OutputAtHand, HooksByCommand, CommandFacts
           DEF Boundary, HookFacts, OutputFacts
      <4> QED BY <3>1, <4>1, <1>0 DEF HookInOrder, Link
    <3> QED BY <1>0, <3>1, <3>2, <3>3, <3>4, <3>5 DEF ChainInv, RunInv
  <2> QED BY <2>1, <2>2
<1> QED BY <1>1, <1>5, <1>6 DEF ChainInv, CountsInv

LEMMA StutterKeeps ==
  ASSUME ChainInv, UNCHANGED vars
  PROVE  ChainInv'
<1> USE DEF ChainInv, RunInv
<1>1. UNCHANGED <<chain, files, planted, restored, command, captured, staged, tainted, published,
                  checked, slipped, crashes, disturbances>>
  BY DEF vars, runVars, hookVars
<1>2. /\ \A i : Subject(i)' = Subject(i)
      /\ \A f : Expected(f)' = Expected(f)
      /\ Boundary' = Boundary
  BY <1>1 DEF Subject, Expected, Content, Boundary
<1>3. Checked' = Checked
  BY <1>1, <1>2 DEF Checked
<1>4. TaintHasSource'
  BY <1>1, <1>3 DEF TaintHasSource, Accounts
<1>5. HookInOrder'
  BY <1>1, <1>2 DEF HookInOrder, Is
<1>6. CapturedRight'
  BY <1>1 DEF CapturedRight, Reads
<1> QED BY <1>1, <1>4, <1>5, <1>6, FilesUntouched DEF CountsInv, FilesInv

----------------------------------------------------------------------------
THEOREM ChainInvariance == Spec => []ChainInv
<1>1. Init => ChainInv
  <2> SUFFICES ASSUME Init PROVE ChainInv
    OBVIOUS
  <2> USE DEF Init
  <2>1. /\ DOMAIN files = FilesOf(chain)
        /\ \A f \in DOMAIN files : files[f] \in {{}, Absent}
        /\ \A f \in DOMAIN files : Exists(f) => files[f] = {}
    BY DEF Exists
  <2>2. ManifestsNameTheirRows
    BY <2>1 DEF ManifestsNameTheirRows, Exists, Is
  <2>3. NormalizedIsReplayed
    BY <2>1 DEF NormalizedIsReplayed, Exists, Is
  <2>4. FilesInv
    BY <2>1, <2>2, <2>3 DEF FilesInv
  <2>5. RunInv
    BY DEF RunInv, CapturedRight, TaintHasSource, HookInOrder
  <2>6. CountsInv
    BY ChainAssumption DEF CountsInv
  <2> QED BY <2>4, <2>5, <2>6 DEF ChainInv
<1>2. ChainInv /\ [Next]_vars => ChainInv'
  <2> SUFFICES ASSUME ChainInv, [Next]_vars PROVE ChainInv'
    OBVIOUS
  <2>1. CASE Work
    BY <2>1, CaptureKeeps, DownloadKeeps, ReceiptKeeps, StageKeeps, CheckKeeps, LinkKeeps,
       EndKeeps, FreshDestinationKeeps DEF Work
  <2>2. CASE Crash
    BY <2>2, EndKeeps
  <2>3. ASSUME NEW f \in DOMAIN files, Overwrite(f) \/ PutBack(f) \/ Remove(f) PROVE ChainInv'
    BY <2>3, OverwriteKeeps, PutBackKeeps, RemoveKeeps
  <2>4. CASE UNCHANGED vars
    BY <2>4, StutterKeeps
  <2> QED BY <2>1, <2>2, <2>3, <2>4 DEF Next
<1> QED BY <1>1, <1>2, PTL DEF Spec

(* The files and the running command keep their types, and nothing of a     *)
(* command outlives it.                                                     *)
THEOREM ChainTypeCorrect == Spec => []ChainTypeOK
<1>1. ChainInv => ChainTypeOK
  <2> SUFFICES ASSUME ChainInv PROVE ChainTypeOK
    OBVIOUS
  <2>1. ASSUME command # "none"
        PROVE  /\ Commands[command].in \subseteq DOMAIN captured
               /\ published < Len(Commands[command].out)
               /\ checked \in 0..Boundary
    <3>1. Commands[command].in \subseteq DOMAIN captured
      BY <2>1, TransferRuns DEF ChainInv, RunInv, CapturedRight, Reads
    <3>2. published < Len(Commands[command].out)
      BY <2>1, OutputAtHand, CommandFacts DEF ChainInv, RunInv, OutputFacts
    <3> QED BY <2>1, <3>1, <3>2 DEF ChainInv, RunInv, HookInOrder
  <2> QED BY <2>1 DEF ChainInv, FilesInv, RunInv, CountsInv, ChainTypeOK
<1> QED BY <1>1, ChainInvariance, PTL

(* What normalization publishes is what the pinned snapshots lead to, and   *)
(* the leaf that a pilot records is the one its pinned audit and split lead *)
(* to, whatever was planted, put back or removed in between.                *)
THEOREM NormalizationIsReplayed == Spec => []NormalizedIsReplayed
<1>1. ChainInv => NormalizedIsReplayed
  BY DEF ChainInv, FilesInv
<1> QED BY <1>1, ChainInvariance, PTL

(* Only a link completes a manifest. *)
LEMMA OnlyLinkCompletes ==
  ASSUME ChainInv, [Next]_vars, NEW c \in Chains[chain], Completes(c)
  PROVE  Link
<1>1. command # "none" /\ command' = "none" /\ files' # files
  BY ChainFacts DEF Completes, ChainInv
<1>2. ~(\E f \in DOMAIN files : Overwrite(f) \/ PutBack(f) \/ Remove(f))
  BY <1>1 DEF Overwrite, PutBack, Remove, Disturb
<1>3. ~(\/ \E d \in DOMAIN Commands : Capture(d)
        \/ Download \/ Receipt \/ Stage \/ CheckFile \/ GiveUp \/ FreshDestination \/ Crash)
  BY <1>1 DEF Capture, Download, Receipt, Stage, CheckFile, GiveUp, FreshDestination, Crash,
              runVars
<1> QED BY <1>1, <1>2, <1>3 DEF Next, Work, vars

(* The step that completes the manifest of the running command.             *)
LEMMA ManifestFollowsOutputs ==
  ASSUME ChainInv, Link, command # "none",
         files[Manifest(command)] = Absent, command' = "none"
  PROVE  /\ staged /\ checked = Boundary
         /\ published + 1 = Len(Commands[command].out)
         /\ files' = [files EXCEPT ![Manifest(command)] = Content(Manifest(command))]
<1> DEFINE o == Commands[command].out[published + 1]
<1>1. o = Manifest(command)
  BY DEF Link
<1>2. published + 1 = Len(Commands[command].out)
  BY <1>1, OutputAtHand, CommandFacts DEF Manifest, OutputFacts
<1> QED BY <1>1, <1>2 DEF Link

(* The hook is through: it came to every input it watches and to every      *)
(* output that is published, and found it as it has to be.                  *)
LEMMA HookIsThrough ==
  ASSUME ChainInv, command # "none", staged, checked = Boundary, NEW f,
         f \in Watched(command) \/ \E j \in 1..published : f = Commands[command].out[j]
  PROVE  f \in Checked /\ (Is(f, Expected(f)) \/ f \in slipped)
<1> DEFINE n == Len(Commands[command].hook)
<1>1. /\ n \in Nat /\ DOMAIN Commands[command].hook = 1..n
      /\ published \in Nat /\ checked = n + published
  BY OutputAtHand, HooksByCommand, CommandFacts
     DEF HookFacts, OutputFacts, Boundary, ChainInv, RunInv
<1>2. \E i \in 1..checked : f = Subject(i)
  <2>1. CASE f \in Watched(command)
    <3>1. PICK i \in 1..n : f = Commands[command].hook[i]
      BY <1>1, <2>1 DEF Watched
    <3>2. f = Subject(i)
      BY <1>1, <3>1 DEF Subject
    <3> QED BY <1>1, <3>2
  <2>2. CASE \E j \in 1..published : f = Commands[command].out[j]
    <3>1. PICK j \in 1..published : f = Commands[command].out[j]
      BY <2>2
    <3>2. n + j \in 1..checked /\ ~(n + j <= n) /\ (n + j) - n = j
      BY <1>1, <3>1
    <3>3. f = Subject(n + j)
      BY <3>1, <3>2 DEF Subject
    <3> QED BY <3>2, <3>3
  <2> QED BY <2>1, <2>2
<1>3. PICK i \in 1..checked : f = Subject(i)
  BY <1>2
<1> QED BY <1>3 DEF Checked, ChainInv, RunInv, HookInOrder

(* A file that the completed manifest records is on disk as recorded.       *)
LEMMA RecordIsTrue ==
  ASSUME ChainInv, command # "none", staged, checked = Boundary,
         published + 1 = Len(Commands[command].out),
         NEW f \in Records[Manifest(command)] \cap (Watched(command) \cup Outputs(command)),
         f # Manifest(command), f \notin slipped
  PROVE  f \in Content(Manifest(command)) <=> files[f] # {}
<1> DEFINE m == Manifest(command)
<1>1. command \in DOMAIN Commands /\ m \in DOMAIN Records
  BY OutputAtHand, CommandFacts DEF OutputFacts
<1>2. CASE f \in Watched(command)
  <2>1. f \in DOMAIN captured /\ f \notin Outputs(command)
    BY <1>2, OutputAtHand, WatchedIsCaptured
  <2>2. files[f] = captured[f]
    BY <1>2, <2>1, HookIsThrough DEF Is, Expected
  <2> QED BY <1>1, <2>1, <2>2 DEF Content
<1>3. CASE f \in Outputs(command)
  <2>1. \E i \in 1..published : f = Commands[command].out[i]
    <3>1. PICK i \in 1..Len(Commands[command].out) : f = Commands[command].out[i]
      BY <1>1, <1>3, CommandFacts DEF Outputs, OutputFacts
    <3>2. i # Len(Commands[command].out)
      BY <3>1 DEF Manifest
    <3>3. published \in Nat
      BY <1>1, OutputAtHand, CommandFacts DEF ChainInv, RunInv, OutputFacts
    <3> QED BY <1>1, <3>1, <3>2, <3>3, CommandFacts DEF OutputFacts
  <2>2. f \notin DOMAIN Records /\ f \notin DOMAIN captured
    BY <1>1, <1>3, OutputAtHand, CommandFacts DEF OutputFacts
  <2>3. files[f] = Content(f)
    BY <2>1, <2>2, HookIsThrough DEF Is, Expected
  <2>4. Content(f) = IF tainted THEN {f} ELSE {}
    BY <1>3, <2>2 DEF Content
  <2>5. f \in Content(m) <=> tainted
    BY <1>1, <1>3, <2>2 DEF Content
  <2> QED BY <2>3, <2>4, <2>5
<1> QED BY <1>2, <1>3

(* A manifest that names a foreign output names a foreign source.           *)
LEMMA TaintIsRecorded ==
  ASSUME ChainInv, command # "none", staged, checked = Boundary,
         restored \cap Commands[command].live \cap Commands[command].sources = {},
         NEW o \in Outputs(command), o \in Content(Manifest(command))
  PROVE  Content(Manifest(command)) \cap Commands[command].sources # {}
<1>1. command \in DOMAIN Commands /\ Manifest(command) \in DOMAIN Records
  BY OutputAtHand, CommandFacts DEF OutputFacts
<1>2. tainted
  BY OutputAtHand DEF Content
<1>3. PICK f \in Commands[command].sources : Accounts(f)
  BY <1>2 DEF ChainInv, RunInv, TaintHasSource
<1>4. f \in DOMAIN captured
  BY <1>1, <1>3, CommandFacts, TransferRuns
     DEF ChainInv, RunInv, CapturedRight, Reads, SourceFacts
<1>5. captured[f] # {}
  <2>1. f \in Commands[command].live => f \in Checked
    BY <1>1, HooksByCommand, HookIsThrough DEF HookFacts
  <2> QED BY <1>3, <2>1 DEF Accounts
<1>6. f \in Records[Manifest(command)]
  BY <1>1, <1>3, <1>5, CommandFacts DEF ChainInv, RunInv, CapturedRight, SourceFacts
<1> QED BY <1>1, <1>3, <1>4, <1>5, <1>6 DEF Content

(* When a manifest appears, every file it records has the content that it   *)
(* records, but for those disturbed after the hook had come to them, and    *)
(* what it says was made was made from what it says was read.               *)
THEOREM ManifestsTellTruth == Spec => ManifestTellsTruth
<1> DEFINE Said(c) ==
      Completes(c) =>
        LET said == files'[Manifest(c)]
        IN /\ \A f \in Records[Manifest(c)] \cap (Watched(c) \cup Outputs(c)) :
                f \notin slipped => (f \in said) = (files'[f] # {})
           /\ restored \cap Commands[c].live \cap Commands[c].sources = {} =>
                \A o \in Outputs(c) : o \in said => said \cap Commands[c].sources # {}
<1>1. ChainInv /\ [Next]_vars => \A c \in Chains[chain] : Said(c)
  <2> SUFFICES ASSUME ChainInv, [Next]_vars, NEW c \in Chains[chain], Completes(c) PROVE Said(c)
    OBVIOUS
  <2> DEFINE m == Manifest(c)
  <2>1. /\ command = c /\ c # "none" /\ command' = "none" /\ files[m] = Absent
        /\ c \in DOMAIN Commands
    BY ChainFacts DEF Completes, ChainInv
  <2>2. /\ staged /\ checked = Boundary /\ published + 1 = Len(Commands[command].out)
        /\ files' = [files EXCEPT ![m] = Content(m)]
    BY <2>1, OnlyLinkCompletes, ManifestFollowsOutputs
  <2>3. m \in DOMAIN files /\ Outputs(c) \subseteq DOMAIN files /\ m \in Outputs(c)
    BY <2>1, OutputAtHand, CommandFacts DEF OutputFacts
  <2>4. files'[m] = Content(m)
    BY <2>2, <2>3
  <2>5. ASSUME NEW f \in Records[Manifest(c)] \cap (Watched(c) \cup Outputs(c)), f \notin slipped
        PROVE  (f \in Content(m)) = (files'[f] # {})
    <3>1. f # m /\ f \in DOMAIN files
      BY <2>1, <2>3, <2>5, CommandFacts, ChainFacts, TransferRuns
         DEF ChainInv, FilesInv, OutputFacts, SourceFacts
    <3>2. files'[f] = files[f]
      BY <2>2, <3>1
    <3> QED BY <2>1, <2>2, <2>5, <3>1, <3>2, RecordIsTrue
  <2>6. ASSUME restored \cap Commands[c].live \cap Commands[c].sources = {},
               NEW o \in Outputs(c), o \in Content(m)
        PROVE  Content(m) \cap Commands[c].sources # {}
    BY <2>1, <2>2, <2>6, TaintIsRecorded
  <2> QED BY <2>4, <2>5, <2>6
<1> QED BY <1>1, ChainInvariance, PTL DEF Spec, ManifestTellsTruth
=============================================================================
