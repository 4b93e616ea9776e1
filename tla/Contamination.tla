--------------------------- MODULE Contamination ---------------------------
(***************************************************************************)
(* nodelm.decontamination.contamination.build_contamination_index: the      *)
(* repository-disjoint split.  Repositories that share a task or a patch,   *)
(* exactly or nearly, are merged in a union-find forest kept in an SQLite   *)
(* table; samples that overlap a public benchmark mark their repository;    *)
(* then every group goes whole to train, to evaluation or to the excluded.  *)
(*                                                                          *)
(* The model starts where the samples and the benchmarks are loaded and     *)
(* takes one step per query that can change the forest, the marks or the    *)
(* splits.  A text is a value with a length; how many of its characters     *)
(* SequenceMatcher matches in another text is part of the input.            *)
(***************************************************************************)
EXTENDS Integers

CONSTANTS
  Repositories,     \* canonical, alias-resolved repositories, in text order
  Samples,          \* sample ids
  Tasks, Patches,   \* fingerprints of normalized texts of each kind, in order
  Length,           \* length of the text with each fingerprint
  Num, Den,         \* near_duplicate_threshold is Num / Den
  EvaluationRoots,  \* the roots whose bucket is below evaluation_fraction
  SampleRows,       \* the sample tables the model starts from
  Matchings,        \* the match counts the model starts from
  BenchmarkSets,    \* the benchmark tables the model starts from
  None              \* no repository

Values == Tasks \cup Patches

SameKind(v, w) == (v \in Tasks /\ w \in Tasks) \/ (v \in Patches /\ w \in Patches)

ASSUME ContaminationAssumption ==
  /\ Repositories \subseteq Nat /\ None \notin Repositories
  /\ Values \subseteq Nat /\ Tasks \cap Patches = {}
  /\ Length \in [Values -> Nat]
  /\ Num \in Nat \ {0} /\ Den \in Nat /\ Num <= Den
  /\ SampleRows \subseteq [Samples -> [repository : Repositories, texts : SUBSET Values]]
  /\ Matchings \subseteq [Values \X Values -> Nat]
  /\ \A m \in Matchings : \A v, w \in Values :
       m[<<v, w>>] = m[<<w, v>>] /\ m[<<v, w>>] <= Length[v]
  /\ BenchmarkSets \subseteq SUBSET Values

VARIABLES
  row,        \* the repository and the text fingerprints of each sample
  matched,    \* characters matched between two texts, in the better direction
  benchmark,  \* benchmark_values
  stage,      \* the pass build_contamination_index is in
  pending,    \* the groups of values the pass has not reached
  todo,       \* repositories whose root is still to be found
  current,    \* where _find_root stands, or None
  path,       \* what _find_root has walked through
  roots,      \* the roots found for the current group
  parent,     \* repositories.parent
  overlap,    \* samples with benchmark_overlap = 1
  split       \* repositories.split

input == <<row, matched, benchmark>>
walk == <<todo, current, path, roots>>
vars == <<input, stage, pending, walk, parent, overlap, split>>

Stages == {"exact", "near", "overlap", "compress", "assign", "done"}

----------------------------------------------------------------------------
(* Which texts are related.                                                 *)

(* is_near_duplicate: 2 * matched / (both lengths) >= threshold.            *)
NearDuplicate(v, w) ==
  2 * matched[<<v, w>>] * Den >= Num * (Length[v] + Length[w])

WithinStrictBounds(v, w) ==
  /\ Length[v] * Num < Length[w] * (2 * Den - Num)
  /\ Length[w] * Num < Length[v] * (2 * Den - Num)

(* length BETWEEN the floor and the ceiling of _candidate_length_bounds:    *)
(* floor(a / b) <= n is a < (n + 1) * b, and ceil(a / b) >= n is            *)
(* a > (n - 1) * b.                                                         *)
WithinBounds(v, w) ==
  /\ Length[v] * Num < (Length[w] + 1) * (2 * Den - Num)
  /\ (Length[w] - 1) * Num < Length[v] * (2 * Den - Num)

(* Two texts count as one: they are the same, or near duplicates.           *)
Related(v, w) == v = w \/ (SameKind(v, w) /\ NearDuplicate(v, w))

RepositoriesWith(group) ==
  {row[s].repository : s \in {u \in Samples : row[u].texts \cap group # {}}}

(* value_repositories rows of one fingerprint, more than one of them.       *)
ExactGroups ==
  {{v} : v \in {u \in Values : \E s, t \in Samples :
                 /\ u \in row[s].texts \cap row[t].texts
                 /\ row[s].repository # row[t].repository}}

(* content_values: the texts some sample has.                               *)
Contents == UNION {row[s].texts : s \in Samples}

NearGroups ==
  {{p[1], p[2]} : p \in {q \in Contents \X Contents :
     /\ SameKind(q[1], q[2])
     /\ q[1] < q[2]
     /\ WithinBounds(q[1], q[2])
     /\ NearDuplicate(q[1], q[2])}}

BenchmarkText(v) ==
  \/ v \in benchmark
  \/ \E b \in benchmark \ {v} :
       SameKind(v, b) /\ WithinBounds(v, b) /\ NearDuplicate(v, b)

----------------------------------------------------------------------------
TypeOK ==
  /\ row \in [Samples -> [repository : Repositories, texts : SUBSET Values]]
  /\ matched \in [Values \X Values -> Nat]
  /\ benchmark \subseteq Values
  /\ stage \in Stages
  /\ pending \subseteq SUBSET Values
  /\ todo \subseteq Repositories
  /\ current \in Repositories \cup {None}
  /\ path \subseteq Repositories
  /\ roots \subseteq Repositories
  /\ parent \in [Repositories -> Repositories]
  /\ overlap \subseteq Samples
  /\ split \in [Repositories -> {"", "train", "evaluation", "excluded"}]

----------------------------------------------------------------------------
Init ==
  /\ row \in SampleRows
  /\ matched \in Matchings
  /\ benchmark \in BenchmarkSets
  /\ stage = "exact"
  /\ pending = ExactGroups
  /\ todo = {}
  /\ current = None
  /\ path = {}
  /\ roots = {}
  /\ parent = [r \in Repositories |-> r]
  /\ overlap = {}
  /\ split = [r \in Repositories |-> ""]

Used == {row[s].repository : s \in Samples}

Idle == todo = {} /\ current = None /\ roots = {}

(* _union_value_repositories of the next group.  The code goes through the  *)
(* groups in fingerprint order; the model allows every order.               *)
TakeGroup(group) ==
  /\ stage \in {"exact", "near"}
  /\ Idle
  /\ group \in pending
  /\ pending' = pending \ {group}
  /\ todo' = RepositoriesWith(group)
  /\ UNCHANGED <<input, stage, current, path, roots, parent, overlap, split>>

(* _find_root of the first repository, in text order. *)
StartFind(r) ==
  /\ current = None
  /\ r \in todo
  /\ \A q \in todo : r <= q
  /\ todo' = todo \ {r}
  /\ current' = r
  /\ path' = {}
  /\ UNCHANGED <<input, stage, pending, roots, parent, overlap, split>>

ClimbNowhere ==
  /\ current # None
  /\ parent[current] # current
  /\ path' = path \cup {current}
  /\ UNCHANGED <<input, stage, pending, todo, current, roots, parent, overlap, split>>

(* The parent is somebody else: path.append(current), and up. *)
Climb ==
  /\ current # None
  /\ parent[current] # current
  /\ path' = path \cup {current}
  /\ current' = parent[current]
  /\ UNCHANGED <<input, stage, pending, todo, roots, parent, overlap, split>>

ReachRootAfterReset ==
  /\ current # None
  /\ parent[current] = current
  /\ current' = None
  /\ parent' = [r \in Repositories |-> IF r \in path THEN current' ELSE parent[r]]
  /\ roots' = roots \cup {current}
  /\ path' = {}
  /\ UNCHANGED <<input, stage, pending, todo, overlap, split>>

(* A root: the path is compressed onto it. *)
ReachRoot ==
  /\ current # None
  /\ parent[current] = current
  /\ parent' = [r \in Repositories |-> IF r \in path THEN current ELSE parent[r]]
  /\ roots' = roots \cup {current}
  /\ current' = None
  /\ path' = {}
  /\ UNCHANGED <<input, stage, pending, todo, overlap, split>>

LinkRootsOnly(root) ==
  /\ stage \in {"exact", "near"}
  /\ todo = {} /\ current = None
  /\ root \in roots /\ \A q \in roots : root <= q
  /\ parent' = [r \in Repositories |-> IF r \in roots THEN root ELSE parent[r]]
  /\ roots' = {}
  /\ UNCHANGED <<input, stage, pending, todo, current, path, overlap, split>>

(* Every root of the group is found: the least one becomes the parent of    *)
(* whatever had one of them as parent (UPDATE ... WHERE parent = child).    *)
LinkRoots(root) ==
  /\ stage \in {"exact", "near"}
  /\ todo = {} /\ current = None
  /\ root \in roots /\ \A q \in roots : root <= q
  /\ parent' = [r \in Repositories |-> IF parent[r] \in roots THEN root ELSE parent[r]]
  /\ roots' = {}
  /\ UNCHANGED <<input, stage, pending, todo, current, path, overlap, split>>

(* A pass is over and the next one reads its groups. *)
NextPass ==
  /\ Idle
  /\ pending = {}
  /\ \/ /\ stage = "exact"
        /\ stage' = "near" /\ pending' = NearGroups /\ todo' = todo
     \/ /\ stage = "near"
        /\ stage' = "overlap" /\ pending' = {{v} : v \in Contents} /\ todo' = todo
     \/ /\ stage = "overlap"
        /\ stage' = "compress" /\ pending' = {} /\ todo' = Used
  /\ UNCHANGED <<input, current, path, roots, parent, overlap, split>>

(* _mark_exact_ and _mark_near_benchmark_overlap of one text.               *)
MarkOverlap(v) ==
  /\ stage = "overlap"
  /\ {v} \in pending
  /\ pending' = pending \ {{v}}
  /\ overlap' = IF BenchmarkText(v)
                  THEN overlap \cup {s \in Samples : v \in row[s].texts} ELSE overlap
  /\ UNCHANGED <<input, stage, walk, parent, split>>

(* _compress_repository_groups has looked every repository up. *)
Compressed ==
  /\ stage = "compress"
  /\ todo = {} /\ current = None
  /\ stage' = "assign"
  /\ roots' = {}
  /\ UNCHANGED <<input, pending, todo, current, path, parent, overlap, split>>

ExcludedRoots == {parent[row[s].repository] : s \in overlap}

AssignRepositories ==
  /\ stage = "assign"
  /\ split' = [r \in Repositories |->
       IF r \in {row[s].repository : s \in overlap} THEN "excluded"
       ELSE IF parent[r] \in EvaluationRoots THEN "evaluation" ELSE "train"]
  /\ stage' = "done"
  /\ UNCHANGED <<input, pending, walk, parent, overlap>>

(* _assign_splits: groups with an overlap are excluded, the others go by    *)
(* the bucket of their root.                                                *)
AssignSplits ==
  /\ stage = "assign"
  /\ split' = [r \in Repositories |->
       IF parent[r] \in ExcludedRoots THEN "excluded"
       ELSE IF parent[r] \in EvaluationRoots THEN "evaluation" ELSE "train"]
  /\ stage' = "done"
  /\ UNCHANGED <<input, pending, walk, parent, overlap>>

Next ==
  \/ \E group \in pending : TakeGroup(group)
  \/ \E r \in todo : StartFind(r)
  \/ Climb
  \/ ReachRoot
  \/ \E root \in roots : LinkRoots(root)
  \/ NextPass
  \/ \E v \in Values : MarkOverlap(v)
  \/ Compressed
  \/ AssignSplits

Spec == Init /\ [][Next]_vars

FairSpec == Spec /\ WF_vars(Next)

----------------------------------------------------------------------------
(* The forest is flat whenever no lookup is under way: the parent of every  *)
(* repository is a root.  Linking by "WHERE parent = child" is only right   *)
(* while this holds.                                                        *)
FlatForest ==
  \A r \in Repositories : parent[parent[r]] = parent[r]

(* No leakage: two samples with equal or nearly equal tasks or patches are  *)
(* never in different splits, over any chain of repositories, although only *)
(* pairs within the length bounds were ever compared.                       *)
NoLeakage ==
  stage = "done" =>
    \A s, t \in Samples :
      (\E v \in row[s].texts, w \in row[t].texts : Related(v, w))
        => split[row[s].repository] = split[row[t].repository]

(* A sample that equals or nearly equals a benchmark text is in neither     *)
(* train nor evaluation, and nor is any sample related to it.               *)
BenchmarkExcluded ==
  stage = "done" =>
    \A s, t \in Samples :
      /\ \E v \in row[s].texts, b \in benchmark : Related(v, b)
      /\ \/ s = t
         \/ \E v \in row[s].texts, w \in row[t].texts : Related(v, w)
      => split[row[t].repository] = "excluded"

(* The repositories of two samples with related texts. *)
Links ==
  {<<row[p[1]].repository, row[p[2]].repository>> : p \in {q \in Samples \X Samples :
     \E v \in row[q[1]].texts, w \in row[q[2]].texts : Related(v, w)}}

(* The sets of repositories that no link leads out of. *)
ClosedUnder(links) == {set \in SUBSET Used : \A l \in links : l[1] \in set => l[2] \in set}

(* When the forest is finished its groups are exactly the components of the *)
(* repositories under related texts, each led by its least repository       *)
(* (root = min(roots)): q has the root of r when a chain of links leads     *)
(* from r to q, that is when no closed set holds r without q.               *)
GroupsAreComponents ==
  stage \in {"assign", "done"} =>
    LET links == Links
        closed == ClosedUnder(links)
        Connected(r, q) == \A set \in closed : r \in set => q \in set
    IN  \A r \in Used :
          /\ \A q \in Used : (parent[r] = parent[q]) <=> Connected(r, q)
          /\ parent[r] <= r /\ parent[r] \in Used

(* Every lookup ends: the parents never form a cycle. *)
BuildTerminates == <>(stage = "done")
=============================================================================
