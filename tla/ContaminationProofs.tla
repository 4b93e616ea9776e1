------------------------ MODULE ContaminationProofs ------------------------
(* Proofs about Contamination, for every set of repositories, samples and   *)
(* texts and every threshold in (0, 1].                                     *)
EXTENDS Contamination, TLAPS

(* The inputs never change from what the model starts from. *)
InputOK ==
  /\ row \in SampleRows
  /\ matched \in Matchings
  /\ benchmark \in BenchmarkSets

(* What a lookup has walked through leads to where it stands.               *)
WalkOK ==
  /\ \A q \in roots : parent[q] = q
  /\ current = None => path = {}
  /\ current # None => \A r \in path : parent[r] = current

Merged(group) ==
  \A r, q \in RepositoriesWith(group) : parent[r] = parent[q]

(* Every repository of the group is still to be looked up, being looked up, *)
(* or has one of the found roots as its parent.                             *)
InProgress(group) ==
  \A r \in RepositoriesWith(group) :
    \/ r \in todo
    \/ current # None /\ (r = current \/ r \in path)
    \/ parent[r] \in roots

Taken ==
  CASE stage = "exact" -> ExactGroups \ pending
    [] stage = "near"  -> ExactGroups \cup (NearGroups \ pending)
    [] OTHER           -> ExactGroups \cup NearGroups

Settled == \A g \in Taken : Merged(g) \/ (stage \in {"exact", "near"} /\ InProgress(g))

(* Every text that overlaps a benchmark has marked its samples. *)
Marked ==
  \A s \in Samples : \A v \in row[s].texts :
    BenchmarkText(v) =>
      \/ stage \in {"exact", "near"}
      \/ stage = "overlap" /\ {v} \in pending
      \/ s \in overlap

PassOK ==
  /\ stage = "near" => pending \subseteq NearGroups
  /\ stage \in {"overlap", "assign", "done"} => Idle
  /\ stage = "done" =>
       \A r \in Repositories : split[r] =
         IF parent[r] \in ExcludedRoots THEN "excluded"
         ELSE IF parent[r] \in EvaluationRoots THEN "evaluation" ELSE "train"

IInv ==
  InputOK /\ TypeOK /\ FlatForest /\ WalkOK /\ Settled /\ Marked /\ PassOK

----------------------------------------------------------------------------
(* Inputs have the types the model's operators expect. *)
LEMMA InputTypes ==
  ASSUME InputOK
  PROVE  /\ row \in [Samples -> [repository : Repositories, texts : SUBSET Values]]
         /\ matched \in [Values \X Values -> Nat]
         /\ benchmark \subseteq Values
         /\ \A s \in Samples : row[s].repository \in Repositories
BY ContaminationAssumption DEF InputOK, Values

(* Multiplying by a natural number keeps the order. *)
LEMMA TimesMonotone ==
  ASSUME NEW x \in Nat, NEW y \in Nat, NEW k \in Nat, x <= y
  PROVE  x * k <= y * k
<1>1. PICK d \in Nat : y = x + d
  <2>1. y - x \in Nat /\ y = x + (y - x)
    OBVIOUS
  <2> QED BY <2>1
<1>2. y * k = x * k + d * k
  BY <1>1
<1>3. d * k \in Nat
  OBVIOUS
<1> QED BY <1>2, <1>3

(* The length window of _candidate_length_bounds never hides a near         *)
(* duplicate from SequenceMatcher.                                          *)
THEOREM WindowIsSafe ==
  ASSUME NEW v \in Values, NEW w \in Values, matched \in Matchings, NearDuplicate(v, w)
  PROVE  WithinBounds(v, w)
<1> DEFINE a == Length[v]
           b == Length[w]
           m == matched[<<v, w>>]
<1>1. /\ a \in Nat /\ b \in Nat /\ m \in Nat
      /\ m <= a /\ m <= b
  <2>1. /\ m \in Nat
        /\ m = matched[<<w, v>>]
        /\ m <= Length[v] /\ matched[<<w, v>>] <= Length[w]
    BY ContaminationAssumption
  <2>2. a \in Nat /\ b \in Nat
    BY ContaminationAssumption
  <2> QED BY <2>1, <2>2
<1>2. Num \in Nat /\ Den \in Nat /\ Num > 0 /\ Num <= Den
  BY ContaminationAssumption
<1>3. m * Den <= a * Den /\ m * Den <= b * Den
  BY <1>1, <1>2, TimesMonotone
<1>4. 2 * m * Den >= Num * (a + b)
  BY DEF NearDuplicate
<1> HIDE DEF a, b, m
<1>5. 2 * (m * Den) >= Num * a + Num * b
  BY <1>1, <1>2, <1>4
<1>6. a * (2 * Den - Num) = 2 * (a * Den) - Num * a
  BY <1>1, <1>2
<1>7. b * (2 * Den - Num) = 2 * (b * Den) - Num * b
  BY <1>1, <1>2
<1>8. /\ m * Den \in Nat /\ a * Den \in Nat /\ b * Den \in Nat
      /\ Num * a \in Nat /\ Num * b \in Nat
  BY <1>1, <1>2
<1>9. Num * a <= b * (2 * Den - Num) /\ Num * b <= a * (2 * Den - Num)
  BY <1>3, <1>5, <1>6, <1>7, <1>8
<1>10. (b + 1) * (2 * Den - Num) = b * (2 * Den - Num) + (2 * Den - Num)
  BY <1>1, <1>2
<1>11. (b - 1) * Num = Num * b - Num /\ a * Num = Num * a
  BY <1>1, <1>2
<1>12. b * (2 * Den - Num) \in Int /\ a * (2 * Den - Num) \in Int
  BY <1>1, <1>2
<1>13. a * Num < (b + 1) * (2 * Den - Num) /\ (b - 1) * Num < a * (2 * Den - Num)
  BY <1>2, <1>8, <1>9, <1>10, <1>11, <1>12
<1> QED BY <1>13 DEF WithinBounds, a, b

(* NearDuplicate does not depend on the order of the two texts. *)
LEMMA NearSymmetric ==
  ASSUME NEW v \in Values, NEW w \in Values, matched \in Matchings
  PROVE  NearDuplicate(v, w) <=> NearDuplicate(w, v)
<1>1. matched[<<v, w>>] = matched[<<w, v>>]
  BY ContaminationAssumption
<1>2. Length[v] \in Nat /\ Length[w] \in Nat
  BY ContaminationAssumption
<1>3. Length[v] + Length[w] = Length[w] + Length[v]
  BY <1>2
<1> QED BY <1>1, <1>3 DEF NearDuplicate

----------------------------------------------------------------------------
LEMMA Initially == Init => IInv
<1> SUFFICES ASSUME Init PROVE IInv
  OBVIOUS
<1>1. InputOK
  BY DEF Init, InputOK
<1>2. TypeOK
  <2>1. pending \subseteq SUBSET Values
    BY DEF Init, ExactGroups
  <2> QED BY <1>1, <2>1, InputTypes DEF Init, TypeOK, Stages
<1>3. FlatForest
  BY DEF Init, FlatForest
<1>4. WalkOK
  BY DEF Init, WalkOK
<1>5. Settled
  BY DEF Init, Settled, Taken
<1>6. Marked
  BY DEF Init, Marked
<1>7. PassOK
  BY DEF Init, PassOK
<1> QED BY <1>1, <1>2, <1>3, <1>4, <1>5, <1>6, <1>7 DEF IInv

(* A step that leaves the forest and the inputs alone keeps what was merged. *)
LEMMA MergedKept ==
  ASSUME UNCHANGED <<row, parent>>, NEW g
  PROVE  Merged(g)' <=> Merged(g)
BY DEF Merged, RepositoriesWith

LEMMA InputsKept ==
  ASSUME InputOK, UNCHANGED input
  PROVE  /\ InputOK'
         /\ \A g : RepositoriesWith(g)' = RepositoriesWith(g)
         /\ ExactGroups' = ExactGroups
         /\ NearGroups' = NearGroups
         /\ Contents' = Contents
         /\ \A v : BenchmarkText(v)' = BenchmarkText(v)
BY DEF InputOK, input, RepositoriesWith, ExactGroups, NearGroups, Contents, BenchmarkText,
       NearDuplicate, WithinBounds

LEMMA RepositoriesOf ==
  ASSUME InputOK, NEW g
  PROVE  RepositoriesWith(g) \subseteq Repositories
BY InputTypes DEF RepositoriesWith

LEMMA ContentsAreValues ==
  ASSUME InputOK
  PROVE  /\ Contents \subseteq Values
         /\ NearGroups \subseteq SUBSET Values
         /\ ExactGroups \subseteq SUBSET Values
<1>1. Contents \subseteq Values
  BY InputTypes DEF Contents
<1>2. NearGroups \subseteq SUBSET Values
  BY <1>1 DEF NearGroups
<1>3. ExactGroups \subseteq SUBSET Values
  BY DEF ExactGroups
<1> QED BY <1>1, <1>2, <1>3

LEMMA TakeGroupStep ==
  ASSUME IInv, NEW group \in pending, TakeGroup(group)
  PROVE  IInv'
<1> USE DEF IInv
<1>0. UNCHANGED <<input, stage, current, path, roots, parent, overlap, split>>
  BY DEF TakeGroup
<1>1. InputOK' /\ UNCHANGED <<row, matched, benchmark>>
  BY <1>0, InputsKept DEF input
<1>2. TypeOK'
  BY <1>0, <1>1, RepositoriesOf DEF TypeOK, TakeGroup
<1>3. FlatForest'
  BY <1>0 DEF FlatForest
<1>4. WalkOK'
  BY <1>0 DEF WalkOK
<1>5. Settled'
  <2>1. ASSUME NEW g \in Taken', g # group PROVE g \in Taken
    BY <2>1, <1>0, <1>1, InputsKept DEF Taken, TakeGroup
  <2>2. ASSUME NEW g \in Taken PROVE Merged(g)'
    <3>1. Merged(g) \/ InProgress(g)
      BY DEF Settled
    <3>2. InProgress(g) => RepositoriesWith(g) = {}
      BY DEF TakeGroup, Idle, InProgress
    <3>3. Merged(g)
      BY <3>1, <3>2 DEF Merged
    <3> QED BY <3>3, <1>0, <1>1, MergedKept
  <2>3. stage' \in {"exact", "near"} /\ InProgress(group)'
    BY <1>0, <1>1, InputsKept DEF TakeGroup, InProgress
  <2> QED BY <2>1, <2>2, <2>3 DEF Settled
<1>6. Marked'
  BY <1>0, <1>1, InputsKept DEF Marked, TakeGroup
<1>7. PassOK'
  BY <1>0, <1>1, InputsKept DEF PassOK, TakeGroup
<1> QED BY <1>1, <1>2, <1>3, <1>4, <1>5, <1>6, <1>7

LEMMA StartFindStep ==
  ASSUME IInv, NEW r \in todo, StartFind(r)
  PROVE  IInv'
<1> USE DEF IInv
<1>0. /\ UNCHANGED <<input, stage, pending, roots, parent, overlap, split>>
      /\ current = None /\ todo' = todo \ {r} /\ current' = r /\ path' = {}
      /\ r \in Repositories
  BY DEF StartFind, TypeOK
<1>1. InputOK' /\ UNCHANGED <<row, matched, benchmark>>
  BY <1>0, InputsKept DEF input
<1>2. TypeOK'
  BY <1>0, <1>1 DEF TypeOK
<1>3. FlatForest'
  BY <1>0 DEF FlatForest
<1>4. WalkOK'
  BY <1>0 DEF WalkOK
<1>5. Settled'
  <2>1. Taken' = Taken
    BY <1>0, <1>1, InputsKept DEF Taken
  <2>2. r # None
    BY <1>0, ContaminationAssumption
  <2>3. ASSUME NEW g, InProgress(g) PROVE InProgress(g)'
    BY <1>0, <1>1, <2>2, <2>3, InputsKept DEF InProgress
  <2> QED BY <1>0, <1>1, <2>1, <2>3, MergedKept DEF Settled
<1>6. Marked'
  BY <1>0, <1>1, InputsKept DEF Marked
<1>7. PassOK'
  BY <1>0, <1>1, InputsKept DEF PassOK, Idle
<1> QED BY <1>1, <1>2, <1>3, <1>4, <1>5, <1>6, <1>7

LEMMA ClimbStep ==
  ASSUME IInv, Climb
  PROVE  IInv'
<1> USE DEF IInv
<1>0. /\ UNCHANGED <<input, stage, pending, todo, roots, parent, overlap, split>>
      /\ current # None /\ parent[current] # current
      /\ path' = path \cup {current} /\ current' = parent[current]
      /\ current \in Repositories /\ parent[current] \in Repositories
  BY DEF Climb, TypeOK
<1>1. InputOK' /\ UNCHANGED <<row, matched, benchmark>>
  BY <1>0, InputsKept DEF input
<1>2. TypeOK'
  BY <1>0, <1>1 DEF TypeOK
<1>3. FlatForest'
  BY <1>0 DEF FlatForest
<1>4. WalkOK' /\ path = {}
  <2>1. path = {}
    <3>1. SUFFICES ASSUME NEW q \in path PROVE FALSE
      OBVIOUS
    <3>2. q \in Repositories /\ parent[q] = current
      BY <1>0 DEF WalkOK, TypeOK
    <3> QED BY <1>0, <3>2 DEF FlatForest
  <2>2. current' # None
    BY <1>0, ContaminationAssumption
  <2> QED BY <1>0, <2>1, <2>2 DEF WalkOK
<1>5. Settled'
  <2>1. Taken' = Taken
    BY <1>0, <1>1, InputsKept DEF Taken
  <2>2. current' # None
    BY <1>0, ContaminationAssumption
  <2>3. ASSUME NEW g, InProgress(g) PROVE InProgress(g)'
    BY <1>0, <1>1, <2>2, <2>3, InputsKept DEF InProgress
  <2> QED BY <1>0, <1>1, <2>1, <2>3, MergedKept DEF Settled
<1>6. Marked'
  BY <1>0, <1>1, InputsKept DEF Marked
<1>7. PassOK'
  BY <1>0, <1>1, InputsKept DEF PassOK, Idle
<1> QED BY <1>1, <1>2, <1>3, <1>4, <1>5, <1>6, <1>7

(* In a flat forest the compression of a path changes nothing. *)
LEMMA CompressionIsIdle ==
  ASSUME TypeOK, WalkOK, ReachRoot
  PROVE  parent' = parent
<1>1. parent' = [r \in Repositories |-> IF r \in path THEN current ELSE parent[r]]
  BY DEF ReachRoot
<1>2. \A r \in path : parent[r] = current
  BY DEF WalkOK, ReachRoot
<1>3. parent = [r \in Repositories |-> parent[r]]
  BY DEF TypeOK
<1>4. \A r \in Repositories : (IF r \in path THEN current ELSE parent[r]) = parent[r]
  BY <1>2
<1> QED BY <1>1, <1>3, <1>4

LEMMA ReachRootStep ==
  ASSUME IInv, ReachRoot
  PROVE  IInv'
<1> USE DEF IInv
<1>0. /\ UNCHANGED <<input, stage, pending, todo, overlap, split>>
      /\ current # None /\ parent[current] = current
      /\ roots' = roots \cup {current} /\ current' = None /\ path' = {}
      /\ current \in Repositories
  BY DEF ReachRoot, TypeOK
<1>1. InputOK' /\ UNCHANGED <<row, matched, benchmark>>
  BY <1>0, InputsKept DEF input
<1>2. parent' = parent
  BY CompressionIsIdle
<1>3. TypeOK'
  BY <1>0, <1>1, <1>2 DEF TypeOK
<1>4. FlatForest'
  BY <1>2 DEF FlatForest
<1>5. WalkOK'
  BY <1>0, <1>2 DEF WalkOK
<1>6. Settled'
  <2>1. Taken' = Taken
    BY <1>0, <1>1, InputsKept DEF Taken
  <2>2. ASSUME NEW g, InProgress(g) PROVE InProgress(g)'
    <3>1. \A r \in path : parent[r] = current
      BY <1>0 DEF WalkOK
    <3> QED BY <1>0, <1>1, <1>2, <2>2, <3>1, InputsKept DEF InProgress
  <2> QED BY <1>0, <1>1, <1>2, <2>1, <2>2, MergedKept DEF Settled
<1>7. Marked'
  BY <1>0, <1>1, InputsKept DEF Marked
<1>8. PassOK'
  BY <1>0, <1>1, <1>2, InputsKept DEF PassOK, Idle
<1> QED BY <1>1, <1>3, <1>4, <1>5, <1>6, <1>7, <1>8

(* Linking keeps the forest flat, merges the group in progress and keeps    *)
(* every earlier group merged.                                              *)
LEMMA LinkRootsStep ==
  ASSUME IInv, NEW root \in roots, LinkRoots(root)
  PROVE  IInv'
<1> USE DEF IInv
<1>0. /\ UNCHANGED <<input, stage, pending, todo, current, path, overlap, split>>
      /\ stage \in {"exact", "near"}
      /\ todo = {} /\ current = None /\ roots' = {}
      /\ parent' = [r \in Repositories |-> IF parent[r] \in roots THEN root ELSE parent[r]]
      /\ root \in Repositories /\ parent[root] = root
  BY DEF LinkRoots, TypeOK, WalkOK
<1>1. InputOK' /\ UNCHANGED <<row, matched, benchmark>>
  BY <1>0, InputsKept DEF input
<1>2. TypeOK'
  BY <1>0, <1>1 DEF TypeOK
<1>3. FlatForest'
  <2> SUFFICES ASSUME NEW r \in Repositories PROVE parent'[parent'[r]] = parent'[r]
    BY DEF FlatForest
  <2>1. CASE parent[r] \in roots
    <3>1. parent'[r] = root
      BY <1>0, <2>1
    <3>2. parent'[root] = root
      BY <1>0
    <3> QED BY <3>1, <3>2
  <2>2. CASE parent[r] \notin roots
    <3>1. parent[r] \in Repositories /\ parent[parent[r]] = parent[r]
      BY DEF TypeOK, FlatForest
    <3>2. parent'[r] = parent[r]
      BY <1>0, <2>2
    <3>3. parent'[parent[r]] = parent[r]
      BY <1>0, <2>2, <3>1
    <3> QED BY <3>2, <3>3
  <2> QED BY <2>1, <2>2
<1>4. WalkOK'
  BY <1>0 DEF WalkOK
<1>5. Settled'
  <2>1. Taken' = Taken
    BY <1>0, <1>1, InputsKept DEF Taken
  <2> SUFFICES ASSUME NEW g \in Taken PROVE Merged(g)'
    BY <2>1 DEF Settled
  <2>2. RepositoriesWith(g)' = RepositoriesWith(g) /\ RepositoriesWith(g) \subseteq Repositories
    BY <1>0, InputsKept, RepositoriesOf
  <2>3. CASE Merged(g)
    BY <1>0, <2>2, <2>3 DEF Merged
  <2>4. CASE InProgress(g)
    <3>1. \A r \in RepositoriesWith(g) : parent[r] \in roots
      BY <1>0, <2>4 DEF InProgress
    <3>2. \A r \in RepositoriesWith(g) : parent'[r] = root
      BY <1>0, <2>2, <3>1
    <3> QED BY <2>2, <3>2 DEF Merged
  <2> QED BY <2>3, <2>4 DEF Settled
<1>6. Marked'
  BY <1>0, <1>1, InputsKept DEF Marked
<1>7. PassOK'
  BY <1>0, <1>1, InputsKept DEF PassOK, Idle
<1> QED BY <1>1, <1>2, <1>3, <1>4, <1>5, <1>6, <1>7

LEMMA NextPassStep ==
  ASSUME IInv, NextPass
  PROVE  IInv'
<1> USE DEF IInv
<1>0. /\ UNCHANGED <<input, current, path, roots, parent, overlap, split>>
      /\ Idle /\ pending = {}
      /\ \/ stage = "exact" /\ stage' = "near" /\ pending' = NearGroups /\ todo' = todo
         \/ /\ stage = "near" /\ stage' = "overlap"
            /\ pending' = {{v} : v \in Contents} /\ todo' = todo
         \/ stage = "overlap" /\ stage' = "compress" /\ pending' = {} /\ todo' = Used
  BY DEF NextPass
<1>1. InputOK' /\ UNCHANGED <<row, matched, benchmark>>
  BY <1>0, InputsKept DEF input
<1>2. TypeOK'
  <2>1. Used \subseteq Repositories
    BY InputTypes DEF Used
  <2>2. {{v} : v \in Contents} \subseteq SUBSET Values
    BY ContentsAreValues
  <2>3. pending' \subseteq SUBSET Values
    BY <1>0, <2>2, ContentsAreValues
  <2>4. todo' \subseteq Repositories /\ stage' \in Stages
    BY <1>0, <2>1 DEF TypeOK, Stages
  <2> QED BY <1>0, <1>1, <2>3, <2>4 DEF TypeOK
<1>3. FlatForest'
  BY <1>0 DEF FlatForest
<1>4. WalkOK'
  BY <1>0 DEF WalkOK
<1>5. Settled'
  <2>1. Taken' \subseteq Taken
    BY <1>0, <1>1, InputsKept DEF Taken
  <2>2. ASSUME NEW g \in Taken PROVE Merged(g)
    <3>1. InProgress(g) => RepositoriesWith(g) = {}
      BY <1>0 DEF Idle, InProgress
    <3>2. Merged(g) \/ InProgress(g)
      BY DEF Settled
    <3> QED BY <3>1, <3>2 DEF Merged
  <2>3. ASSUME NEW g \in Taken' PROVE Merged(g)'
    <3>1. Merged(g)
      BY <2>1, <2>2
    <3> QED BY <1>0, <1>1, <3>1, MergedKept
  <2> QED BY <2>3 DEF Settled
<1>6. Marked'
  <2> SUFFICES ASSUME NEW s \in Samples, NEW v \in row[s].texts, BenchmarkText(v)
               PROVE  \/ stage' \in {"exact", "near"}
                      \/ stage' = "overlap" /\ {v} \in pending'
                      \/ s \in overlap'
    BY <1>1, <1>0, InputsKept DEF Marked
  <2>1. v \in Contents
    BY DEF Contents
  <2> QED BY <1>0, <2>1 DEF Marked
<1>7. PassOK'
  BY <1>0, <1>1, InputsKept DEF PassOK, Idle
<1> QED BY <1>1, <1>2, <1>3, <1>4, <1>5, <1>6, <1>7

LEMMA MarkOverlapStep ==
  ASSUME IInv, NEW v \in Values, MarkOverlap(v)
  PROVE  IInv'
<1> USE DEF IInv
<1>0. /\ UNCHANGED <<input, stage, todo, current, path, roots, parent, split>>
      /\ stage = "overlap" /\ pending' = pending \ {{v}}
      /\ overlap' = IF BenchmarkText(v)
                      THEN overlap \cup {s \in Samples : v \in row[s].texts} ELSE overlap
  BY DEF MarkOverlap, walk
<1>1. InputOK' /\ UNCHANGED <<row, matched, benchmark>>
  BY <1>0, InputsKept DEF input
<1>2. TypeOK'
  BY <1>0, <1>1 DEF TypeOK
<1>3. FlatForest'
  BY <1>0 DEF FlatForest
<1>4. WalkOK'
  BY <1>0 DEF WalkOK
<1>5. Settled'
  <2>1. Taken' = Taken
    BY <1>0, <1>1, InputsKept DEF Taken
  <2> QED BY <1>0, <1>1, <2>1, MergedKept DEF Settled
<1>6. Marked'
  <2> SUFFICES ASSUME NEW s \in Samples, NEW w \in row[s].texts, BenchmarkText(w)
               PROVE  {w} \in pending' \/ s \in overlap'
    BY <1>1, <1>0, InputsKept DEF Marked
  <2>1. CASE w = v
    BY <1>0, <2>1
  <2>2. CASE w # v
    BY <1>0, <2>2 DEF Marked
  <2> QED BY <2>1, <2>2
<1>7. PassOK'
  BY <1>0, <1>1, InputsKept DEF PassOK, Idle
<1> QED BY <1>1, <1>2, <1>3, <1>4, <1>5, <1>6, <1>7

LEMMA CompressedStep ==
  ASSUME IInv, Compressed
  PROVE  IInv'
<1> USE DEF IInv
<1>0. /\ UNCHANGED <<input, pending, todo, current, path, parent, overlap, split>>
      /\ stage = "compress" /\ stage' = "assign" /\ roots' = {}
      /\ todo = {} /\ current = None
  BY DEF Compressed
<1>1. InputOK' /\ UNCHANGED <<row, matched, benchmark>>
  BY <1>0, InputsKept DEF input
<1>2. TypeOK'
  BY <1>0, <1>1 DEF TypeOK, Stages
<1>3. FlatForest'
  BY <1>0 DEF FlatForest
<1>4. WalkOK'
  BY <1>0 DEF WalkOK
<1>5. Settled'
  <2>1. Taken' = Taken
    BY <1>0, <1>1, InputsKept DEF Taken
  <2> QED BY <1>0, <1>1, <2>1, MergedKept DEF Settled
<1>6. Marked'
  BY <1>0, <1>1, InputsKept DEF Marked
<1>7. PassOK'
  BY <1>0, <1>1, InputsKept DEF PassOK, Idle
<1> QED BY <1>1, <1>2, <1>3, <1>4, <1>5, <1>6, <1>7

LEMMA AssignSplitsStep ==
  ASSUME IInv, AssignSplits
  PROVE  IInv'
<1> USE DEF IInv
<1>0. /\ UNCHANGED <<input, pending, todo, current, path, roots, parent, overlap>>
      /\ stage = "assign" /\ stage' = "done"
  BY DEF AssignSplits, walk
<1>1. InputOK' /\ UNCHANGED <<row, matched, benchmark>>
  BY <1>0, InputsKept DEF input
<1>2. split' = [r \in Repositories |->
        IF parent[r] \in ExcludedRoots THEN "excluded"
        ELSE IF parent[r] \in EvaluationRoots THEN "evaluation" ELSE "train"]
  BY DEF AssignSplits
<1>3. TypeOK'
  BY <1>0, <1>1, <1>2 DEF TypeOK, Stages
<1>4. FlatForest'
  BY <1>0 DEF FlatForest
<1>5. WalkOK'
  BY <1>0 DEF WalkOK
<1>6. Settled'
  <2>1. Taken' = Taken
    BY <1>0, <1>1, InputsKept DEF Taken
  <2> QED BY <1>0, <1>1, <2>1, MergedKept DEF Settled
<1>7. Marked'
  BY <1>0, <1>1, InputsKept DEF Marked
<1>8. PassOK'
  <2>1. ExcludedRoots' = ExcludedRoots
    BY <1>0, <1>1 DEF ExcludedRoots
  <2>2. Idle'
    BY <1>0 DEF PassOK, Idle
  <2> QED BY <1>0, <1>2, <2>1, <2>2 DEF PassOK
<1> QED BY <1>1, <1>3, <1>4, <1>5, <1>6, <1>7, <1>8

LEMMA Stutters ==
  ASSUME IInv, UNCHANGED vars
  PROVE  IInv'
<1> USE DEF IInv
<1>0. UNCHANGED <<input, stage, pending, todo, current, path, roots, parent, overlap, split>>
  BY DEF vars, walk
<1>1. InputOK' /\ UNCHANGED <<row, matched, benchmark>>
  BY <1>0, InputsKept DEF input
<1>2. TypeOK' /\ FlatForest' /\ WalkOK'
  BY <1>0, <1>1 DEF TypeOK, FlatForest, WalkOK
<1>3. Settled'
  <2>1. Taken' = Taken
    BY <1>0, <1>1, InputsKept DEF Taken
  <2>2. ASSUME NEW g, InProgress(g) PROVE InProgress(g)'
    BY <1>0, <1>1, <2>2, InputsKept DEF InProgress
  <2> QED BY <1>0, <1>1, <2>1, <2>2, MergedKept DEF Settled
<1>4. Marked'
  BY <1>0, <1>1, InputsKept DEF Marked
<1>5. PassOK'
  BY <1>0, <1>1, InputsKept DEF PassOK, Idle, ExcludedRoots
<1> QED BY <1>1, <1>2, <1>3, <1>4, <1>5

(* The strengthened invariant holds in every reachable state. *)
THEOREM Invariance == Spec => []IInv
<1>1. Init => IInv
  BY Initially
<1>2. IInv /\ [Next]_vars => IInv'
  <2> SUFFICES ASSUME IInv, [Next]_vars PROVE IInv'
    OBVIOUS
  <2>1. CASE \E group \in pending : TakeGroup(group)
    BY <2>1, TakeGroupStep
  <2>2. CASE \E r \in todo : StartFind(r)
    BY <2>2, StartFindStep
  <2>3. CASE Climb
    BY <2>3, ClimbStep
  <2>4. CASE ReachRoot
    BY <2>4, ReachRootStep
  <2>5. CASE \E root \in roots : LinkRoots(root)
    BY <2>5, LinkRootsStep
  <2>6. CASE NextPass
    BY <2>6, NextPassStep
  <2>7. CASE \E v \in Values : MarkOverlap(v)
    BY <2>7, MarkOverlapStep
  <2>8. CASE Compressed
    BY <2>8, CompressedStep
  <2>9. CASE AssignSplits
    BY <2>9, AssignSplitsStep
  <2>10. CASE UNCHANGED vars
    BY <2>10, Stutters
  <2> QED BY <2>1, <2>2, <2>3, <2>4, <2>5, <2>6, <2>7, <2>8, <2>9, <2>10 DEF Next
<1> QED BY <1>1, <1>2, PTL DEF Spec

(* Type correctness. *)
THEOREM TypeCorrectness == Spec => []TypeOK
BY Invariance, PTL DEF IInv

(* The union-find forest is flat at every moment, so that a lookup walks at *)
(* most one step and "UPDATE ... WHERE parent = child" moves whole groups.  *)
THEOREM ForestStaysFlat == Spec => []FlatForest
BY Invariance, PTL DEF IInv

(* Related texts put their repositories under one root. *)
LEMMA RelatedMerged ==
  ASSUME IInv, stage \in {"assign", "done"}, NEW s \in Samples, NEW t \in Samples,
         NEW v \in row[s].texts, NEW w \in row[t].texts, Related(v, w)
  PROVE  parent[row[s].repository] = parent[row[t].repository]
<1> USE DEF IInv
<1> DEFINE r == row[s].repository
           q == row[t].repository
<1>1. v \in Values /\ w \in Values /\ v \in Contents /\ w \in Contents
  BY InputTypes DEF Contents
<1>2. \A g \in ExactGroups \cup NearGroups : Merged(g)
  BY DEF Settled, Taken
<1>3. \A g : v \in g => r \in RepositoriesWith(g)
  BY DEF RepositoriesWith
<1>4. \A g : w \in g => q \in RepositoriesWith(g)
  BY DEF RepositoriesWith
<1>5. CASE v = w
  <2>1. CASE r = q
    BY <2>1
  <2>2. CASE r # q
    <3>1. {v} \in ExactGroups
      BY <1>1, <1>5, <2>2 DEF ExactGroups
    <3>2. Merged({v})
      BY <1>2, <3>1
    <3> QED BY <1>3, <1>4, <1>5, <3>2 DEF Merged
  <2> QED BY <2>1, <2>2
<1>6. CASE v # w
  <2>1. SameKind(v, w) /\ NearDuplicate(v, w) /\ matched \in Matchings
    BY <1>6 DEF Related, InputOK
  <2>2. SameKind(w, v) /\ NearDuplicate(w, v)
    BY <2>1, <1>1, NearSymmetric DEF SameKind
  <2>3. WithinBounds(v, w) /\ WithinBounds(w, v)
    BY <1>1, <2>1, <2>2, WindowIsSafe
  <2>4. v < w \/ w < v
    BY <1>1, <1>6, ContaminationAssumption
  <2>5. {v, w} \in NearGroups
    <3>1. CASE v < w
      <4>1. <<v, w>> \in {p \in Contents \X Contents :
              /\ SameKind(p[1], p[2]) /\ p[1] < p[2]
              /\ WithinBounds(p[1], p[2]) /\ NearDuplicate(p[1], p[2])}
        BY <1>1, <2>1, <2>3, <3>1
      <4> QED BY <4>1 DEF NearGroups
    <3>2. CASE w < v
      <4>1. <<w, v>> \in {p \in Contents \X Contents :
              /\ SameKind(p[1], p[2]) /\ p[1] < p[2]
              /\ WithinBounds(p[1], p[2]) /\ NearDuplicate(p[1], p[2])}
        BY <1>1, <2>2, <2>3, <3>2
      <4>2. {w, v} \in NearGroups
        BY <4>1 DEF NearGroups
      <4> QED BY <4>2
    <3> QED BY <2>4, <3>1, <3>2
  <2>6. Merged({v, w})
    BY <1>2, <2>5
  <2> QED BY <1>3, <1>4, <2>6 DEF Merged
<1> QED BY <1>5, <1>6

(* Repositories with one root get one split. *)
LEMMA OneRootOneSplit ==
  ASSUME IInv, stage = "done", NEW r \in Repositories, NEW q \in Repositories,
         parent[r] = parent[q]
  PROVE  split[r] = split[q]
BY DEF IInv, PassOK

(* No equal or nearly equal pair of texts is ever split over train,         *)
(* evaluation and the excluded.                                             *)
THEOREM SplitsNeverLeak == Spec => []NoLeakage
<1>1. IInv => NoLeakage
  <2> SUFFICES ASSUME IInv, stage = "done", NEW s \in Samples, NEW t \in Samples,
                      NEW v \in row[s].texts, NEW w \in row[t].texts, Related(v, w)
               PROVE  split[row[s].repository] = split[row[t].repository]
    BY DEF NoLeakage
  <2>1. row[s].repository \in Repositories /\ row[t].repository \in Repositories
    BY InputTypes DEF IInv
  <2> QED BY <2>1, RelatedMerged, OneRootOneSplit
<1> QED BY <1>1, Invariance, PTL

(* Whatever equals or nearly equals a benchmark text, and whatever is       *)
(* related to that, is excluded.                                            *)
THEOREM BenchmarksStayOut == Spec => []BenchmarkExcluded
<1>1. IInv => BenchmarkExcluded
  <2> SUFFICES ASSUME IInv, stage = "done", NEW s \in Samples, NEW t \in Samples,
                      NEW v \in row[s].texts, NEW b \in benchmark, Related(v, b),
                      \/ s = t
                      \/ \E x \in row[s].texts, y \in row[t].texts : Related(x, y)
               PROVE  split[row[t].repository] = "excluded"
    BY DEF BenchmarkExcluded
  <2>1. /\ row[s].repository \in Repositories /\ row[t].repository \in Repositories
        /\ v \in Values /\ b \in Values /\ matched \in Matchings
    BY InputTypes DEF IInv, InputOK
  <2>2. BenchmarkText(v)
    <3>1. CASE v = b
      BY <3>1 DEF BenchmarkText
    <3>2. CASE v # b
      <4>1. SameKind(v, b) /\ NearDuplicate(v, b)
        BY <3>2 DEF Related
      <4>2. WithinBounds(v, b)
        BY <2>1, <4>1, WindowIsSafe
      <4> QED BY <3>2, <4>1, <4>2 DEF BenchmarkText
    <3> QED BY <3>1, <3>2
  <2>3. s \in overlap
    BY <2>2 DEF IInv, Marked
  <2>4. split[row[s].repository] = "excluded"
    <3>1. parent[row[s].repository] \in ExcludedRoots
      BY <2>3 DEF ExcludedRoots
    <3> QED BY <2>1, <3>1 DEF IInv, PassOK
  <2>5. split[row[t].repository] = split[row[s].repository]
    BY <2>1, RelatedMerged, OneRootOneSplit
  <2> QED BY <2>4, <2>5
<1> QED BY <1>1, Invariance, PTL

----------------------------------------------------------------------------
(* The groups are the components: what is merged is linked.  That what is   *)
(* linked is merged is RelatedMerged.                                       *)

(* No set that is closed under the links tells the two apart.               *)
Together(r, q) == \A set \in ClosedUnder(Links) : r \in set <=> q \in set

(* The repositories of the group that is being merged, as far as walked.    *)
Walked == todo \cup roots \cup ({current} \ {None})

GroupInv ==
  /\ stage = "exact" => pending \subseteq ExactGroups
  /\ stage \in {"exact", "near"} => \A r, q \in Walked : Together(r, q)
  /\ \A r \in Repositories : Together(r, parent[r]) /\ parent[r] <= r

(* A group of the code is one text of several repositories, or two that are *)
(* near duplicates: all its repositories are linked.                        *)
LEMMA GroupIsLinked ==
  ASSUME InputOK, NEW group \in ExactGroups \cup NearGroups,
         NEW r \in RepositoriesWith(group), NEW q \in RepositoriesWith(group)
  PROVE  Together(r, q)
<1>1. PICK s \in Samples, v \in Values :
        row[s].repository = r /\ v \in row[s].texts /\ v \in group
  BY InputTypes DEF RepositoriesWith
<1>2. PICK t \in Samples, w \in Values :
        row[t].repository = q /\ w \in row[t].texts /\ w \in group
  BY InputTypes DEF RepositoriesWith
<1>3. v \in Values /\ w \in Values /\ matched \in Matchings
  BY InputTypes DEF InputOK
<1>4. v = w \/ (SameKind(v, w) /\ NearDuplicate(v, w)) \/ (SameKind(w, v) /\ NearDuplicate(w, v))
  <2>1. CASE group \in ExactGroups
    BY <1>1, <1>2, <2>1 DEF ExactGroups
  <2>2. CASE group \in NearGroups
    <3>1. PICK p \in Contents \X Contents :
            SameKind(p[1], p[2]) /\ NearDuplicate(p[1], p[2]) /\ group = {p[1], p[2]}
      BY <2>2 DEF NearGroups
    <3>2. v \in {p[1], p[2]} /\ w \in {p[1], p[2]}
      BY <1>1, <1>2, <3>1
    <3> QED BY <3>1, <3>2
  <2> QED BY <2>1, <2>2
<1>5. Related(v, w) /\ Related(w, v)
  BY <1>3, <1>4, NearSymmetric DEF Related, SameKind
<1>6. \A a, b \in Samples : (\E x \in row[a].texts, y \in row[b].texts : Related(x, y))
        => <<row[a].repository, row[b].repository>> \in Links
  <2> SUFFICES ASSUME NEW a \in Samples, NEW b \in Samples,
                      \E x \in row[a].texts, y \in row[b].texts : Related(x, y)
               PROVE  <<row[a].repository, row[b].repository>> \in Links
    OBVIOUS
  <2>1. <<a, b>> \in {c \in Samples \X Samples :
           \E x \in row[c[1]].texts, y \in row[c[2]].texts : Related(x, y)}
    OBVIOUS
  <2> QED BY <2>1 DEF Links
<1>7. <<r, q>> \in Links /\ <<q, r>> \in Links
  BY <1>1, <1>2, <1>5, <1>6
<1> QED BY <1>7 DEF Together, ClosedUnder

LEMMA LinksKept ==
  ASSUME UNCHANGED input
  PROVE  ClosedUnder(Links)' = ClosedUnder(Links)
BY DEF input, ClosedUnder, Used, Links, Related, SameKind, NearDuplicate

(* What is together stays together, so that it is enough to look at the     *)
(* forest and at what is walked.                                            *)
LEMMA GroupInvKept ==
  ASSUME UNCHANGED input,
         stage' = "exact" => pending' \subseteq ExactGroups,
         stage' \in {"exact", "near"} => \A r, q \in Walked' : Together(r, q),
         \A r \in Repositories : Together(r, parent'[r]) /\ parent'[r] <= r
  PROVE  GroupInv'
<1>1. ExactGroups' = ExactGroups
  BY DEF input, ExactGroups
<1>2. \A r \in Repositories : Together(r, parent[r])'
  BY LinksKept DEF Together
<1>3. stage' \in {"exact", "near"} => \A r, q \in Walked' : Together(r, q)'
  BY LinksKept DEF Together
<1> QED BY <1>1, <1>2, <1>3 DEF GroupInv

LEMMA GroupsInitially == Init => GroupInv
<1> SUFFICES ASSUME Init PROVE GroupInv
  OBVIOUS
<1>1. \A r \in Repositories : parent[r] = r
  BY DEF Init
<1>2. Repositories \subseteq Nat
  BY ContaminationAssumption
<1>3. ASSUME NEW r \in Repositories PROVE parent[r] <= r
  <2>1. r \in Nat
    BY <1>2
  <2>2. r <= r
    BY <2>1
  <2> QED BY <1>1, <2>2
<1> QED BY <1>1, <1>3 DEF Init, GroupInv, Walked, Together

(* A step that leaves the forest alone and has walked to nothing new. *)
LEMMA NothingMerged ==
  ASSUME GroupInv, UNCHANGED <<input, parent>>,
         stage' = "exact" => stage = "exact" /\ pending' \subseteq pending,
         stage' \in {"exact", "near"} => stage \in {"exact", "near"} /\ Walked' \subseteq Walked
  PROVE  GroupInv'
<1>1. \A r \in Repositories : Together(r, parent'[r]) /\ parent'[r] <= r
  BY DEF GroupInv
<1> QED BY <1>1, GroupInvKept DEF GroupInv

LEMMA TakeGroupLinks ==
  ASSUME IInv, GroupInv, NEW group \in pending, TakeGroup(group)
  PROVE  GroupInv'
<1>1. /\ UNCHANGED <<input, stage, current, roots, parent>>
      /\ stage \in {"exact", "near"} /\ todo' = RepositoriesWith(group)
      /\ roots = {} /\ current = None /\ pending' = pending \ {group}
  BY DEF TakeGroup, Idle
<1>2. group \in ExactGroups \cup NearGroups /\ InputOK
  BY <1>1 DEF GroupInv, IInv, PassOK
<1>3. Walked' = RepositoriesWith(group)
  BY <1>1 DEF Walked
<1>4. \A r, q \in Walked' : Together(r, q)
  BY <1>2, <1>3, GroupIsLinked
<1>5. \A r \in Repositories : Together(r, parent'[r]) /\ parent'[r] <= r
  BY <1>1 DEF GroupInv
<1> QED BY <1>1, <1>4, <1>5, GroupInvKept DEF GroupInv

LEMMA ClimbLinks ==
  ASSUME IInv, GroupInv, Climb
  PROVE  GroupInv'
<1>1. /\ UNCHANGED <<input, stage, pending, todo, roots, parent>>
      /\ current # None /\ current' = parent[current] /\ current \in Repositories
  BY DEF Climb, IInv, TypeOK
<1>2. Together(current, current')
  BY <1>1 DEF GroupInv
<1>3. current \in Walked /\ Walked' \subseteq Walked \cup {current'}
  BY <1>1 DEF Walked
<1>4. ASSUME stage \in {"exact", "near"}, NEW r \in Walked', NEW q \in Walked'
      PROVE  Together(r, q)
  <2>1. \A x, y \in Walked : Together(x, y)
    BY <1>4 DEF GroupInv
  <2>2. Together(r, current)
    BY <1>2, <1>3, <2>1 DEF Together
  <2>3. Together(q, current)
    BY <1>2, <1>3, <2>1 DEF Together
  <2> QED BY <2>2, <2>3 DEF Together
<1>5. \A r \in Repositories : Together(r, parent'[r]) /\ parent'[r] <= r
  BY <1>1 DEF GroupInv
<1> QED BY <1>1, <1>4, <1>5, GroupInvKept DEF GroupInv

(* Linking merges the trees of roots that are linked, and under the least.  *)
LEMMA LinkRootsLinks ==
  ASSUME IInv, GroupInv, NEW root \in roots, LinkRoots(root)
  PROVE  GroupInv'
<1>1. /\ UNCHANGED <<input, stage, pending, todo, current>>
      /\ stage \in {"exact", "near"} /\ todo = {} /\ current = None /\ roots' = {}
      /\ \A q \in roots : root <= q
      /\ parent' = [r \in Repositories |-> IF parent[r] \in roots THEN root ELSE parent[r]]
      /\ parent \in [Repositories -> Repositories] /\ roots \subseteq Repositories
  BY DEF LinkRoots, IInv, TypeOK
<1>2. Walked' = {}
  BY <1>1 DEF Walked
<1>3. ASSUME NEW r \in Repositories PROVE Together(r, parent'[r]) /\ parent'[r] <= r
  <2>1. Together(r, parent[r]) /\ parent[r] <= r /\ parent[r] \in Repositories
    BY <1>1 DEF GroupInv
  <2>2. CASE parent[r] \notin roots
    BY <1>1, <2>1, <2>2
  <2>3. CASE parent[r] \in roots
    <3>1. parent'[r] = root
      BY <1>1, <2>3
    <3>2. Together(parent[r], root)
      BY <1>1, <2>3 DEF GroupInv, Walked
    <3>3. Together(r, root)
      BY <2>1, <3>2 DEF Together
    <3>4. root <= parent[r] /\ parent[r] <= r
      BY <1>1, <2>1, <2>3
    <3>5. root \in Nat /\ parent[r] \in Nat /\ r \in Nat
      BY <1>1, <2>1, ContaminationAssumption
    <3>6. root <= r
      BY <3>4, <3>5
    <3> QED BY <3>1, <3>3, <3>6
  <2> QED BY <2>2, <2>3
<1> QED BY <1>1, <1>2, <1>3, GroupInvKept DEF GroupInv

LEMMA GroupStep ==
  ASSUME IInv, GroupInv, [Next]_vars
  PROVE  GroupInv'
<1>1. CASE \E group \in pending : TakeGroup(group)
  BY <1>1, TakeGroupLinks
<1>2. ASSUME NEW r \in todo, StartFind(r) PROVE GroupInv'
  BY <1>2, NothingMerged DEF StartFind, Walked
<1>3. CASE Climb
  BY <1>3, ClimbLinks
<1>4. CASE ReachRoot
  <2>1. parent' = parent
    BY <1>4, CompressionIsIdle DEF IInv
  <2> QED BY <1>4, <2>1, NothingMerged DEF ReachRoot, Walked
<1>5. CASE \E root \in roots : LinkRoots(root)
  BY <1>5, LinkRootsLinks
<1>6. CASE NextPass
  BY <1>6, NothingMerged DEF NextPass, Walked, Idle
<1>7. ASSUME NEW v \in Values, MarkOverlap(v) PROVE GroupInv'
  BY <1>7, NothingMerged DEF MarkOverlap
<1>8. CASE Compressed
  BY <1>8, NothingMerged DEF Compressed
<1>9. CASE AssignSplits
  BY <1>9, NothingMerged DEF AssignSplits
<1>10. CASE UNCHANGED vars
  BY <1>10, NothingMerged DEF vars, walk, Walked
<1> QED BY <1>1, <1>2, <1>3, <1>4, <1>5, <1>6, <1>7, <1>8, <1>9, <1>10 DEF Next

LEMMA GroupsFollow ==
  ASSUME IInv, GroupInv
  PROVE  GroupsAreComponents
<1> SUFFICES ASSUME stage \in {"assign", "done"}, NEW r \in Used
             PROVE  /\ \A q \in Used : (parent[r] = parent[q]) <=>
                         \A set \in ClosedUnder(Links) : r \in set => q \in set
                    /\ parent[r] <= r /\ parent[r] \in Used
  BY DEF GroupsAreComponents
<1>1. Used \subseteq Repositories
  BY InputTypes DEF Used, IInv
<1>2. \A l \in Links : l[1] \in Used /\ l[2] \in Used /\ parent[l[1]] = parent[l[2]]
  <2> SUFFICES ASSUME NEW l \in Links
               PROVE  l[1] \in Used /\ l[2] \in Used /\ parent[l[1]] = parent[l[2]]
    OBVIOUS
  <2>1. PICK p \in Samples \X Samples :
          /\ l = <<row[p[1]].repository, row[p[2]].repository>>
          /\ \E v \in row[p[1]].texts, w \in row[p[2]].texts : Related(v, w)
    BY DEF Links
  <2> QED BY <2>1, RelatedMerged DEF Used
<1>3. ASSUME NEW q \in Used, parent[r] = parent[q], NEW set \in ClosedUnder(Links), r \in set
      PROVE  q \in set
  BY <1>1, <1>3 DEF GroupInv, Together
<1>4. ASSUME NEW q \in Used, \A set \in ClosedUnder(Links) : r \in set => q \in set
      PROVE  parent[r] = parent[q]
  <2> DEFINE group == {x \in Used : parent[x] = parent[r]}
  <2>1. group \in ClosedUnder(Links)
    BY <1>2 DEF ClosedUnder
  <2> QED BY <1>4, <2>1
<1>5. parent[r] \in Used
  <2>1. Used \in ClosedUnder(Links)
    BY <1>2 DEF ClosedUnder
  <2> QED BY <1>1, <2>1 DEF GroupInv, Together
<1> QED BY <1>1, <1>3, <1>4, <1>5 DEF GroupInv

(* For every population the groups of the finished forest are exactly the   *)
(* connected components of the repositories under related texts.            *)
THEOREM GroupsAreRight == Spec => []GroupsAreComponents
<1>1. Spec => [](IInv /\ GroupInv)
  <2>1. IInv /\ GroupInv /\ IInv' /\ [Next]_vars => GroupInv'
    BY GroupStep
  <2> QED BY <2>1, Invariance, GroupsInitially, PTL DEF Spec
<1> QED BY <1>1, GroupsFollow, PTL
=============================================================================
