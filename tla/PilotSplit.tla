----------------------------- MODULE PilotSplit -----------------------------
(***************************************************************************)
(* datasets split build and datasets build-pilot: the repository aliases   *)
(* are resolved, every sample is assigned to a split by its resolved       *)
(* repository, the split manifest lists the repositories of every split,   *)
(* and the pilot takes samples of the training repositories only.          *)
(*                                                                         *)
(* How groups of related samples come to their split is the module         *)
(* Contamination; here a split is any division of the resolved             *)
(* repositories.  The pilot resolves no aliases: it compares the           *)
(* repository a sample names with the lists of the split manifest.         *)
(* Repositories are numbers, so that they have an order.                   *)
(***************************************************************************)
EXTENDS Integers, Sequences, FiniteSets

CONSTANTS Repos,
          MaxAliases,      \* entries of the alias file
          PilotSamples,    \* records [repo, task, rank, fit]
          MaxPilotRows,    \* samples of the normalized artifact
          MaxPilot         \* max_samples of the policy

ASSUME PilotAssumption ==
    /\ Repos \subseteq Nat
    /\ \A s \in PilotSamples : /\ DOMAIN s = {"repo", "task", "rank", "fit"}
                               /\ s.repo \in Repos /\ s.task \in Nat /\ s.rank \in Nat
                               /\ s.fit \in BOOLEAN

VARIABLES splitPhase,
          direct,          \* the canonical aliases as they were given
          resolved,        \* what they come to
          path,            \* the aliases on the way from the current origin
          population,      \* the samples of the normalized artifact
          split,           \* the split of every resolved repository of a sample
          pilot            \* the accepted samples

splitVars == <<splitPhase, direct, resolved, path, population, split, pilot>>

Splits == {"train", "evaluation", "excluded"}

-----------------------------------------------------------------------------
\* normalized_aliases.get(repository, repository)
Resolve(repository) ==
    IF repository \in DOMAIN resolved THEN resolved[repository] ELSE repository

SplitInit ==
    /\ splitPhase = "aliases"
    /\ direct = <<>> /\ resolved = <<>> /\ path = <<>>
    /\ population = <<>> /\ split = <<>> /\ pilot = {}

\* One entry of the alias file: an alias of itself is dropped, and a second target for the
\* same canonical alias is refused.
ReadAlias(alias, target) ==
    /\ splitPhase = "aliases" /\ Cardinality(DOMAIN direct) < MaxAliases
    /\ CASE alias = target -> UNCHANGED <<splitPhase, direct>>
         [] alias # target /\ alias \in DOMAIN direct /\ direct[alias] # target ->
              splitPhase' = "conflict" /\ UNCHANGED direct
         [] OTHER ->
              /\ direct' = [a \in DOMAIN direct \cup {alias} |->
                               IF a = alias THEN target ELSE direct[a]]
              /\ UNCHANGED splitPhase
    /\ UNCHANGED <<resolved, path, population, split, pilot>>

Unresolved == DOMAIN direct \ DOMAIN resolved

\* The walks begin at the origins in their order.
StartWalk ==
    /\ splitPhase = "aliases" \/ splitPhase = "origins"
    /\ IF Unresolved = {}
       THEN splitPhase' = "samples" /\ UNCHANGED path
       ELSE /\ splitPhase' = "walking"
            /\ path' = <<CHOOSE a \in Unresolved : \A b \in Unresolved : a <= b>>
    /\ UNCHANGED <<direct, resolved, population, split, pilot>>

\* Mutant: the end of the walk is taken for an alias as well.
WithPathAndEnd(end) ==
    [a \in DOMAIN resolved \cup {path[n] : n \in DOMAIN path} \cup {end} |->
        IF a \in DOMAIN resolved THEN resolved[a] ELSE Resolve(end)]

\* What the walk leaves behind: every alias of the path comes to its end.
WithPath(end) ==
    [a \in DOMAIN resolved \cup {path[n] : n \in DOMAIN path} |->
        IF a \in DOMAIN resolved THEN resolved[a] ELSE Resolve(end)]

\* A step of the walk: on to the target, or a cycle, or the end, where every alias of the
\* path comes to the same repository.
Walk ==
    /\ splitPhase = "walking"
    /\ LET current == direct[path[Len(path)]]
       IN  CASE current \in Unresolved /\ \E n \in DOMAIN path : path[n] = current ->
                  splitPhase' = "cycle" /\ UNCHANGED <<resolved, path>>
             [] current \in Unresolved /\ \A n \in DOMAIN path : path[n] # current ->
                  path' = Append(path, current) /\ UNCHANGED <<splitPhase, resolved>>
             [] OTHER ->
                  /\ splitPhase' = "origins" /\ path' = <<>>
                  /\ resolved' = WithPath(current)
    /\ UNCHANGED <<direct, population, split, pilot>>

-----------------------------------------------------------------------------
\* The normalized artifact
ReadSample(s) ==
    /\ splitPhase = "samples" /\ Len(population) < MaxPilotRows
    /\ population' = Append(population, s)
    /\ UNCHANGED <<splitPhase, direct, resolved, path, split, pilot>>

ResolvedRepositories == {Resolve(population[n].repo) : n \in DOMAIN population}

\* write_repository_split_manifest
WriteSplit(division) ==
    /\ splitPhase = "samples" /\ population # <<>>
    /\ splitPhase' = "split"
    /\ split' = division
    /\ UNCHANGED <<direct, resolved, path, population, pilot>>

\* read_repository_split_evidence of the manifest
Listed(which) == {r \in DOMAIN split : split[r] = which}
ListsOverlap == \E a, b \in Splits : a # b /\ Listed(a) \cap Listed(b) # {}

\* Mutant: whatever is not evaluation is training.
PassesNegativeChecks(n) ==
    /\ population[n].repo \notin Listed("evaluation") \cup Listed("excluded")
    /\ population[n].fit

\* The checks of build_pilot_subset in their order; fit stands for license, language,
\* resolution, trajectory and patch.
PassesChecks(n) ==
    LET s == population[n]
    IN  /\ s.repo \notin Listed("evaluation") \cup Listed("excluded")
        /\ s.repo \in Listed("train")
        /\ s.fit

\* A later sample of a repository, task and rollout is a duplicate.
Identity(n) == <<population[n].repo, population[n].task>>
Distinct(n) == PassesChecks(n) /\ \A m \in 1 .. n - 1 : PassesChecks(m) => Identity(m) # Identity(n)

\* The sort key: the language's rank, the repository, the task and rollout
Before(n, m) ==
    LET a == population[n]
        b == population[m]
    IN  \/ a.rank < b.rank
        \/ a.rank = b.rank /\ a.repo < b.repo
        \/ a.rank = b.rank /\ a.repo = b.repo /\ a.task < b.task

\* heapq.nsmallest over the candidates
BuildPilot ==
    /\ splitPhase = "split"
    /\ LET eligible == {n \in DOMAIN population : Distinct(n)}
       IN  IF ListsOverlap
           THEN splitPhase' = "overlap" /\ UNCHANGED pilot
           ELSE /\ splitPhase' = IF eligible = {} THEN "FAIL" ELSE "pilot"
                /\ pilot' = {n \in eligible :
                               Cardinality({m \in eligible : Before(m, n)}) < MaxPilot}
    /\ UNCHANGED <<direct, resolved, path, population, split>>

SplitNext ==
    \/ \E a, b \in Repos : ReadAlias(a, b)
    \/ StartWalk \/ Walk
    \/ \E s \in PilotSamples : ReadSample(s)
    \/ \E division \in [ResolvedRepositories -> Splits] : WriteSplit(division)
    \/ BuildPilot

-----------------------------------------------------------------------------
SplitTypeOK ==
    /\ splitPhase \in {"aliases", "conflict", "origins", "walking", "cycle", "samples",
                       "split", "overlap", "pilot", "FAIL"}
    /\ DOMAIN direct \subseteq Repos /\ DOMAIN resolved \subseteq DOMAIN direct
    /\ pilot \subseteq DOMAIN population

\* The repository a chain of aliases ends at, followed one alias at a time
AliasEnd(a) ==
    LET at[k \in 0 .. Cardinality(DOMAIN direct)] ==
            IF k = 0 THEN a
            ELSE IF at[k - 1] \in DOMAIN direct THEN direct[at[k - 1]] ELSE at[k - 1]
    IN  at[Cardinality(DOMAIN direct)]

\* An accepted sample is not of the repository of any sample of the evaluation or the
\* excluded split, whatever names the two go by in the alias file: walks that share their
\* tails come to the same end, and although the pilot knows no aliases a sample that names
\* one is in no list and is left out.  And a task of a repository is accepted once.
PilotAvoidsEvaluation ==
    \A n \in pilot, m \in DOMAIN population :
        /\ AliasEnd(population[n].repo) = AliasEnd(population[m].repo)
              => split[Resolve(population[m].repo)] = "train"
        /\ Identity(m) = Identity(n) /\ m \in pilot => m = n
=============================================================================
