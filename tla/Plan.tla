-------------------------------- MODULE Plan ---------------------------------
(***************************************************************************)
(* Plans: the jobs of a batch, what ValidatePlan and validatePanelSpec     *)
(* refuse, the levels they run in and the artifacts they hand over.  Jobs  *)
(* are numbered in the order of their names; patterns, texts and schemas   *)
(* are reduced to whether they are acceptable.                             *)
(***************************************************************************)
EXTENDS Naturals, FiniteSets, Relation

\* A plan: its jobs, what each depends on, produces and consumes (artifact
\* names), the tokens it may spend, and whether the contract itself, its risk
\* class, its root and its write envelope are acceptable.
SelfValid(p) == \A j \in p.jobs : p.ok[j] /\ p.tokens[j] > 0

DependsOn(p) == [e \in p.jobs \X p.jobs |-> e[2] \in p.deps[e[1]]]

\* planAncestors: everything a job depends on, directly or not.
planAncestors(p, j) ==
    LET R == TransitiveClosure(DependsOn(p), p.jobs) IN {k \in p.jobs : R[<<j, k>>]}

TokensOf(p) == LET sum[S \in SUBSET p.jobs] ==
                      IF S = {} THEN 0 ELSE LET j == CHOOSE j \in S : TRUE IN p.tokens[j] + sum[S \ {j}]
               IN sum[p.jobs]

\* ResolveArtifactSources: of the ancestors that produce it, the last by name.
Producers(p, j, a) == {k \in planAncestors(p, j) : a \in p.produces[k]}
ArtifactSource(p, j, a) ==
    CHOOSE k \in Producers(p, j, a) : \A l \in Producers(p, j, a) : l <= k
SourcesResolve(p) == \A j \in p.jobs : \A a \in p.consumes[j] : Producers(p, j, a) # {}

\* TopologicalLevels: a level holds every job whose remaining dependencies the
\* level before it completed.  Names that are no job of the plan do not count.
Level(p) ==
    LET before[n \in 0..Cardinality(p.jobs)] ==
          IF n = 0 THEN {}
          ELSE before[n - 1] \cup {j \in p.jobs : p.deps[j] \cap p.jobs \subseteq before[n - 1]}
    IN [n \in 1..Cardinality(p.jobs) |-> before[n] \ before[n - 1]]

Acyclic(p) == UNION {Level(p)[n] : n \in DOMAIN Level(p)} = p.jobs
TopologicalLevels(p) ==
    LET last == CHOOSE n \in DOMAIN Level(p) :
                  Level(p)[n] # {} /\ \A m \in DOMAIN Level(p) : m > n => Level(p)[m] = {}
    IN [n \in 1..last |-> Level(p)[n]]

ValidatePlan(p, maxTotal) ==
    /\ p.jobs # {} /\ SelfValid(p) /\ TokensOf(p) <= maxTotal
    /\ \A j \in p.jobs : p.deps[j] \subseteq p.jobs \ {j}
    /\ SourcesResolve(p) /\ Acyclic(p)

\* What levels are for: a job comes after everything it depends on, and every
\* job comes exactly once.
LevelsRespect(p, levels) ==
    /\ \A j \in p.jobs : Cardinality({n \in DOMAIN levels : j \in levels[n]}) = 1
    /\ \A n \in DOMAIN levels : \A j \in levels[n] :
         p.deps[j] \subseteq UNION {levels[m] : m \in 1..(n - 1)}

----------------------------------------------------------------------------
(* Panels. *)

\* validatePanelQuorum; 0 stands for a field that is not set.
PanelQuorumOK(s) ==
    /\ s.minSuccess # 0 => s.minSuccess >= 2 /\ s.minSuccess <= Cardinality(s.members)
    /\ s.memberTimeout # 0 /\ s.hardTimeout # 0 => s.hardTimeout >= s.memberTimeout
    /\ s.minUnique <= Cardinality(s.members)
    /\ s.fallbackBy # "" => s.fallbackBy # s.groupBy

\* validatePanelSpec: read-only members that share no artifact name, one
\* verifier that compares them all, one judge that sees only the comparison.
validatePanelSpec(s, p) ==
    /\ Cardinality(s.members) >= 2 /\ s.members \subseteq p.jobs
    /\ PanelQuorumOK(s)
    /\ \A m \in s.members : p.mode[m] \in {"scout", "architect", "verifier"} /\ p.produces[m] # {}
    /\ \A m, n \in s.members : m # n => p.produces[m] \cap p.produces[n] = {}
    /\ s.comparison \in p.jobs /\ p.mode[s.comparison] = "verifier"
    /\ s.members \subseteq p.deps[s.comparison]
    /\ UNION {p.produces[m] : m \in s.members} \subseteq p.consumes[s.comparison]
    /\ p.produces[s.comparison] # {}
    /\ s.judge \in p.jobs \ (s.members \cup {s.comparison}) /\ p.mode[s.judge] = "architect"
    /\ s.members \cup {s.comparison} \subseteq p.deps[s.judge]
    /\ p.consumes[s.judge] \cap UNION {p.produces[m] : m \in s.members} = {}
    /\ p.produces[s.comparison] \subseteq p.consumes[s.judge]

EffectiveMinSuccess(s) == IF s.minSuccess > 0 THEN s.minSuccess ELSE Cardinality(s.members)
EffectiveMinUnique(s) == IF s.minUnique > 0 THEN s.minUnique ELSE Cardinality(s.members)

\* GeneratePlan: gov panel's own plan, n members, comparison and judge.
GeneratePlan(n, total, min) ==
    LET per == IF total \div (n + 2) > 0 THEN total \div (n + 2) ELSE 1
        members == 1..n  all == 1..(n + 2) IN
    [plan |-> [jobs |-> all, ok |-> [j \in all |-> TRUE], tokens |-> [j \in all |-> per],
               deps |-> [j \in all |-> IF j <= n THEN {} ELSE IF j = n + 1 THEN members ELSE members \cup {n + 1}],
               produces |-> [j \in all |-> {j}],
               consumes |-> [j \in all |-> IF j <= n THEN {} ELSE IF j = n + 1 THEN members ELSE {n + 1}],
               mode |-> [j \in all |-> IF j = n + 1 THEN "verifier" ELSE "architect"]],
     spec |-> [members |-> members, comparison |-> n + 1, judge |-> n + 2, minSuccess |-> min,
               memberTimeout |-> 0, hardTimeout |-> 0, minUnique |-> 0, groupBy |-> "backend", fallbackBy |-> ""]]

\* CompareArtifacts: objects that differ are compared key by key, and the paths
\* at which they differ are reported; identity keys are stripped first.  An
\* artifact is a function from keys to values, "" for a key it lacks.
IdentityKeys == {"agent"}
stripIdentity(v) == [k \in DOMAIN v \ IdentityKeys |-> v[k]]
DifferingPaths(values) ==
    LET vs == {stripIdentity(v) : v \in values}  keys == UNION {DOMAIN v : v \in vs} IN
    {k \in keys : \E v, w \in vs : v[k] # w[k]}
=============================================================================
