------------------------------- MODULE Router --------------------------------
(***************************************************************************)
(* The route broker: which backends are candidates, which are excluded,    *)
(* how the rest is scored and which one wins.  Scores are in hundredths    *)
(* and weights in ten-thousandths where the code has floating point.       *)
(***************************************************************************)
EXTENDS Naturals, FiniteSets

CONSTANT Registered   \* RegisteredAgents, numbered in the order of their names

NoAgent == 0   \* Decision.Selected = "", and no lineage

ASSUME RouterAssumption == Registered \subseteq Nat \ {NoAgent} /\ IsFiniteSet(Registered)

\* An empty allowlist means every registered backend; unknown names are dropped.
candidatePool(allow) == (IF allow = {} THEN Registered ELSE allow) \cap Registered

\* objectiveWeights
W(v, s, c, b, q, a, y) ==
    [validRate |-> v, severity |-> s, cost |-> c, breaker |-> b, quota |-> q, affinity |-> a, assay |-> y]
objectiveWeights(objective) ==
    CASE objective = "cheapest"      -> W(1800, 1000, 5000, 500, 500, 500, 700)
      [] objective = "most_reliable" -> W(3000, 2800, 500, 1800, 500, 500, 900)
      [] OTHER                       -> W(2700, 1500, 2200, 1000, 500, 1500, 600)

\* Mutant: a weight may become negative.
riskAdjustedWeights_Unclamped(w, risk) ==
    LET s == CASE risk = "high" -> 1500 [] risk = "medium" -> 500 [] OTHER -> 0 IN
    [w EXCEPT !.cost = IF s > @ THEN 0 ELSE @ - s, !.validRate = @ + (s * 40) \div 100,
              !.severity = @ + (s * 25) \div 100, !.breaker = @ + (s * 20) \div 100, !.assay = @ + (s * 15) \div 100]

\* riskAdjustedWeights: what risk takes from cost goes to the other four.
riskAdjustedWeights(w, risk) ==
    LET want == CASE risk = "high" -> 1500 [] risk = "medium" -> 500 [] OTHER -> 0
        s == IF want > w.cost THEN w.cost ELSE want IN
    [w EXCEPT !.cost = @ - s, !.validRate = @ + (s * 40) \div 100, !.severity = @ + (s * 25) \div 100,
              !.breaker = @ + (s * 20) \div 100, !.assay = @ + (s * 15) \div 100]

WeightSum(w) == w.validRate + w.severity + w.cost + w.breaker + w.quota + w.affinity + w.assay

----------------------------------------------------------------------------
\* What is known of a backend: the requirements it meets, whether its binary is
\* there, its breaker, its runs (valid of how many, summed severity in
\* hundredths), its quota headroom and its assay evidence.
Excluded(h, req, n) ==
    \/ n \in req.exclude
    \/ ~(req.needs \subseteq h[n].meets)
    \/ ~h[n].binary
    \/ h[n].breaker = "OPEN"

clampUnit(v) == IF v > 100 THEN 100 ELSE v

validRateComponent(runs, valid) == IF runs = 0 THEN 50 ELSE clampUnit((100 * valid) \div runs)

\* severityWeight: scope violations weigh 100, failures 70, validation 40;
\* infrastructure failures and the spend cap do not count.
severityWeight(t) ==
    CASE t = "scope" -> 100 [] t = "validation" -> 40 [] t = "infra" -> 0 [] OTHER -> 70
severityComponent(runs, weighted) == IF runs = 0 THEN 100 ELSE 100 - clampUnit(weighted \div runs)

breakerScore(state) == IF state = "DEGRADED" THEN 50 ELSE 100
quotaScore(q) == IF q = {} THEN 100 ELSE clampUnit(CHOOSE n \in q : TRUE)   \* {}: no window known
affinityScore(lineage, n) == IF lineage = NoAgent \/ lineage = n THEN 100 ELSE 0

\* panelAgreementRateFor: the share of panels in which the agent's jobs ended
\* alike; rateQuery: hits of how many.  Without evidence, a half.
Rate(total, hits) == IF total = 0 THEN 50 ELSE clampUnit((100 * hits) \div total)
panelAgreementRateFor(panels) ==
    Rate(Cardinality(panels), Cardinality({p \in panels : Cardinality(p) <= 1}))
assayQualityComponent(e) == clampUnit((e.assay + e.validator + e.repair + e.panel) \div 4)

\* finalizeCosts: relative to the cheapest and the dearest that is not excluded.
CostScore(h, S, n) ==
    LET costs == {h[m].cost : m \in S}
        lo == CHOOSE c \in costs : \A d \in costs : c <= d
        hi == CHOOSE c \in costs : \A d \in costs : d <= c IN
    IF hi > lo THEN (100 * (hi - h[n].cost)) \div (hi - lo) ELSE 100

Scores(h, S, req, n) ==
    [validRate |-> validRateComponent(h[n].runs, h[n].valid),
     severity |-> severityComponent(h[n].runs, h[n].weighted),
     cost |-> CostScore(h, S, n), breaker |-> breakerScore(h[n].breaker),
     quota |-> quotaScore(h[n].quota), affinity |-> affinityScore(req.lineage, n), assay |-> h[n].assay]

totalScore(s, w) ==
    s.validRate * w.validRate + s.severity * w.severity + s.cost * w.cost + s.breaker * w.breaker
        + s.quota * w.quota + s.affinity * w.affinity + s.assay * w.assay

\* Mutant: a tie goes to the last name.
selectWinner_Last(total, S) ==
    CHOOSE n \in S : \A m \in S : total[n] > total[m] \/ (total[n] = total[m] /\ n >= m)

\* selectWinner: the highest total, the first name among equals.
selectWinner(total, S) ==
    CHOOSE n \in S : \A m \in S : total[n] > total[m] \/ (total[n] = total[m] /\ n <= m)

\* Router.Resolve
Resolve(h, req) ==
    LET S == {n \in candidatePool(req.allow) : ~Excluded(h, req, n)}
        w == riskAdjustedWeights(objectiveWeights(req.objective), req.risk)
        total == [n \in S |-> totalScore(Scores(h, S, req, n), w)] IN
    IF S = {} THEN NoAgent ELSE selectWinner(total, S)

----------------------------------------------------------------------------
\* Every weight set is a distribution, also after a shift the cost cannot give.
WeightsSum ==
    \A o \in {"cheapest", "balanced", "most_reliable"}, r \in {"low", "medium", "high"} :
        WeightSum(riskAdjustedWeights(objectiveWeights(o), r)) = 10000

AtLeast(s, t) == \A f \in DOMAIN s : s[f] >= t[f]

\* The winner is a candidate that nothing excludes, there is one whenever some
\* candidate is left, and no other candidate is at least as good on every score
\* and better on one that still has a weight (at high risk, cost may have none);
\* among equals the first name wins.
WinnerSound(h, req) ==
    LET S == {n \in candidatePool(req.allow) : ~Excluded(h, req, n)}
        w == riskAdjustedWeights(objectiveWeights(req.objective), req.risk)
        win == Resolve(h, req)
        best == Scores(h, S, req, win) IN
    /\ (win = NoAgent) = (S = {})
    /\ S # {} => /\ win \in S
                 /\ \A n \in S : LET s == Scores(h, S, req, n) IN
                      AtLeast(s, best) => /\ \A f \in DOMAIN s : w[f] > 0 => s[f] = best[f]
                                          /\ win <= n
=============================================================================
