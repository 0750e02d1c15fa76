---------------------------- MODULE PolicyEngine -----------------------------
(***************************************************************************)
(* The policy engine: condition rules over facts, the layers they come     *)
(* from, the operator's overrides, the one decision they combine to.       *)
(*                                                                         *)
(* Values are literals as rule files write them.  A literal is compared as *)
(* text, parsed as a number or parsed as a truth value, and a fact is      *)
(* formatted before it is compared as text, so the same value may have     *)
(* several spellings and only one of them is the one facts are printed in. *)
(***************************************************************************)
EXTENDS Integers, Sequences, FiniteSets, SequencesExt

----------------------------------------------------------------------------
(* Facts, conditions, rules.                                               *)

Absent == [ty |-> "absent", s |-> "", n |-> 0]
StringFact(s) == [ty |-> "string", s |-> s, n |-> 0]
BoolFact(b) == [ty |-> "bool", s |-> b, n |-> 0]              \* FormatBool: "true", "false"
NumberFact(n) == [ty |-> "number", s |-> "", n |-> n]

ConditionFields == {"risk_class", "network_enabled", "estimated_cost_usd"}
conditionFieldTypes(f) ==
    CASE f = "risk_class" -> "string" [] f = "network_enabled" -> "bool" [] f = "estimated_cost_usd" -> "number" [] OTHER -> ""
FieldFacts(f) ==
    CASE f = "risk_class" -> {StringFact("high"), StringFact("1")}
      [] f = "network_enabled" -> {BoolFact("true"), BoolFact("false")}
      [] OTHER -> {NumberFact(0), NumberFact(1), NumberFact(2)}

Ops == {"eq", "ne", "gt", "gte", "lt", "lte", "contains", "matches_any"}
Literals == {"", "high", "hi", "true", "TRUE", "1", "1.0", "nan"}

Unparsed == -1
\* Mutant: nan is a number.
ToFloat_AcceptsNaN(l) == CASE l \in {"1", "1.0"} -> 1 [] l = "nan" -> 7 [] OTHER -> Unparsed

ToFloat(l) == CASE l \in {"1", "1.0"} -> 1 [] OTHER -> Unparsed
ParseBool(l) == CASE l \in {"true", "TRUE", "1"} -> "true" [] OTHER -> ""
FormatFloat(n) == CASE n = 0 -> "0" [] n = 1 -> "1" [] OTHER -> "2"
HasText(text, l) == text = l \/ l = "" \/ (text = "high" /\ l = "hi")

factString(f) == IF f.ty = "number" THEN FormatFloat(f.n) ELSE f.s
factFloat(f) == IF f.ty = "number" THEN f.n ELSE IF f.ty = "string" THEN ToFloat(f.s) ELSE Unparsed

\* No fact is a list, so matches_any finds nothing to look at.
matches(c, facts) ==
    LET f == facts[c.field]
        want == ToFloat(c.value)
        num == factFloat(f)
    IN /\ c.field \in DOMAIN facts /\ f.ty # "absent"
       /\ CASE c.op = "eq" -> factString(f) = c.value
            [] c.op = "ne" -> factString(f) # c.value
            [] c.op = "contains" -> HasText(factString(f), c.value)
            [] c.op = "matches_any" -> FALSE
            [] OTHER -> /\ num # Unparsed /\ want # Unparsed
                        /\ CASE c.op = "gt" -> num > want [] c.op = "gte" -> num >= want
                             [] c.op = "lt" -> num < want [] OTHER -> num <= want

Fires(rule, facts) == \A i \in 1..Len(rule.when) : matches(rule.when[i], facts)

validateConditionValue(c) ==
    LET typ == conditionFieldTypes(c.field)
    IN CASE c.op \in {"gt", "gte", "lt", "lte"} -> typ = "number" /\ ToFloat(c.value) # Unparsed
         [] c.op = "contains" -> typ = "string" /\ c.value # ""
         [] c.op = "matches_any" -> typ = "list" /\ c.value # ""
         [] OTHER -> /\ typ = "bool" => ParseBool(c.value) # ""
                     /\ typ = "number" => ToFloat(c.value) # Unparsed

\* Mutant: the fields of a condition are not checked.
Validate_NoFields(r) ==
    /\ r.id # "" /\ r.when # <<>> /\ r.verdict \in {"DENY", "ASK", "FLAG"}
    /\ \A i \in 1..Len(r.when) : r.when[i].op \in Ops /\ validateConditionValue(r.when[i])

\* Validate_NoFields lets a misspelt field through.
Validate(r) ==
    /\ r.id # "" /\ r.when # <<>> /\ r.verdict \in {"DENY", "ASK", "FLAG"}
    /\ \A i \in 1..Len(r.when) :
         r.when[i].field \in ConditionFields /\ r.when[i].op \in Ops /\ validateConditionValue(r.when[i])

\* A project's doctrine file: none, or rules with distinct ids, all valid, or
\* an error.  A contract's rules are validated one by one.
LoadProjectDoctrine(rules) ==
    [err |-> \/ \E i, j \in 1..Len(rules) : i < j /\ rules[i].id = rules[j].id
             \/ \E i \in 1..Len(rules) : ~Validate(rules[i]),
     rules |-> rules]
ContractRules(rules) == [err |-> \E i \in 1..Len(rules) : ~Validate(rules[i]), rules |-> rules]

----------------------------------------------------------------------------
(* Layers.                                                                 *)

layerPrecedence == <<"org_policy", "project_doctrine", "job_contract", "session_override">>
verdictRank(v) == CASE v = "ALLOW" -> 0 [] v = "FLAG" -> 1 [] v = "ASK" -> 2 [] v = "DENY" -> 3

\* Mutant: an override names a rule by its id alone.
overrideTarget_IdOnly(source, rule) == <<"", rule.id, <<>>>>

\* What an override names: the layer, the rule and its whole definition.
overrideTarget(source, rule) == <<source, rule.id, <<rule.when, rule.verdict>>>>

LayerResult(source, rule) ==
    [source |-> source, verdict |-> rule.verdict, id |-> rule.id, target |-> overrideTarget(source, rule)]

\* What a loop over s appends: the members at the positions in K.
Kept(s, K) ==
    LET out[i \in 0..Len(s)] == IF i = 0 THEN <<>> ELSE IF i \in K THEN Append(out[i - 1], s[i]) ELSE out[i - 1]
    IN out[Len(s)]

EvaluateConditionRules(source, rules, facts) ==
    LET fired == Kept(rules, {i \in 1..Len(rules) : Fires(rules[i], facts)})
    IN [i \in 1..Len(fired) |-> LayerResult(source, fired[i])]

\* Several overrides of one rule: the first listed counts.
FirstFor(overrides, target) ==
    LET is == {i \in 1..Len(overrides) : overrides[i].target = target}
    IN CHOOSE i \in is : \A j \in is : i <= j

Overridden(overrides, r) == r.verdict = "ASK" /\ r.id # "" /\ \E i \in 1..Len(overrides) : overrides[i].target = r.target

ResolveOverrides(results, overrides) ==
    [i \in 1..Len(results) |->
       IF Overridden(overrides, results[i])
         THEN [results[i] EXCEPT !.source = "session_override",
                                 !.verdict = overrides[FirstFor(overrides, results[i].target)].verdict]
         ELSE results[i]]

\* The overrides the results used up, each once.
UsedUp(results, overrides) ==
    {FirstFor(overrides, results[i].target) : i \in {i \in 1..Len(results) : Overridden(overrides, results[i])}}

\* SortStable by precedence, then the strongest verdict and every objection.
InPrecedence(results) ==
    LET of(k) == Kept(results, {i \in 1..Len(results) : results[i].source = layerPrecedence[k]})
    IN of(1) \o of(2) \o of(3) \o of(4)
Objections(results) ==
    LET sorted == InPrecedence(results)
    IN Kept(sorted, {i \in 1..Len(sorted) : sorted[i].verdict # "ALLOW"})

\* A loop that keeps the strongest verdict so far.
Strongest(vs) ==
    LET best[i \in 0..Len(vs)] ==
          IF i = 0 THEN "ALLOW" ELSE IF verdictRank(vs[i]) > verdictRank(best[i - 1]) THEN vs[i] ELSE best[i - 1]
    IN best[Len(vs)]

\* Mutant: the last layer that speaks decides.
EvaluateLayers_Last(results) ==
    LET said == Objections(results)
        v == IF said = <<>> THEN "ALLOW" ELSE Last(said).verdict
    IN [verdict |-> v, allowed |-> v \in {"ALLOW", "FLAG"}, reasons |-> said, sources |-> {r.source : r \in ToSet(said)},
        consulted |-> {r.source : r \in ToSet(results)}]

EvaluateLayers(results) ==
    LET said == Objections(results)
        v == Strongest([i \in 1..Len(said) |-> said[i].verdict])
    IN [verdict |-> v, allowed |-> v \in {"ALLOW", "FLAG"}, reasons |-> said, sources |-> {r.source : r \in ToSet(said)},
        consulted |-> {r.source : r \in ToSet(results)}]

Blocks(d) == d.verdict \in {"DENY", "ASK"}

\* Combine keeps the strongest verdict; a decision made before verdicts existed
\* has only its boolean.
Combine(ds) ==
    LET of(d) == IF d.verdict # "" THEN d.verdict ELSE IF d.allowed THEN "ALLOW" ELSE "DENY"
    IN [allowed |-> \A i \in 1..Len(ds) : ds[i].allowed,
        verdict |-> Strongest([i \in 1..Len(ds) |-> of(ds[i])])]

\* Org, project and contract rules of one run, with the operator's overrides.
Gate(layers, overrides, facts) ==
    LET said(k) == EvaluateConditionRules(layerPrecedence[k], layers[k], facts)
        results == said(1) \o said(2) \o said(3)
    IN [decision |-> EvaluateLayers(ResolveOverrides(results, overrides)),
        applied |-> UsedUp(results, overrides), results |-> results]

----------------------------------------------------------------------------
(* What the engine promises.  An input is a record of one of three kinds.  *)

\* What an author means by a condition on a fact.
NumberOf(l) == IF l \in {"1", "1.0"} THEN 1 ELSE Unparsed
Meaning(c, f) ==
    CASE c.op = "eq" /\ f.ty = "bool" -> ParseBool(c.value) = f.s
      [] c.op = "eq" /\ f.ty = "number" -> NumberOf(c.value) = f.n
      [] c.op = "ne" /\ f.ty = "bool" -> ParseBool(c.value) # f.s
      [] c.op = "ne" /\ f.ty = "number" -> NumberOf(c.value) # f.n
      [] c.op = "eq" -> c.value = f.s
      [] c.op = "ne" -> c.value # f.s
      [] c.op = "contains" -> HasText(f.s, c.value)
      [] c.op = "gt" -> f.n > NumberOf(c.value)
      [] c.op = "gte" -> f.n >= NumberOf(c.value)
      [] c.op = "lt" -> f.n < NumberOf(c.value)
      [] OTHER -> f.n <= NumberOf(c.value)

\* The spelling facts are printed in: "true" and "1", not "TRUE" or "1.0".
Canonical(c) ==
    c.op \in {"eq", "ne"} => CASE conditionFieldTypes(c.field) = "bool" -> c.value = ParseBool(c.value)
                               [] conditionFieldTypes(c.field) = "number" -> c.value = FormatFloat(ToFloat(c.value))
                               [] OTHER -> TRUE

OneRule(c) == [id |-> "r", when |-> <<c>>, verdict |-> "DENY"]
FactsWith(c, f) == [x \in {c.field} |-> f]

\* A rule that loads is one that can object: its field is a fact, and it fires
\* on exactly the facts its author means; a number is compared with a number.
RuleSound(c) ==
    Validate(OneRule(c)) =>
      /\ c.field \in ConditionFields
      /\ conditionFieldTypes(c.field) = "number" => NumberOf(c.value) # Unparsed
      /\ Canonical(c) => \A f \in FieldFacts(c.field) : Fires(OneRule(c), FactsWith(c, f)) <=> Meaning(c, f)
      /\ ~Fires(OneRule(c), FactsWith(c, Absent))

\* conditions.go 58-62: what would disarm a rule "without anyone noticing" has to
\* "fail loudly at load time": a rule that loads fires on some fact or other.
RuleArmed(c) == Validate(OneRule(c)) => \E f \in FieldFacts(c.field) : Fires(OneRule(c), FactsWith(c, f))

\* The layers' verdict: a firing DENY stands whatever the operator overrode, an
\* ASK gives way only to an override of that very rule of that very layer, and
\* nothing weaker hides something stronger.
Effective(layers, overrides, facts) ==
    {IF p[2].verdict = "ASK" /\ \E i \in 1..Len(overrides) : overrides[i].target = <<p[1], p[2].id, <<p[2].when, p[2].verdict>>>>
       THEN overrides[CHOOSE i \in 1..Len(overrides) :
                        /\ overrides[i].target = <<p[1], p[2].id, <<p[2].when, p[2].verdict>>>>
                        /\ \A j \in 1..i - 1 : overrides[j].target # overrides[i].target].verdict
       ELSE p[2].verdict
     : p \in {p \in UNION {{layerPrecedence[k]} \X ToSet(layers[k]) : k \in 1..3} : Fires(p[2], facts)}}

GateSound(layers, overrides, facts) ==
    LET g == Gate(layers, overrides, facts)
        eff == Effective(layers, overrides, facts) \cup {"ALLOW"}
    IN /\ g.decision.verdict \in eff /\ \A v \in eff : verdictRank(v) <= verdictRank(g.decision.verdict)
       /\ Blocks(g.decision) <=> ~g.decision.allowed
       /\ \A i \in g.applied : \E r \in ToSet(g.results) : r.verdict = "ASK" /\ r.target = overrides[i].target
       /\ \A i, j \in g.applied : overrides[i].target = overrides[j].target => i = j
       /\ \A i, j \in 1..Len(g.decision.reasons) :       \* the higher layer speaks first
            i < j => \E k, m \in 1..4 : k <= m /\ g.decision.reasons[i].source = layerPrecedence[k]
                                              /\ g.decision.reasons[j].source = layerPrecedence[m]
=============================================================================
