----------------------------- MODULE MCDecisions -----------------------------
(***************************************************************************)
(* What the controller decides from what it is given: the audit of a       *)
(* transcript (Transcript), whether an earlier approval answers (Replay),  *)
(* and the decisions that are functions of their input (PolicyEngine,      *)
(* Patterns, ContainmentPolicy, WriteSet, SchemaCheck, Router), each asked *)
(* about every input of a bounded set.                                     *)
(***************************************************************************)
EXTENDS Transcript, Replay, PolicyEngine, Patterns, ContainmentPolicy, WriteSet, SchemaCheck, Router

CONSTANT Parts   \* the parts that are run

VARIABLES part, input

mcVars == <<part, input, tVars, rpVars>>

----------------------------------------------------------------------------
(* Transcripts.                                                            *)

RulesScenario(fmt, block, scoped) ==
    [fmt |-> fmt, maxCmds |-> 2, maxTokens |-> 0, block |-> block, scoped |-> scoped,
     lines |-> {JSON("message", <<Use("read", "/work/secret", "")>>), JSON("message", <<Use("read", "/work/misc", "")>>),
                JSON("message", <<Use("read", "/work/src", ""), Use("write", "/work/src", "")>>),
                JSON("message", <<Use("bash", "curl", "")>>), JSON("message", <<Use("bash", "make", ""), Use("bash", "rm", "")>>),
                JSON("message", <<Result("inject", "")>>),
                [JSON("message", <<Use("read", "/home/key", ""), Use("webfetch", "url", "")>>) EXCEPT !.ordered = FALSE]}]
SessionScenario(fmt, block) ==
    [fmt |-> fmt, maxCmds |-> 9, maxTokens |-> 2, block |-> block, scoped |-> FALSE,
     lines |-> {[JSON("init", <<>>) EXCEPT !.sid = "s1", !.uuid = "u1"], [JSON("message", <<>>) EXCEPT !.sid = "s2", !.uid = "m", !.tokens = 3],
                JSON("message", <<Use("read", "src", "t1")>>), JSON("message", <<Result("clean", "t1")>>),
                [JSON("message", <<Use("bash", "make deploy", "t2"), Result("", "t1")>>) EXCEPT !.uuid = "u1", !.tokens = 1],
                [JSON("result", <<>>) EXCEPT !.turns = 1, !.uid = "m", !.tokens = 2],
                [JSON("other", <<>>) EXCEPT !.tokens = 2], Garbage, Notice}]
MCScenarios ==
    {RulesScenario(f, TRUE, s) : f \in Formats, s \in BOOLEAN}
    \cup {SessionScenario(f, b) : f \in Formats \cup {"unknown"}, b \in BOOLEAN}

----------------------------------------------------------------------------
(* Inputs of the decisions.                                                *)

Nothing == [ask |-> "nothing"]

AskRule ==
    \E f \in ConditionFields \cup {"riskclass"}, o \in Ops \cup {"like"}, l \in Literals :
        input' = [ask |-> "rule", cond |-> [field |-> f, op |-> o, value |-> l]]

IsHigh == <<[field |-> "risk_class", op |-> "eq", value |-> "high"]>>
IsCostly == <<[field |-> "estimated_cost_usd", op |-> "gt", value |-> "1"]>>
GateRules == {[id |-> i, when |-> w, verdict |-> v] : i \in {"a", "b"}, w \in {IsHigh, IsCostly}, v \in {"DENY", "ASK", "FLAG"}}
GateOverrides ==
    {[target |-> <<s, i, <<w, "ASK">>>>, verdict |-> v] :
        s \in {"org_policy", "job_contract"}, i \in {"a"}, w \in {IsHigh, IsCostly}, v \in {"ALLOW", "DENY"}}
AskGate ==
    \E org, job \in {<<>>} \cup {<<r>> : r \in GateRules}, r \in GateRules :
    \E ovs \in {<<>>} \cup {<<o>> : o \in GateOverrides} \cup {<<o, p>> : o, p \in {x \in GateOverrides : x.target[1] = "org_policy"}} :
    \E n \in {1, 2} :
        /\ r.id = "b" /\ r.verdict # "DENY"
        /\ input' = [ask |-> "gate", layers |-> <<org, <<r>>, job>>, overrides |-> ovs,
                     facts |-> [f \in ConditionFields |-> CASE f = "risk_class" -> StringFact("high")
                                                            [] f = "estimated_cost_usd" -> NumberFact(n)
                                                            [] OTHER -> BoolFact("false")]]

Syms == {"a", "b", "/", "*", "**", "?", "["}
Words(S, n) == UNION {[1..k -> S] : k \in 1..n}
Names == Words({"a", "b", "/"}, 4)
AllowedSets == {{<<"a", "/", "**">>}, {<<"**">>}, {<<"a", "/", "*">>, <<"b">>}, {<<"a", "/", "b", "/", "**">>, <<"?">>}}
AskWithin == \E p \in {w \in Words(Syms, 3) : Tidy(w)}, A \in AllowedSets : input' = [ask |-> "within", pattern |-> p, allowed |-> A]
AskGlob == \E p \in Words(Syms, 3), n \in Words({"a", "b", "/"}, 3) : input' = [ask |-> "glob", pattern |-> p, name |-> n]

WriteSets == {{<<"a", "/", "b">>}, {<<"a", "/", "*">>, <<"b">>}, {<<"**">>}, {<<"*", "/", "a">>}, {}}
AskPreflight ==
    \E W1 \in WriteSets, A \in AllowedSets, m \in {"surgeon", "batch_worker", "scout"}, s \in {"small", "medium", "large"} :
    \E de, sc, ap \in BOOLEAN :
        input' = [ask |-> "preflight", c |-> [writes |-> W1, allowed |-> A, destructive |-> de, size |-> s, mode |-> m,
                                              scouted |-> sc, approved |-> ap, cleanup |-> TRUE, lint |-> FALSE]]

Bare == {[risk |-> r, runner |-> u, authority |-> a, netForbidden |-> n, hardened |-> h, job |-> j, override |-> {}] :
           r \in {"", "low", "medium", "high"}, u \in {"local", "docker"}, a \in {{}, {"write"}, {"validators"}, {"write", "credentials"}},
           n \in BOOLEAN, h \in BOOLEAN, j \in {"j1", "j2"}}
AskContainment ==
    \E c \in Bare, external \in BOOLEAN, key \in {"", "k1", "k2"}, tiering \in BOOLEAN :
    \E o \in {{}} \cup {{[reason |-> r, key |-> "k1", signed |-> <<s.job, s, {"why"}>>]} :
                            r \in {"why", "other"}, s \in {c, [c EXCEPT !.authority = {}], [c EXCEPT !.job = "j2"]}} :
        /\ c.job = "j1"
        /\ input' = [ask |-> "containment", c |-> [c EXCEPT !.override = o], external |-> external, key |-> key, tiering |-> tiering]

FileStates == {[inode |-> i, hash |-> h, mode |-> m, readable |-> r] : i \in {0, 1, 2}, h \in {1, 2}, m \in {1}, r \in {TRUE}}
              \cup {[inode |-> 1, hash |-> 1, mode |-> 2, readable |-> TRUE], [inode |-> 2, hash |-> 1, mode |-> 1, readable |-> FALSE]}
Trees(S) == UNION {[D -> FileStates] : D \in SUBSET S}
AskWrites ==
    \/ \E b \in Trees({"p", "q"}), a \in Trees({"r", "q"}) : input' = [ask |-> "writes", before |-> b, after |-> a]
    \/ \E b \in [{"p", "q"} -> {[inode |-> 0, hash |-> h, mode |-> 1, readable |-> TRUE] : h \in {1, 2}}],
          a \in [{"r", "s", "q"} -> {[inode |-> 0, hash |-> h, mode |-> 1, readable |-> TRUE] : h \in {1, 2}}] :
            input' = [ask |-> "writes", before |-> b, after |-> a]

Keywords(T, l, e, r, p, c, i) == [type |-> T, list |-> l, enum |-> e, required |-> r, props |-> p, closed |-> c, items |-> i]
Leaf(t) == {Keywords({t}, FALSE, {}, {}, <<>>, FALSE, {})}
JVal(t, n, f) == [ty |-> t, n |-> n, f |-> f]
Scalars == {JVal("number", 1, <<>>), JVal("number", 2, <<>>), JVal("string", 0, <<>>), JVal("null", 0, <<>>)}
Inner == {{}, Leaf("integer"), Leaf("string"), {Keywords({}, FALSE, {}, {}, <<>>, FALSE, Leaf("string"))},
          {Keywords({"string", "null"}, TRUE, {}, {}, <<>>, FALSE, {})}, {Keywords({}, FALSE, {{JVal("string", 0, <<>>)}}, {}, <<>>, FALSE, {})}, {Keywords({}, FALSE, {{}}, {}, <<>>, FALSE, {})}}
Schemas ==
    {{Keywords({"object"}, FALSE, {}, r, [k \in {"x"} |-> i], c, {})} : r \in {{}, {"x"}, {"x", "y"}}, i \in Inner, c \in BOOLEAN}
    \cup {{Keywords(T, FALSE, {}, {}, p, FALSE, i)} : T \in {{}, {"array"}}, p \in {<<>>, [k \in {"x"} |-> Leaf("integer")]}, i \in Inner}
    \cup Inner
Documents ==
    Scalars \cup {JVal("array", 0, [k \in {"0", "1"} |-> IF k = "0" THEN v ELSE w]) : v, w \in Scalars}
    \cup {JVal("object", 0, [k \in D |-> v]) : D \in SUBSET {"x", "y"}, v \in Scalars \cup {JVal("array", 0, [k \in {"0"} |-> w]) : w \in Scalars}}
AskSchema == \E s \in Schemas, v \in Documents : input' = [ask |-> "schema", schema |-> s, value |-> v]

Backend(b, r, v, c, q, k) ==
    [meets |-> {"repo"}, binary |-> b, breaker |-> k, runs |-> r, valid |-> v, weighted |-> 0, quota |-> q, assay |-> 50, cost |-> c]
Backends ==
    {Backend(TRUE, 0, 0, c, q, k) : c \in {1, 3}, q \in {{}, {20}}, k \in {"CLOSED", "OPEN", "DEGRADED"}}
    \cup {Backend(b, 4, v, c, {150}, "CLOSED") : b \in BOOLEAN, v \in {0, 4}, c \in {1, 2}}
AskRoute ==
    \E h \in [Registered -> Backends], o \in {"cheapest", "most_reliable"}, r \in {"low", "high"} :
    \E A, X \in {{}, {1}, {1, 2}}, l \in {NoAgent, 2} :
        /\ A = {} \/ X = {}
        /\ input' = [ask |-> "route", h |-> h, req |-> [allow |-> A, exclude |-> X, needs |-> {"repo"}, lineage |-> l, objective |-> o, risk |-> r]]

Decide ==
    /\ part = "decide" /\ input = Nothing
    /\ AskRule \/ AskGate \/ AskWithin \/ AskGlob \/ AskPreflight \/ AskContainment \/ AskWrites \/ AskSchema \/ AskRoute

----------------------------------------------------------------------------
ReplayIdle == root.git = TRUE
TranscriptIdle == scen = SessionScenario("claude", TRUE)

MCInit ==
    /\ part \in Parts /\ input = Nothing
    /\ (part = "transcript" \/ TranscriptIdle) /\ TranscriptInit
    /\ ReplayInit /\ (part = "replay" \/ ReplayIdle)

MCNext ==
    \/ part = "transcript" /\ UNCHANGED <<part, input, rpVars>> /\ TranscriptNext
    \/ part = "replay" /\ UNCHANGED <<part, input, tVars>> /\ ReplayNext
    \/ UNCHANGED <<part, tVars, rpVars>> /\ Decide

MCSpec == MCInit /\ [][MCNext]_mcVars

----------------------------------------------------------------------------
\* Every decision that is a function of its input agrees with what it means:
\* rules and their layers, path and command patterns and the preflight, the
\* demand for containment, the set of changed paths, schemas, and routes.
DecisionsAgree ==
    CASE input.ask = "rule" -> RuleSound(input.cond)
      [] input.ask = "gate" -> GateSound(input.layers, input.overrides, input.facts)
      [] input.ask = "within" -> WithinSound(input.pattern, input.allowed, Names)
      [] input.ask = "glob" -> GlobSound(input.pattern, input.name)
      [] input.ask = "preflight" -> PreflightSound(input.c, Names)
      [] input.ask = "containment" -> ContainmentSound(input.c, Bare, input.external, input.key, input.tiering)
      [] input.ask = "writes" -> WriteSetSound(input.before, input.after)
      [] input.ask = "schema" -> SchemaSound(input.schema, input.value)
      [] input.ask = "route" -> WinnerSound(input.h, input.req) /\ WeightsSum
      [] OTHER -> TRUE

\* conditions.go 58-62, of every rule: one that loads can fire.
LoadedRulesAreArmed == input.ask = "rule" => RuleArmed(input.cond)
=============================================================================
