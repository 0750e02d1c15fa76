------------------------------ MODULE Transcript -----------------------------
(***************************************************************************)
(* auditTranscript: one pass over the lines a backend printed.  Every line *)
(* that is JSON feeds four accumulators at once (the event graph of the    *)
(* temporal rules, the conformance of the session, the token and tool      *)
(* counts, the commands), and the verdicts are drawn at the end.           *)
(*                                                                         *)
(* A line is "garbage", the notice Codex prints on standard output, or an  *)
(* object with its nested nodes.  The children of a JSON object are walked *)
(* in Go's map order: a line whose nodes hang on different keys is read in *)
(* any order, one whose nodes stand in an array in the order written.      *)
(***************************************************************************)
EXTENDS Integers, Sequences, FiniteSets, Functions, SequencesExt

CONSTANTS Scenarios,   \* records: format, lines it may print, max commands and tokens, block
          MaxLines

VARIABLES
    scen,    \* the scenario: [fmt, lines, maxCmds, maxTokens, block, scoped]
    hist,    \* the lines read so far
    acc,     \* what the pass has accumulated
    verdict  \* the audit, once drawn: [drawn, bad, rules]

tVars == <<scen, hist, acc, verdict>>

----------------------------------------------------------------------------
(* Nodes and lines.                                                        *)

\* tool: the tool named; sub: its path, command or text; id: tool_use id.
Node(kind, tool, sub, id) == [kind |-> kind, tool |-> tool, sub |-> sub, id |-> id]
Use(tool, sub, id) == Node("use", tool, sub, id)
Result(sub, id) == Node("result", "", sub, id)

NoLine == [json |-> FALSE, notice |-> FALSE, type |-> "", nodes |-> <<>>, ordered |-> TRUE,
           sid |-> "", uuid |-> "", turns |-> -1, uid |-> "", tokens |-> -1]

\* Only calls name a tool, and a line is what the parser makes of it.
Nodes == {n \in [kind : STRING, tool : STRING, sub : STRING, id : STRING] : n.kind # "use" => n.tool = ""}
Lines == [json : BOOLEAN, notice : BOOLEAN, type : STRING, nodes : Seq(Nodes), ordered : BOOLEAN,
          sid : STRING, uuid : STRING, turns : Int, uid : STRING, tokens : Int]

ASSUME TranscriptAssumption ==
    \A s \in Scenarios : s.lines \subseteq Lines /\ {s.block, s.scoped} \subseteq BOOLEAN /\ s.maxTokens \in Int

JSON(type, nodes) == [NoLine EXCEPT !.json = TRUE, !.type = type, !.nodes = nodes]
Garbage == NoLine
Notice == [NoLine EXCEPT !.notice = TRUE]

Formats == {"claude", "codex", "opencode"}     \* glm reads as claude, pi as opencode

\* Mutant: a path is kept as the transcript has it.
relUnderWork_Keep(p) == p

\* Subjects: absolute paths under the worktree are rewritten to relative ones,
\* which is how contracts write their patterns; others stay as they are.
relUnderWork(p) ==
    CASE p = "/work/secret" -> "secret" [] p = "/work/src" -> "src" [] p = "/work/misc" -> "misc" [] OTHER -> p

SecretPaths == {"secret", "/home/key"}     \* forbidden.paths and the protected manifest
ScopePaths == {"src"}                      \* allowed.read

----------------------------------------------------------------------------
(* What one node yields.                                                   *)

NetworkCommand(cmd) == cmd = "curl"

ClassifyEvent(tool, sub) ==
    [kind |-> CASE tool = "write" -> "write"
                [] tool = "read" -> "read"
                [] tool = "webfetch" -> "network"
                [] tool = "bash" -> IF NetworkCommand(sub) THEN "network" ELSE "exec"
                [] OTHER -> "other",
     sub |-> sub]

\* A format that is not known has no commands and no events.
transcriptCommand(fmt, n) ==
    IF fmt \in Formats /\ n.kind = "use" /\ n.tool = "bash" THEN n.sub ELSE ""

\* Mutant: results yield no event.
transcriptEvent_NoOutput(fmt, n) ==
    IF n.kind = "use" /\ (fmt # "codex" \/ n.tool = "bash") THEN <<ClassifyEvent(n.tool, n.sub)>> ELSE <<>>

\* Codex names no tools: only its command executions make events.
transcriptEvent(fmt, n) ==
    CASE fmt \notin Formats -> <<>>
      [] fmt \in Formats /\ n.kind = "result" ->
           IF fmt = "claude" /\ n.sub # "" THEN <<[kind |-> "tool_output", sub |-> n.sub]>> ELSE <<>>
      [] fmt \in Formats /\ n.kind = "use" -> IF fmt = "codex"
                             THEN IF transcriptCommand(fmt, n) = "" THEN <<>> ELSE <<ClassifyEvent("bash", n.sub)>>
                             ELSE <<ClassifyEvent(n.tool, n.sub)>>
      [] OTHER -> <<>>

\* One known type anywhere in the line is enough: a node of the format, its
\* closing line ("result") or one of its message lines ("message").
recognizedTranscriptEvent(fmt, l) ==
    /\ fmt \in Formats
    /\ \/ l.type \in {"result", "message"}
       \/ \E i \in 1..Len(l.nodes) : CASE fmt = "claude" -> l.nodes[i].kind \in {"use", "result"}
                                       [] fmt = "codex" -> transcriptCommand(fmt, l.nodes[i]) # ""
                                       [] OTHER -> l.nodes[i].kind = "use"

----------------------------------------------------------------------------
(* Session conformance.                                                    *)

newTranscriptConformanceState ==
    [start |-> FALSE, done |-> FALSE, turns |-> -1, sid |-> "", mixed |-> FALSE,
     uuids |-> {}, dup |-> FALSE, uses |-> {}, results |-> {}, early |-> FALSE]

transcriptIsSessionStart(fmt, l) == fmt = "claude" /\ l.type = "init"
transcriptIsCompletion(fmt, l) == fmt \in Formats /\ l.type = "result"

observeLine(fmt, s, l) ==
    LET done == transcriptIsCompletion(fmt, l)
    IN [s EXCEPT !.start = @ \/ transcriptIsSessionStart(fmt, l),
                 !.done = @ \/ done,
                 !.turns = IF done /\ l.turns >= 0 THEN l.turns ELSE @,
                 !.sid = IF @ = "" THEN l.sid ELSE @,
                 !.mixed = @ \/ (l.sid # "" /\ s.sid # "" /\ l.sid # s.sid),
                 !.dup = @ \/ l.uuid \in s.uuids,
                 !.uuids = @ \cup ({l.uuid} \ {""})]

\* Mutant: a result may come before its call.
observeNode_NoOrder(fmt, s, n) ==
    IF fmt # "claude" \/ n.id = "" THEN s
    ELSE IF n.kind = "use" THEN [s EXCEPT !.uses = @ \cup {n.id}]
    ELSE [s EXCEPT !.results = @ \cup {n.id}]

observeNode(fmt, s, n) ==
    IF fmt # "claude" \/ n.id = "" THEN s
    ELSE CASE n.kind = "use" -> [s EXCEPT !.uses = @ \cup {n.id}]
           [] n.kind = "result" -> [s EXCEPT !.early = @ \/ n.id \notin s.uses, !.results = @ \cup {n.id}]
           [] OTHER -> s

conformanceViolations(fmt, s) ==
    (IF fmt = "claude" /\ ~s.start THEN {"session-start-missing"} ELSE {})
    \cup (IF fmt \in Formats /\ ~s.done THEN {"completion-missing"} ELSE {})
    \cup (IF fmt = "claude" /\ s.mixed THEN {"session-identity-mixed"} ELSE {})
    \cup (IF fmt = "claude" /\ s.dup THEN {"duplicate-event-id"} ELSE {})
    \cup (IF fmt = "claude" /\ (s.uses \ s.results # {} \/ s.results \ s.uses # {} \/ s.early)
            THEN {"tool-pairing-mismatch"} ELSE {})
    \cup (IF fmt = "claude" /\ s.turns >= 0 /\ s.turns < Cardinality(s.uses) THEN {"turn-count-short"} ELSE {})

----------------------------------------------------------------------------
(* Token usage: the last report of each record id; without ids the largest. *)

newUsageAccumulator == [byID |-> [k \in {} |-> 0], fallback |-> 0, seen |-> FALSE]

\* Mutant: repeated reports are added up.
usageWalk_Sum(u, l) ==
    IF l.tokens < 0 THEN u ELSE [u EXCEPT !.seen = TRUE, !.fallback = @ + l.tokens]

usageWalk(u, l) ==
    IF l.tokens < 0 THEN u
    ELSE IF l.uid # ""
    THEN [u EXCEPT !.seen = TRUE,
                   !.byID = [k \in DOMAIN @ \cup {l.uid} |-> IF k = l.uid THEN l.tokens ELSE @[k]]]
    ELSE [u EXCEPT !.seen = TRUE, !.fallback = IF l.tokens >= @ THEN l.tokens ELSE @]

usageResult(u) ==
    IF DOMAIN u.byID = {} THEN u.fallback
    ELSE SumFunctionOnSet(u.byID, DOMAIN u.byID)

----------------------------------------------------------------------------
(* The temporal rules over the event graph.                                *)

SecretRule == "secret-read-precedes-network"
ScopeRule == "out-of-scope-read-precedes-write"
InjectionRule == "suspected-injection-precedes-exec"

LooksLikeInjection(text) == text = "inject"

RuleStep(scoped, st, e) ==
    CASE e.kind = "read" /\ e.sub # "" ->
           [st EXCEPT !.secret = @ \/ e.sub \in SecretPaths,
                      !.oos = @ \/ (scoped /\ e.sub \notin ScopePaths)]
      [] e.kind = "network" /\ st.secret -> [st EXCEPT !.out = @ \cup {SecretRule}]
      [] e.kind = "write" /\ st.oos -> [st EXCEPT !.out = @ \cup {ScopeRule}]
      [] e.kind = "tool_output" /\ LooksLikeInjection(e.sub) -> [st EXCEPT !.inj = TRUE]
      [] e.kind = "exec" /\ st.inj -> [st EXCEPT !.out = @ \cup {InjectionRule}, !.inj = FALSE]
      [] OTHER -> st

NoHits == [secret |-> FALSE, oos |-> FALSE, inj |-> FALSE, out |-> {}]
EvaluateTemporalRules(events, scoped) ==
    LET after[i \in 0..Len(events)] == IF i = 0 THEN NoHits ELSE RuleStep(scoped, after[i - 1], events[i])
    IN after[Len(events)].out

ruleRequiredKinds ==
    [r \in {SecretRule, ScopeRule, InjectionRule} |->
       CASE r = SecretRule -> {"read", "network"} [] r = ScopeRule -> {"read", "write"} [] OTHER -> {"tool_output", "exec"}]

formatEventCoverage(fmt) ==
    CASE fmt = "claude" -> {"read", "write", "exec", "network", "tool_output"}
      [] fmt = "codex" -> {"exec"}
      [] fmt = "opencode" -> {"read", "write", "exec", "network"}
      [] OTHER -> {}

\* Mutant: a partly covered rule counts as enforceable.
UnenforceableRules_Claims(fmt) == {r \in DOMAIN ruleRequiredKinds : ruleRequiredKinds[r] \cap formatEventCoverage(fmt) = {}}

UnenforceableRules(fmt) == {r \in DOMAIN ruleRequiredKinds : ~(ruleRequiredKinds[r] \subseteq formatEventCoverage(fmt))}

----------------------------------------------------------------------------
(* The pass.                                                               *)

NoAcc == [json |-> FALSE, known |-> FALSE, startup |-> 0, bad |-> {}, events |-> <<>>, cmds |-> <<>>,
          conf |-> newTranscriptConformanceState, use |-> newUsageAccumulator]

TranscriptInit ==
    /\ scen \in Scenarios
    /\ hist = <<>> /\ acc = NoAcc /\ verdict = [drawn |-> FALSE, bad |-> {}, rules |-> {}]

MaxStartupLines == 3
allowedStartupNotice(fmt, l) == fmt = "codex" /\ l.notice

\* A line that is not JSON: an error after the first JSON line; before it, a
\* startup line, which only Codex may print, and only three of.
NotJSON(l) ==
    [acc EXCEPT !.startup = IF acc.json THEN @ ELSE @ + 1,
                !.bad = @ \cup (IF acc.json THEN {"malformed"}
                                ELSE IF acc.startup + 1 > MaxStartupLines \/ ~allowedStartupNotice(scen.fmt, l)
                                       THEN {"startup"} ELSE {})]

NodeStep(fmt, a, n) ==
    [a EXCEPT !.conf = observeNode(fmt, @, n),
              !.cmds = IF transcriptCommand(fmt, n) = "" THEN @ ELSE Append(@, transcriptCommand(fmt, n)),
              !.events = @ \o transcriptEvent(fmt, n)]
NodeSteps(fmt, a, nodes) ==
    LET after[i \in 0..Len(nodes)] == IF i = 0 THEN a ELSE NodeStep(fmt, after[i - 1], nodes[i])
    IN after[Len(nodes)]

JSONLine(l, nodes) ==
    NodeSteps(scen.fmt,
              [acc EXCEPT !.json = TRUE, !.known = @ \/ recognizedTranscriptEvent(scen.fmt, l),
                          !.conf = observeLine(scen.fmt, @, l), !.use = usageWalk(@, l)],
              nodes)

ReadLine ==
    /\ ~verdict.drawn /\ Len(hist) < MaxLines
    /\ \E l \in scen.lines :
         /\ hist' = Append(hist, l)
         /\ IF ~l.json THEN acc' = NotJSON(l)
            ELSE \E nodes \in {l.nodes} \cup (IF l.ordered THEN {} ELSE {Reverse(l.nodes)}) : acc' = JSONLine(l, nodes)
    /\ UNCHANGED <<scen, verdict>>

FormatViolations ==
    IF scen.fmt \notin Formats THEN {}
    ELSE IF ~acc.json THEN {"no-events"} ELSE IF ~acc.known THEN {"unrecognized"} ELSE {}

BudgetViolations ==
    (IF scen.maxTokens > 0 /\ acc.use.seen /\ usageResult(acc.use) > scen.maxTokens THEN {"max_tokens"} ELSE {})
    \cup (IF Len(acc.cmds) > scen.maxCmds THEN {"max_commands"} ELSE {})

\* Commands are matched one by one: against the classifier of destructive
\* commands, allowed.execute ("make*") and forbidden.commands ("make deploy").
CommandViolations ==
    UNION {CASE acc.cmds[i] = "rm" -> {"destructive", "outside"}
             [] acc.cmds[i] = "make deploy" -> {"forbidden"}
             [] acc.cmds[i] = "make" -> {}
             [] OTHER -> {"outside"} : i \in 1..Len(acc.cmds)}

scopedEvents ==
    [i \in 1..Len(acc.events) |-> IF acc.events[i].kind \in {"read", "write"}
                                    THEN [acc.events[i] EXCEPT !.sub = relUnderWork(@)] ELSE acc.events[i]]

\* The rules of the event graph deny, except the injection marker, which flags;
\* missing coverage and conformance deny only where the doctrine says "block".
RuleHits == EvaluateTemporalRules(scopedEvents, scen.scoped)
Advisory == UnenforceableRules(scen.fmt) \cup conformanceViolations(scen.fmt, acc.conf)
Denied == (RuleHits \ {InjectionRule}) \cup (IF scen.block THEN Advisory ELSE {})

auditTranscript ==
    /\ ~verdict.drawn
    /\ verdict' = [drawn |-> TRUE, rules |-> RuleHits \cup Advisory,
                   bad |-> acc.bad \cup FormatViolations \cup BudgetViolations \cup CommandViolations \cup Denied]
    /\ UNCHANGED <<scen, hist, acc>>

\* A transcript that cannot be read is a violation of its own.
Unreadable ==
    /\ hist = <<>> /\ ~verdict.drawn
    /\ verdict' = [drawn |-> TRUE, rules |-> {}, bad |-> {"unreadable"}]
    /\ UNCHANGED <<scen, hist, acc>>

TranscriptNext == ReadLine \/ auditTranscript \/ Unreadable

----------------------------------------------------------------------------
(* What the transcript says, read as a whole.                              *)

JSONAt == {i \in 1..Len(hist) : hist[i].json}

\* A verdict on a transcript that could be read.
Drawn == verdict.drawn /\ "unreadable" \notin verdict.bad

\* Cause and trigger of a rule, as they stand in the lines whatever the format
\* makes of them.
Cause(r, n) ==
    CASE r = SecretRule -> n.tool = "read" /\ n.sub \in {"/work/secret", "secret", "/home/key"}
      [] r = ScopeRule -> scen.scoped /\ n.tool = "read" /\ n.sub \notin {"/work/src", "src", ""}
      [] r = InjectionRule -> n.kind = "result" /\ n.sub = "inject"
Trigger(r, n) ==
    CASE r = SecretRule -> n.tool = "webfetch" \/ (n.tool = "bash" /\ n.sub = "curl")
      [] r = ScopeRule -> n.tool = "write"
      [] r = InjectionRule -> n.tool = "bash" /\ n.sub # "curl"

Precedes(r, strictly) ==
    \E i, j \in JSONAt : /\ i < j \/ (~strictly /\ i = j)
                         /\ \E k \in 1..Len(hist[i].nodes) : Cause(r, hist[i].nodes[k])
                         /\ \E k \in 1..Len(hist[j].nodes) : Trigger(r, hist[j].nodes[k])

\* Tool ids in the order of the lines; nodes of one line in the order written.
Ids(k) == [i \in 1..Len(hist) |-> {hist[i].nodes[m].id : m \in {m \in 1..Len(hist[i].nodes) : hist[i].nodes[m].kind = k}} \ {""}]
Paired ==
    /\ \A i \in JSONAt : \A d \in Ids("use")[i] : \E j \in JSONAt : d \in Ids("result")[j]
    /\ \A j \in JSONAt : \A d \in Ids("result")[j] : \E i \in JSONAt : i < j /\ d \in Ids("use")[i]

\* A rule whose cause stands in an earlier line than its trigger is reported,
\* or reported as one the format cannot support; a hit has a cause that is not
\* after its trigger.  Hits deny, but for the injection marker's, and rules the
\* format cannot support exactly where the doctrine says "block".
TemporalSound ==
    Drawn => \A r \in DOMAIN ruleRequiredKinds :
        IF r \in UnenforceableRules(scen.fmt)
        THEN r \in verdict.rules /\ (r \in verdict.bad <=> scen.block)
        ELSE /\ Precedes(r, TRUE) => r \in verdict.rules
             /\ r \in verdict.rules => Precedes(r, FALSE)
             /\ r \in verdict.bad <=> r \in verdict.rules /\ r # InjectionRule

\* What is found of the session: that no line opens it; that none closes it;
\* that lines name two sessions, or two lines one event; that fewer turns are
\* declared, by the last line that declares any, than ids were called; that a
\* call has no answer or an answer no earlier call (asked of transcripts where
\* no line holds both of one id, as their order is open).  Each is found
\* exactly then, and denies exactly where the doctrine says "block".  It is not
\* asked that the line that opens comes first or the one that closes last, nor
\* that a line names its session.
ConformanceRules ==
    {"session-start-missing", "completion-missing", "session-identity-mixed", "duplicate-event-id",
     "tool-pairing-mismatch", "turn-count-short"}
SpansLines == \A i \in JSONAt : Ids("use")[i] \cap Ids("result")[i] = {}
Declares(i) == hist[i].type = "result" /\ hist[i].turns >= 0
Called == UNION {Ids("use")[i] : i \in JSONAt}
ConformanceSound ==
    Drawn =>
      /\ "completion-missing" \in verdict.rules <=> scen.fmt \in Formats /\ \A i \in JSONAt : hist[i].type # "result"
      /\ \A c \in ConformanceRules : c \in verdict.bad <=> c \in verdict.rules /\ scen.block
      /\ scen.fmt # "claude" => verdict.rules \cap ConformanceRules \subseteq {"completion-missing"}
      /\ scen.fmt = "claude" =>
           /\ "session-start-missing" \in verdict.rules <=> \A i \in JSONAt : hist[i].type # "init"
           /\ "session-identity-mixed" \in verdict.rules <=> Cardinality({hist[i].sid : i \in JSONAt} \ {""}) > 1
           /\ "duplicate-event-id" \in verdict.rules <=>
                \E i, j \in JSONAt : i < j /\ hist[i].uuid = hist[j].uuid /\ hist[i].uuid # ""
           /\ "turn-count-short" \in verdict.rules <=>
                \E i \in JSONAt : /\ Declares(i) /\ \A j \in JSONAt : Declares(j) => j <= i
                                  /\ hist[i].turns < Cardinality(Called)
           /\ SpansLines => ("tool-pairing-mismatch" \in verdict.rules <=> ~Paired)

\* No transcript passes for an empty one: what is found of its form is that a
\* line after the first JSON line is none; that one before it is not the notice
\* of Codex, or the fourth; that nothing was JSON; that nothing in it was an
\* event of the declared format.  Each is found exactly then.
FormatSound ==
    Drawn =>
      /\ "malformed" \in verdict.bad <=> \E i, j \in 1..Len(hist) : hist[i].json /\ i < j /\ ~hist[j].json
      /\ "startup" \in verdict.bad <=>
           \E j \in 1..Len(hist) : /\ \A i \in 1..j : ~hist[i].json
                                   /\ j > MaxStartupLines \/ ~allowedStartupNotice(scen.fmt, hist[j])
      /\ "no-events" \in verdict.bad <=> scen.fmt \in Formats /\ JSONAt = {}
      /\ "unrecognized" \in verdict.bad <=>
           scen.fmt \in Formats /\ JSONAt # {} /\ \A i \in JSONAt : ~recognizedTranscriptEvent(scen.fmt, hist[i])

\* The token limit is held against the sum of the last reports of the records
\* that are named, or where none is named against the largest report.
ReportsAt == {i \in JSONAt : hist[i].tokens >= 0}
Records == {hist[i].uid : i \in ReportsAt} \ {""}
LastOf(u) == LET js == {i \in ReportsAt : hist[i].uid = u} IN hist[CHOOSE i \in js : \A j \in js : j <= i].tokens
Reported ==
    IF Records = {} THEN Max({0} \cup {hist[i].tokens : i \in ReportsAt})
    ELSE SumFunctionOnSet([u \in Records |-> LastOf(u)], Records)
UsageSound == Drawn => ("max_tokens" \in verdict.bad <=> scen.maxTokens > 0 /\ Reported > scen.maxTokens)

\* Every command of the transcript is counted once and matched: the limit on
\* commands, the classifier and the two lists find exactly what stands there.
Commands ==
    UNION {{i} \X {m \in 1..Len(hist[i].nodes) : transcriptCommand(scen.fmt, hist[i].nodes[m]) # ""} : i \in JSONAt}
Ran == {hist[c[1]].nodes[c[2]].sub : c \in Commands}
CommandSound ==
    Drawn =>
      /\ "max_commands" \in verdict.bad <=> Cardinality(Commands) > scen.maxCmds
      /\ "destructive" \in verdict.bad <=> "rm" \in Ran
      /\ "forbidden" \in verdict.bad <=> "make deploy" \in Ran
      /\ "outside" \in verdict.bad <=> Ran \ {"make", "make deploy"} # {}

TranscriptSound == TemporalSound /\ ConformanceSound /\ FormatSound /\ UsageSound /\ CommandSound
=============================================================================
