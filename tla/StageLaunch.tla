----------------------------- MODULE StageLaunch -----------------------------
(***************************************************************************)
(* One governed launch: stage.Executor.Run, the descendant-owning Scope of *)
(* internal/containment it launches in, the sandbox wrapper of             *)
(* internal/enforce between the scope and the payload, and the processes   *)
(* the payload leaves behind.  The executor is one goroutine (stPc); the   *)
(* processes, the deadline, os/exec's own watcher and the copying of the   *)
(* output are other actors and interleave with every step of it.           *)
(***************************************************************************)
EXTENDS Naturals, FiniteSets

CONSTANTS
    Kids,          \* the processes the payload may fork
    OutputLimit    \* spec.OutputLimit, in writes

ASSUME StageAssumption ==
    /\ OutputLimit \in Nat
    /\ Kids \cap {"wrap", "root", "bystander"} = {}

VARIABLES
    stSpec,   \* the stage asked for, and what the host offers
    stPc,     \* where Executor.Run stands
    scope,    \* containment.Scope
    proc,     \* every process of the launch, and a bystander of the caller's cgroup
    boot,     \* how far the child has come: "boot", "confined", "payload"
    ctx,      \* "live", "expired" (deadline, caller) or "limit" (limitCancel)
    out,      \* sharedLimitWriter
    stRes     \* the error collected so far and the StageResult

stVars == <<stSpec, stPc, scope, proc, boot, ctx, out, stRes>>

Methods == {"systemd", "cgroup", "pidns"}
Procs == {"wrap", "root", "bystander"} \cup Kids
Launched == {"wrap", "root"} \cup Kids

----------------------------------------------------------------------------
(* The stage specification: Executor.Run's checks before anything starts. *)

\* What the caller asks for.  auth: no authority at all, one that is satisfied
\* without a sandbox ("open": no roots, network allowed, credentials declared),
\* or the network policy after the fallbacks to spec.NetworkPolicy and then to
\* denied.  plan: the caller's own; "foreign": writable, or of another workspace.
StageSpec ==
    [host : SUBSET Methods, strong : BOOLEAN, authStrong : BOOLEAN,
     auth : {"none", "open", "denied", "allowed"}, handle : BOOLEAN,
     plan : {"off", "denied", "allowed", "foreign"}, sandboxed : BOOLEAN,
     envOK : BOOLEAN, capture : {"none", "bounded", "required"}]

HasAuthority(s) == s.auth # "none"
RequiresExternalEnforcement(s) == s.auth \in {"denied", "allowed"}

\* NewPlanForExecutable: Landlock, unshare, the own executable and the read
\* closure are all there; without them such a stage is refused.
PlanCompiles(s) == s.sandboxed

\* A plan the caller supplies beside an authority must agree with it.
PlanContradicts(s) ==
    /\ s.plan # "off"
    /\ \/ s.auth = "denied" /\ s.plan # "denied"
       \/ s.auth = "allowed" /\ s.plan = "denied"
       \/ s.plan = "foreign" \/ s.auth = "open"

Admitted(s) ==
    /\ s.envOK
    /\ s.authStrong => s.strong
    /\ HasAuthority(s) => s.handle /\ ~PlanContradicts(s)
    /\ RequiresExternalEnforcement(s) => PlanCompiles(s)

\* The plan that is installed: the authority's own, compiled, or the caller's.
EffectivePlan(s) ==
    IF RequiresExternalEnforcement(s) THEN s.auth ELSE IF HasAuthority(s) THEN "off" ELSE s.plan

----------------------------------------------------------------------------
\* grp: in the direct child's process group; holds: has the output pipe and a
\* handle into the workspace; in: belongs to the scope's cgroup or namespace.
NoProc == [st |-> "no", grp |-> FALSE, holds |-> FALSE, in |-> FALSE]
Newborn(in) == [st |-> "run", grp |-> TRUE, holds |-> TRUE, in |-> in]

Direct == IF scope.method = "pidns" THEN "wrap" ELSE "root"
Present(p) == proc[p].st \in {"run", "dying"}
Started == scope.pid

\* SIGKILL is delivered at once and takes effect later.
Killed(f, S) == [p \in Procs |-> IF p \in S /\ f[p].st = "run"
                                 THEN [f[p] EXCEPT !.st = "dying"] ELSE f[p]]

\* A namespace's init takes every process of the namespace with it.
WithNamespace(S) ==
    IF scope.method = "pidns" /\ "root" \in S THEN S \cup {"root"} \cup Kids ELSE S

StageInit ==
    /\ stSpec \in {s \in StageSpec : s.authStrong => HasAuthority(s)}
    /\ stPc = "check"
    /\ scope = [method |-> "none", pid |-> FALSE, cg |-> "none", init |-> FALSE, rerr |-> FALSE]
    /\ proc = [p \in Procs |-> IF p = "bystander" THEN [NoProc EXCEPT !.st = "run"]
                               ELSE NoProc]
    /\ boot = "boot" /\ ctx = "live"
    /\ out = [left |-> OutputLimit, exceeded |-> FALSE]
    /\ stRes = [path |-> "none", err |-> "none", ext |-> "none", gone |-> FALSE]

Goto(l) == stPc' = l
Fail(e) == stRes' = [stRes EXCEPT !.err = e, !.gone = FALSE] /\ Goto("returned")

\* Whether each constructor succeeds on this host: a user manager that runs a
\* probe unit, a delegated cgroup that can be created and opened, an unshare.
newSystemdUserScope(host) == "systemd" \in host
newDirectCgroupScope(host) == "cgroup" \in host
newPIDNamespaceScope(host) == "pidns" \in host

\* The strongest primitive the host offers, in this order.
NewScope(host) ==
    CASE newSystemdUserScope(host)  -> "systemd"
      [] ~newSystemdUserScope(host) /\ newDirectCgroupScope(host) -> "cgroup"
      [] ~newSystemdUserScope(host) /\ ~newDirectCgroupScope(host) /\ newPIDNamespaceScope(host) -> "pidns"
      [] OTHER -> "degraded"

\* The checks and the scope.  Of the specification only what the launch still
\* depends on is kept.
CheckAndScope ==
    /\ stPc = "check"
    /\ LET m == NewScope(stSpec.host) IN
       IF Admitted(stSpec) /\ (m = "degraded" => ~stSpec.strong)
       THEN /\ stSpec' = [stSpec EXCEPT !.plan = IF EffectivePlan(stSpec) = "off" THEN "off" ELSE "denied",
                              !.auth = IF RequiresExternalEnforcement(stSpec) THEN "denied" ELSE "none",
                              !.host = {}, !.handle = TRUE, !.authStrong = FALSE,
                              !.sandboxed = TRUE, !.strong = TRUE]
            /\ scope' = [scope EXCEPT !.method = m, !.cg = IF m = "cgroup" THEN "own" ELSE "none"]
            /\ Goto("command") /\ UNCHANGED stRes
       ELSE Fail("refused") /\ UNCHANGED <<stSpec, scope>>
    /\ UNCHANGED <<proc, boot, ctx, out>>

\* The command factory: VerifyUnchanged, or the read closure, may refuse.
FactoryFails ==
    /\ stPc = "command"
    /\ stRes' = [stRes EXCEPT !.err = "factory", !.gone = TRUE] /\ Goto("returned")
    /\ UNCHANGED <<stSpec, scope, proc, boot, ctx, out>>

\* A primitive that cannot be sealed leaves a path that cannot be executed.
StartFails ==
    /\ stPc = "command"
    /\ stRes' = [stRes EXCEPT !.err = "start", !.path = "start"] /\ Goto("extinguish")
    /\ UNCHANGED <<stSpec, scope, proc, boot, ctx, out>>

\* The direct child: unshare for a namespace, otherwise the payload's process;
\* clone puts it into a directly managed cgroup, systemd moves it there later.
Start ==
    /\ stPc = "command"
    /\ proc' = [proc EXCEPT ![Direct] = Newborn(scope.method = "cgroup")]
    /\ scope' = [scope EXCEPT !.pid = TRUE]
    /\ Goto(IF scope.method \in {"systemd", "pidns"} THEN "resolve" ELSE "select")
    /\ UNCHANGED <<stSpec, boot, ctx, out, stRes>>

----------------------------------------------------------------------------
(* The processes. *)

Env == UNCHANGED <<stSpec, stPc, scope, stRes>>

\* The systemd manager puts systemd-run's process into the scope's cgroup.
Join ==
    /\ scope.method = "systemd" /\ proc["root"].st = "run" /\ ~proc["root"].in
    /\ proc' = [proc EXCEPT !["root"].in = TRUE]
    /\ Env /\ UNCHANGED <<boot, ctx, out>>

\* unshare --fork: the namespace's init.
ForkInit ==
    /\ scope.method = "pidns" /\ proc["wrap"].st = "run" /\ proc["root"].st = "no"
    /\ proc' = [proc EXCEPT !["root"] = [Newborn(TRUE) EXCEPT !.grp = proc["wrap"].grp]]
    /\ Env /\ UNCHANGED <<boot, ctx, out>>

RootReady == proc["root"].st = "run" /\ (scope.method = "systemd" => proc["root"].in)

\* gov __sandbox_exec: read-only binds, the consumed artifacts and the Landlock
\* ruleset, and only then the payload.
Confine ==
    /\ RootReady /\ boot = "boot" /\ stSpec.plan # "off"
    /\ boot' = "confined"
    /\ Env /\ UNCHANGED <<proc, ctx, out>>

SandboxFails ==
    /\ RootReady /\ boot = "boot" /\ stSpec.plan # "off"
    /\ proc' = [proc EXCEPT !["root"].st = "dead"]
    /\ Env /\ UNCHANGED <<boot, ctx, out>>

ExecPayload ==
    /\ RootReady
    /\ IF stSpec.plan = "off" THEN boot = "boot" ELSE boot = "confined"
    /\ boot' = IF stSpec.plan = "off" THEN "bare" ELSE "payload"
    /\ Env /\ UNCHANGED <<proc, ctx, out>>

Running(p) == boot \in {"payload", "bare"} /\ proc[p].st = "run"

Fork(p, k) ==
    /\ p \in Launched \ {"wrap"} /\ Running(p) /\ proc[k].st = "no"
    /\ proc' = [proc EXCEPT ![k] = proc[p]]
    /\ Env /\ UNCHANGED <<boot, ctx, out>>

\* setsid; the leader of the process group cannot leave it.
Detach(p) ==
    /\ p \in Launched \ {Direct} /\ Running(p) /\ proc[p].grp
    /\ proc' = [proc EXCEPT ![p].grp = FALSE]
    /\ Env /\ UNCHANGED <<boot, ctx, out>>

\* Stdout and stderr closed; the working directory and every file left.
Release(p) ==
    /\ p \in Launched /\ Running(p) /\ p # "wrap"
    /\ proc' = [proc EXCEPT ![p].holds = FALSE]
    /\ Env /\ UNCHANGED <<boot, ctx, out>>

\* streamLimitWriter.Write: what exceeds the limit is cut, and cancels the
\* stage when the capture must be complete.
LimitWrite(o) == IF o.left > 0 THEN [o EXCEPT !.left = @ - 1] ELSE [o EXCEPT !.exceeded = TRUE]

Write(p) ==
    /\ p \in Launched /\ Running(p) /\ proc[p].holds /\ p # "wrap"
    /\ stSpec.capture # "none" /\ ~out.exceeded
    /\ out' = LimitWrite(out)
    /\ ctx' = IF out'.exceeded /\ stSpec.capture = "required" /\ ctx = "live" THEN "limit" ELSE ctx
    /\ Env /\ UNCHANGED <<proc, boot>>

Exit(p) ==
    /\ p \in Launched /\ proc[p].st = "run"
    /\ p = "wrap" => proc["root"].st = "dead"
    /\ p # "wrap" => Running(p)
    /\ proc' = IF WithNamespace({p}) = {p} THEN [proc EXCEPT ![p].st = "dead"]
               ELSE Killed(proc, WithNamespace({p}))
    /\ Env /\ UNCHANGED <<boot, ctx, out>>

\* A killed process dies; a namespace's init after everything in it.
Die(p) ==
    /\ proc[p].st = "dying"
    /\ scope.method = "pidns" /\ p = "root" => \A k \in Kids : ~Present(k)
    /\ proc' = [proc EXCEPT ![p].st = "dead"]
    /\ Env /\ UNCHANGED <<boot, ctx, out>>

\* The deadline of the stage, or the caller's cancellation, also after the limit
\* has cancelled the executor's own context: the command has the outer one.
Expire ==
    /\ Started /\ stPc # "returned" /\ ctx # "expired"
    /\ ctx' = "expired"
    /\ Env /\ UNCHANGED <<proc, boot, out>>

\* exec.CommandContext kills the direct child, and only it.
WatcherKills ==
    /\ ctx = "expired" /\ Started /\ proc[Direct].st = "run"
    /\ proc' = Killed(proc, WithNamespace({Direct}))
    /\ Env /\ UNCHANGED <<boot, ctx, out>>

----------------------------------------------------------------------------
(* Scope.Started: what Extinguish will act on. *)

\* Mutant: any cgroup the child is in is taken for the scope's.
ResolveCgroup_AnyPath ==
    /\ stPc = "resolve" /\ scope.method = "systemd" /\ Present("root")
    /\ scope' = [scope EXCEPT !.cg = IF proc["root"].in THEN "own" ELSE "callers"]
    /\ Goto("select") /\ UNCHANGED <<stSpec, proc, boot, ctx, out, stRes>>

\* Only a cgroup that carries the generated unit name is accepted.
ResolveCgroup ==
    /\ stPc = "resolve" /\ scope.method = "systemd" /\ Present("root") /\ proc["root"].in
    /\ scope' = [scope EXCEPT !.cg = "own"]
    /\ Goto("select") /\ UNCHANGED <<stSpec, proc, boot, ctx, out, stRes>>

\* unshare's first child; an orphan is nobody's child any more.
ResolveInit ==
    /\ stPc = "resolve" /\ scope.method = "pidns" /\ Present("wrap") /\ proc["root"].st # "no"
    /\ scope' = [scope EXCEPT !.init = TRUE]
    /\ Goto("select") /\ UNCHANGED <<stSpec, proc, boot, ctx, out, stRes>>

ResolveTimesOut ==
    /\ stPc = "resolve"
    /\ scope' = [scope EXCEPT !.rerr = TRUE]
    /\ Goto("select") /\ UNCHANGED <<stSpec, proc, boot, ctx, out, stRes>>

----------------------------------------------------------------------------
(* Waiting, and the end of the launch. *)

\* cmd.Wait: the direct child has exited and nobody holds the output pipe.
WaitOver ==
    /\ Started /\ proc[Direct].st = "dead"
    /\ \A p \in Launched : Present(p) => ~proc[p].holds

\* The copying goroutine of a capture that must be complete also ends with the
\* write it refused; the one of the other stream may go on.
WaitReady ==
    \/ WaitOver
    \/ Started /\ proc[Direct].st = "dead" /\ stSpec.capture = "required" /\ out.exceeded

\* Mutant: a cut capture is no error when the process ended first.
DoneError_IgnoresLimit == "none"

DoneError == IF stSpec.capture = "required" /\ out.exceeded THEN "limit" ELSE "none"

SelectDone ==
    /\ stPc = "select" /\ WaitReady
    /\ stRes' = [stRes EXCEPT !.path = "done", !.err = DoneError]
    /\ Goto("extinguish") /\ UNCHANGED <<stSpec, scope, proc, boot, ctx, out>>

SelectCtx ==
    /\ stPc = "select" /\ ctx # "live"
    /\ stRes' = [stRes EXCEPT !.path = "ctx", !.err = IF out.exceeded THEN "limit" ELSE "ctx"]
    /\ proc' = Killed(proc, WithNamespace({p \in Launched : proc[p].grp}))
    /\ Goto("extinguish") /\ UNCHANGED <<stSpec, scope, boot, ctx, out>>

Extinguished(e) ==
    /\ stRes' = [stRes EXCEPT !.ext = e]
    /\ Goto(IF stRes.path = "ctx" THEN "drain" ELSE "return")

CgroupOf(c) == IF c = "own" THEN {p \in Launched : proc[p].in} ELSE {"bystander"}

\* Extinguish, for the two cgroup methods: freeze, kill, wait until empty.
ExtinguishCgroup ==
    /\ stPc = "extinguish" /\ scope.method \in {"systemd", "cgroup"}
    /\ \/ scope.cg = "none" /\ scope.rerr /\ Extinguished("unresolved")
       \/ scope.cg = "none" /\ ~scope.rerr /\ Goto("scan") /\ UNCHANGED stRes
       \/ scope.cg # "none" /\ Goto("kill") /\ UNCHANGED stRes
       \/ scope.cg # "none" /\ Extinguished("freeze")
    /\ UNCHANGED <<stSpec, scope, proc, boot, ctx, out>>

KillCgroup ==
    /\ stPc = "kill"
    /\ \/ proc' = Killed(proc, CgroupOf(scope.cg)) /\ Goto("wait") /\ UNCHANGED stRes
       \/ Extinguished("kill") /\ UNCHANGED proc
    /\ UNCHANGED <<stSpec, scope, boot, ctx, out>>

\* Mutant: only the first process is looked for.
CgroupEmpty_First == ~Present("root")

CgroupEmpty == \A p \in CgroupOf(scope.cg) : ~Present(p)

WaitCgroupEmpty ==
    /\ stPc = "wait" /\ scope.method # "pidns"
    /\ \/ CgroupEmpty /\ Goto("scan") /\ UNCHANGED stRes
       \/ ~CgroupEmpty /\ Extinguished("alive")
    /\ UNCHANGED <<stSpec, scope, proc, boot, ctx, out>>

\* Extinguish for a namespace: kill its init and wait for it.  When the init
\* was never identified, the outer process being gone is taken for its end; a
\* zombie that is not reaped yet still counts as present.
ExtinguishNamespace ==
    /\ stPc = "extinguish" /\ scope.method = "pidns"
    /\ \/ ~Started /\ Goto("scan") /\ UNCHANGED <<proc, stRes>>
       \/ Started /\ ~scope.init /\ proc["wrap"].st = "dead" /\ Goto("scan") /\ UNCHANGED <<proc, stRes>>
       \/ Started /\ ~scope.init /\ Extinguished("unidentified") /\ UNCHANGED proc
       \/ scope.init /\ proc' = Killed(proc, WithNamespace({"root"})) /\ Goto("wait") /\ UNCHANGED stRes
    /\ UNCHANGED <<stSpec, scope, boot, ctx, out>>

WaitInitGone ==
    /\ stPc = "wait" /\ scope.method = "pidns"
    /\ \/ ~Present("root") /\ Goto("scan") /\ UNCHANGED stRes
       \/ Present("root") /\ Extinguished("alive")
    /\ UNCHANGED <<stSpec, scope, proc, boot, ctx, out>>

\* Mutant: only the direct child is killed.
ExtinguishDegraded_DirectOnly ==
    /\ stPc = "extinguish" /\ scope.method = "degraded"
    /\ proc' = IF Started THEN Killed(proc, {Direct}) ELSE proc
    /\ Goto("scan") /\ UNCHANGED <<stSpec, scope, boot, ctx, out, stRes>>

\* The fallback: SIGKILL to the process group.
ExtinguishDegraded ==
    /\ stPc = "extinguish" /\ scope.method = "degraded"
    /\ proc' = IF Started THEN Killed(proc, {p \in Launched : proc[p].grp}) ELSE proc
    /\ Goto("scan") /\ UNCHANGED <<stSpec, scope, boot, ctx, out, stRes>>

\* scanWorkspaceFD: the processes attributable to the scope, and only those.
Relevant(p) ==
    CASE scope.method = "degraded" -> Started /\ proc[p].grp
      [] scope.method = "pidns"    -> Started /\ (p = "wrap") = ~scope.init
      [] OTHER                     -> scope.cg = "own" /\ proc[p].in

ScanWorkspaceFD ==
    /\ stPc = "scan"
    /\ LET seen == {p \in Launched : Present(p) /\ Relevant(p)} IN
       \/ (\A p \in seen : ~proc[p].holds) /\ Extinguished("none")
       \/ (\E p \in seen : proc[p].holds) /\ Extinguished("handle")
       \/ seen # {} /\ Extinguished("unreadable")
    /\ UNCHANGED <<stSpec, scope, proc, boot, ctx, out>>

\* Mutant: the wait for the output has no deadline.
Drain_Unbounded ==
    /\ stPc = "drain" /\ WaitReady
    /\ Goto("return") /\ UNCHANGED <<stSpec, scope, proc, boot, ctx, out, stRes>>

\* After a kill, cmd.Wait gets two more seconds.
Drain ==
    /\ stPc = "drain"
    /\ \/ WaitReady /\ UNCHANGED stRes
       \/ ~WaitOver /\ stRes' = [stRes EXCEPT !.ext = IF @ = "none" THEN "noWait" ELSE @]
    /\ Goto("return") /\ UNCHANGED <<stSpec, scope, proc, boot, ctx, out>>

Return ==
    /\ stPc = "return"
    /\ stRes' = [stRes EXCEPT !.gone = (stRes.ext = "none"),
                              !.err = IF stRes.ext # "none" THEN stRes.ext ELSE @]
    /\ Goto("returned") /\ UNCHANGED <<stSpec, scope, proc, boot, ctx, out>>

----------------------------------------------------------------------------
Executor ==
    \/ CheckAndScope \/ FactoryFails \/ StartFails \/ Start
    \/ ResolveCgroup \/ ResolveInit \/ ResolveTimesOut
    \/ SelectDone \/ SelectCtx
    \/ ExtinguishCgroup \/ KillCgroup \/ WaitCgroupEmpty
    \/ ExtinguishNamespace \/ WaitInitGone \/ ExtinguishDegraded
    \/ ScanWorkspaceFD \/ Drain \/ Return

Processes ==
    \/ Join \/ ForkInit \/ Confine \/ SandboxFails \/ ExecPayload
    \/ \E p \in Launched, k \in Kids : Fork(p, k)
    \/ \E p \in Launched : Detach(p) \/ Release(p) \/ Write(p) \/ Exit(p)
    \/ \E p \in Procs : Die(p)
    \/ WatcherKills

StageNext == Executor \/ Processes \/ Expire

----------------------------------------------------------------------------
Extinct == \A p \in Launched : ~Present(p)
Reported == stPc = "returned" /\ stRes.gone

\* A stage that reports its descendants gone, in a scope that owns them and was
\* resolved, has left no process behind, neither running nor still being
\* killed, whatever it forked, detached or closed while it was extinguished.
\* The fallback promises less: whoever stayed in the process group is being
\* killed and holds nothing in the workspace.
NoSurvivor ==
    /\ Reported /\ scope.method \in {"systemd", "cgroup"} => Extinct
    /\ Reported /\ scope.method = "pidns" /\ scope.init => Extinct
    /\ Reported /\ scope.method = "degraded" =>
         \A p \in Launched : proc[p].grp => proc[p].st # "run" /\ ~(Present(p) /\ proc[p].holds)

\* The same for every scope that owns its descendants, as the comments of
\* Scope.Extinguish have it.
NoSurvivorAtAll == Reported /\ scope.method \in Methods => Extinct

\* Extinguishing a launch never kills a process that is not part of it: the
\* controller's own cgroup is not taken for the scope's while systemd has not
\* moved the child yet.
BystanderLives == proc["bystander"].st = "run"

\* A capture that had to be complete and was cut is never reported as success,
\* whether the process ended first or the cancellation was seen first.
CutIsReported ==
    stPc = "returned" /\ stSpec.capture = "required" /\ out.exceeded /\ stRes.path # "none"
        => stRes.err # "none"

\* Executor.Run returns, whatever its processes do: every wait has a deadline.
StageReturns == (stPc = "command") ~> (stPc = "returned")
=============================================================================
