# Governator: TLA+ models and proofs

Governator (`src/`, Go) supervises coding agents. A *contract* says what an
agent may do; `gov run` checks it, locks the workspace, picks a backend, asks
the policy for leave, reserves money and quota, gives the agent a worktree of
its own, makes sure the agent's processes are dead, audits and validates the
result, merges it into the live root, and books all of that in a SQLite
ledger. Any number of `gov` processes share the ledger, the live root and the
lock files; each of them can die between any two statements, and other
commands (`gov run recover`, `gov reconcile`, `gov cleanup`, `gov ask`,
`gov halt`, `gov run rollback`) pick up what is left.

That is where the models look. Each one takes a component's own code,
statement by statement where other processes can come in between, and asks
what holds in every interleaving, with every write failing and every process
dying once or more. Where a component is a function of its input (routing, the
policy engine, path patterns, schemas, write sets, plans), the function is an
operator and is compared with an independent statement of what it means over
every input of a bounded set. Parsing of documents, prompts and reports are
left out.

`PROJECT.json` has the machine-readable side: components, runs, mutants, the
map from definitions to source lines, findings, hazards and theorems.

## 1. Inventory

The source is about 44,000 lines of Go without tests, in `src/internal/*` and
`src/cmd/gov`.

| component | source | state | operations | hard because |
|---|---|---|---|---|
| workspace lock | `runtime/runtime.go` (`lock`, `isLiveLock`) | lock file: inode, flock, marker | lock, release, liveness test | three books (kernel, file system, processes); unlink; pid reuse |
| run pipeline | `runtime/runtime.go` (`runOnce`) | run row, stages, reservations, worktree, branch, live root | ~45 ordered steps, deferred releases | crash or failed write between any two |
| lifecycle | `lifecycle/lifecycle.go` | `run_stages` | `Validate`, `RecordStage` | the table and the call sites must agree |
| crash recovery, rollback | `runtime/recovery.go`, `runtime/runtime.go` (`Rollback`) | same as the run | classify, release, tear down, update | overlapping recoverers |
| maintenance outbox | `observability/outbox.go`, `runtime/reconcile.go` | queue rows, leases, applied markers | enqueue, claim, dispatch, retry, stale cleanup | leases running out under live passes |
| quota | `quota/quota.go` | windows, reservations | seed, rollover, reserve, settle, release, expire | several statements per call, shared by all runs |
| spend | `spend/*.go` | reservations, halt file, batch accountant | check, reserve, settle, release, halt | cap shared by processes, day change, late settlement |
| policy gate, `gov ask` | `runtime/policy_gate.go`, `runtime/ask.go`, `observability/policy_checkpoints.go` | checkpoints, overrides | evaluate, reserve, release, consume, approve, deny | single use among racing runs, expiry |
| circuit breaker | `breaker/breaker.go` | one row per backend | record failure/success, routing, doctor pass, reset | read-modify-write in two statements, replays |
| merge transaction | `runtime/runtime.go` (merge block), `gitplumb` | live root, index, HEAD | build commit, compare-and-swap, sync, roll back | an operator working in the same root |
| route broker, fallback | `router`, `runtime.Run` | none; reads health, quota, quality | `Resolve`, fallback loop | decides on values that are stale when used |
| containment | `containment/descendants.go` | process tree, cgroup, PID namespace | freeze, kill, wait, scan | forking descendants |
| runner, docker, stage, enforce | `runner`, `stage`, `enforce` | worktree, container, subprocess | prepare, launch, destroy | deadlines, output limits, leftovers |
| batch, repair, panel | `runtime/batch.go`, `repair.go`, `panel` | job channel, results, lineages | levels, workers, halt on quarantine | goroutines sharing channels and an accountant |
| policy engine | `policy` | none | `EvaluateLayers`, override resolution | precedence |
| execution identity, replay | `runtime/identity.go`, `identity_v2.go` | earlier runs | lookup, strict replay | which earlier approval may stand in |
| snapshots | `snapshots` | recall snapshots on disk | create, restore, prune | crash in the middle |
| tool registry, attestation | `toolregistry`, `attest` | hashes, sealed copies | open, verify, use | file changes between check and use |
| artifacts, gate, assay, contracts, config, context graph, doctor, claims, path safety, prompts, CLI | the packages of these names | little or none | parsing, predicates, reports, external processes | mostly sequential |

How they interact: `runOnce` calls the lock, breaker and router, policy gate,
spend and quota, runner, containment, validators, merge and ledger in that
order; what fails after the commit of the live root goes to the outbox
instead of failing the run; recovery and reconcile later act on the same rows.
The ledger is the only channel between processes, apart from the lock file,
the halt file and the git repository itself.

What makes each component correct, in one line:

- lock: one run per workspace; a dead holder never blocks; no one deletes
  another's lock.
- pipeline: the live root moves only after the recorded barrier and a
  confirmed extinction; APPROVED means validated and merged; a quarantined run
  leaves the root alone; nothing stays reserved after a return; an interrupted
  run ends.
- outbox: an operation that succeeded is not run again, and none is lost.
- quota, spend: admissions never exceed the limit or cap; books balance;
  reservations end.
- policy gate: an approval launches one run, and is not lost to a run that
  does not launch.
- breaker: an OPEN breaker has a way out and does get there; backoff grows.
- launch: a proof of extinction means that nothing the payload started is left;
  nobody else is killed; a cut output is reported; every launch returns.
- schedule: every job has one result, in the order of its dependencies; after
  a halt at most what was running goes on; no backend is tried twice; it ends.
- files: what is executed is what was verified; what trust rests on was earned;
  what a restore destroys can be put back; artifacts are consumed as approved.
- decisions: an audit's verdict follows from the lines whatever their order in
  a map; a replayed approval had the same inputs; rules, patterns, routes and
  schemas mean what they say.
- merge: what is reported as applied is exactly the approved change, what is
  reported as rolled back is exactly the baseline, and the operator's own work
  survives.

## 2. Modules

Modules are independent state machines over the component's own state; where
one component only matters to another through its outcome, the outcome is a
free choice there. `RunPipeline` is the composition: it runs the stage table
of `Lifecycle`, and stands on the others (lock, policy gate, spend, quota,
merge, outbox, launch, assay, replay) through the outcomes their modules show
to be possible. `Retry` stands on `RunPipeline` in the same way and asks
`Router` for a backend, `Batch` on `Retry` and on the levels of `Plan`.

**WorkspaceLock** (`runtime.go` `lock`, release closure, `isLiveLock`,
`processStartTicks`). `path`, `marker`, `holder` are the file system and the
kernel, `lpc`, `fd`, `token`, `ticks` the processes. One action per system
call; a process `Dies` at any of them, and a later one may get the same pid with
other start ticks. `leftBehind` is history: markers that stay live because
`Sync` or `Remove` failed.

**Outbox** (`observability/outbox.go`, `runtime/reconcile.go`). One row record
per operation, `applied` markers, and per reconciler the claimed rows and the
row in hand. One action per SQL statement; a lease is abstracted to whether it
has run out; the operation itself to success, error, or an effect that is
reported as an error (the breaker saves its row and fails to append the event).

**Lifecycle** (`lifecycle.go`). The stage graph, `Validate` and the latest
stage, as operators used by RunPipeline.

**RunPipeline** (`runOnce`, the deferred functions, `recovery.go`, the replay
of queued operations, `Rollback`). `pc` walks the steps of `runOnce`;
`facts` is what the process knows (launched, extinct, violation); `armed` the
deferred releases; `reached`/`latest` the stage table; `row`, `res`, `ws`,
`branch`, `work`, `root`, `outbox` what others can see. Every ledger write may
fail (`Fault`), the process may die anywhere (`Crash`). The outcomes of
routing, policy, audit, validators and assay are choices; the consequences are
the code's. `config` is what a run is started with and never changes: whether the
root is a git repository, the host is darwin, an assay is required. `work` and
`root` distinguish base, edited, partial, merged and
reverted contents.

**Quota** (`quota.go`) and **Spend** (`internal/spend`). Integer clock, one
step per statement or transaction. `Reserve` of Quota takes the time once and
then runs its statements with others in between, as the code does. Spend has
the batch accountant's critical sections as steps of their own.

**PolicyGate** (`policy_gate.go`, `ask.go`, `policy_checkpoints.go`, launch
part of `runOnce`, `fallbackEligible`). One scope, i.e. one set of rules that
ask; `scope` says whether that set is met by an ordinary run or by a fallback
attempt, whose gate runs in `fallbackEligible`; `ovr` are the override rows, `claimed`/`pend` what an evaluation holds.

**Breaker** (`breaker.go` and its callers). One backend's row. Times are
relative (`cool` left until the cooldown ends, `age` since the last update),
so that behaviours are unbounded and liveness needs no bound on the clock.
`chooser` says whether the broker routes or the contract names its backend,
which the breaker then does not keep from launching. The
shift `1 << n` is the constant function `Doubling`, constrained by an ASSUME to
be doubling, because the prover does not do exponentiation.

**LiveRoot** (merge block of `runOnce`, `rollbackLiveRoot`,
`mergeViaPlumbing`, `syncWorktreeAfterMerge`). Working tree, index, HEAD and
the operator, file by file. A file's content is who wrote it.

**RunOutcome** and **RunRefinement**. `RunOutcome` is the abstract
specification: what an operator can see of a run in five variables (is its
process alive, is there a proof, what does the live root hold, what was
decided, what does the row say) and eleven actions that say when each may
change. `RunRefinement` computes the five from RunPipeline's state and
instantiates it: `ImplementsOutcome` is the abstract specification under that
mapping. The mapping is for builds other than darwin, where a run may be
rejected although its merge is committed (`DarwinNeverMerges`).

**StageLaunch** (`stage/stage.go`, `containment/descendants.go`, the wrapper
of `enforce`). The executor is one goroutine (`stPc`); the payload and its
children, the deadline, os/exec's watcher and the copying of the output are
actors of their own. All four containment methods, from the cgroup to the
degraded one; processes fork, leave their group, and survive what is not
aimed at them. **DockerLaunch** (`runner/docker.go`, `runner.go`,
`consumed_volume.go`): the same life in a container, with the docker client
and the daemon as actors that answer late, fail, or serve a request whose
client is dead.

**Plan**, **Router**, **Batch**, **Retry** (`contracts/plan.go`, `panel.go`,
`router`, `runtime/batch.go`, `panel.go`, `repair.go`, `Run`). Validation and
levels of plans, and `Resolve`, as operators; feeder, workers, collector and
the halt of a level, a panel's quorum and timeout, and the two retry loops of
one job, as actions.

**FileWorld**, **ExecHandle**, **ToolRegistry**, **Attest**, **Recall**,
**Artifacts**, **AssayPackage** (`agents/handle.go`, `toolregistry`, `attest`,
`snapshots`, `runtime/artifacts.go`, `assay`). What the controller opens,
hashes, copies, executes and restores, one step per file operation, while
somebody renames, rewrites or deletes the same files, and other commands run
or die. `FileWorld` is the part of the file system that this depends on: paths
that name inodes, and inodes that hold bytes.

**Transcript** and **Replay** (`runtime` transcript audit and `policy` event
rules; `identity.go`, `identity_v2.go`). The four accumulators of one pass
over a backend's output; and the moments at which a run reads its
trust-bearing inputs, hashes them, and answers from an earlier approval.

**PolicyEngine**, **Patterns**, **ContainmentPolicy**, **WriteSet**,
**SchemaCheck**. Decisions that are functions, as operators, each with a
reference definition beside it (`...Sound`). Two facts of the implementation
language are kept: a literal of a rule is compared in the spelling it was
written in, and Go's map order is a choice.

`MC*` modules instantiate these for TLC. `MCLaunch`, `MCSchedule`, `MCFiles`
and `MCDecisions` put several independent components into one run: a variable
(`launcher`, `part`) says which of them a behaviour is of, the others stay in
one fixed state, so the state space is the sum of theirs and not the product.
`*Proofs` modules hold the theorems.

Reading conventions: definitions keep the Go names where TLA+ allows; a
definition called `X_Something` before `X` is a mutant of `X`, a plausible bug
that a property of a run must catch, and is used nowhere else.

## 3. Runs

All of them pass. What a comment or a document of the repository says and the
code does not keep is stated as a definition too; section 6 says with which
constants TLC refutes it.

| run | configuration | expected | properties | shows |
|---|---|---|---|---|
| workspace_lock | `MCWorkspaceLock.cfg` | pass | `LiveMarkerHasHolder`, `OnlyOwnerUnlinks` | Three processes lock and release one workspace, with I/O failures, a crash and a recycled pid at every step: a dead holder never blocks a new run and release never unlinks another process's lock. |
| outbox | `MCOutbox.cfg` | pass | `NoRedispatch`, `LostOnlyIfCut`, `LeasesEnd` | Three reconcilers race over an outbox row, with leases running out under live passes, operations that take effect, fail, or do both, kills and `gov cleanup --stale`: none is dispatched by two passes at once or again after a success, only one that failed after its effect takes effect twice, and none is lost unless a kill cut its execution short; a leased row always comes back. |
| run | `MCRun.cfg` | pass | `ApprovedIsEarned`, `NoLeakOnReturn`, `RefusedOnlyAfterDrop`, `EvidenceStays`, `ImplementsOutcome`, `InterruptedRunEnds` | A run on a git root with an assay, and one on a root without git, with two failing writes anywhere, a crash anywhere, recovery, replay of queued operations and a rollback; whatever step the process died at, recovery takes the run out of RUNNING and returns what it held. |
| quota | `MCQuota.cfg` | pass | `BooksSound`, `ReservationEnds` | Two runs reserve, settle, fail to settle, crash and are recovered, with replays, expiries, reset hints and two window rollovers in every order. |
| spend | `MCSpend.cfg` | pass | `AccountExact`, `CapHolds` | Two jobs of a batch, which share an accountant, and a third run check, reserve, work, settle, fail, crash and are recovered across midnight, with agents cheaper and dearer than the estimate, expiries, replays and an operator who halts and resumes: the cap is exceeded by no more than what agents cost beyond their estimates, and the accountant stays exact. |
| policy_gate | `MCPolicyGate.cfg` | pass | `ApprovalSurvives`, `OneLaunchPerApproval` | Three evaluations of a scope with two ASK rules, of a run or of a fallback attempt, with approvals and denials with and without --rule, expiry, failed and repeated releases and a crash: no approval launches two runs, and none is spent or kept by a run that does not launch. |
| breaker | `MCBreaker.cfg` | pass | `OpenHasAWayOut`, `BackoffGrows`, `TimedOpenCools` | Two runs at a time feed one backend's breaker for ever, with lost updates between load and save, failed statements, replays, resets, crashes and operators who insist on the backend. |
| live_root | `MCLiveRoot.cfg` | pass | `RollbackSound`, `AppliedIsApproved`, `LandingKeepsBranch` | The merge of a change set that edits, creates (one ignored file) and deletes, with a failure or a death at any step, failing rollbacks and an operator who edits and commits at any moment. |
| launch | `MCLaunch.cfg` | pass | `NoSurvivor`, `BystanderLives`, `CutIsReported`, `ContainerSound`, `LaunchReturns` | A backend or a validator is launched in every kind of scope, with every plan, and in a container: it forks, detaches, floods its output, outlives its deadline; the docker client and the daemon answer late or not at all. |
| schedule | `MCSchedule.cfg` | pass | `OneResult`, `HaltBounds`, `PanelSound`, `NoBackendTwice`, `ScheduleEnds` | Plans of all shapes run level by level over one to four workers with and without halt, panels with quorums and timeouts, and single jobs through fallbacks and repairs. |
| files | `MCFiles.cfg` | pass | `ExecutedIsVerified`, `TrustRecordsHold`, `RestoreUndoable`, `ArtifactsSound` | Backends and tools are resolved, verified and executed, tools enrolled and backends attested, roots snapshotted, reconfigured, pruned and restored, artifacts collected, assayed and consumed, while other processes replace, rewrite and remove the files at every step. |
| decisions | `MCDecisions.cfg` | pass | `TranscriptSound`, `ReplaySound`, `DecisionsAgree` | Transcripts are read line by line and judged, runs are answered from earlier approvals while inputs are edited and the root is committed to, and every decision that is a function of its input is compared with what it means over a bounded set of inputs. |

### Bounds, and why they are enough

All bounds are constants named `Max...` or `Last...` in the cfg files, and
only guard counters of things an environment may do for ever.

- *Actors.* Every race found or excluded here needs two actors on one row and
  at most a third who comes in between: three processes for the lock and the
  outbox (over one queued operation: no statement relates two rows), three
  evaluations for the gate, two runs for quota and breaker (every statement of
  theirs touches at most two runs' rows), two jobs of a batch and a third run
  for spend.
  The lock, outbox, pipeline (with its refinement), gate, breaker, spend, live
  root and process launch results are also proved for any number, those of
  batches and panels for any plans.
  A launch has a payload with one child that may fork, detach or linger (the
  child's own children are in the same classes); a batch has up to four jobs,
  which is a diamond, and one to four workers; a panel has two or three members
  and a judge, once beside a job that is no member; files have one meddler who may act between any two steps.
- *Faults, kills, crashes.* One or two: two failures reach "the operation
  failed and so did queueing it", or "a release failed and its replay was
  repeated"; a crash may hit every step.
- *Clocks.* Quota and Spend run long enough for a reservation to be made, to
  expire, and for two window rollovers (Quota) or a settlement on the day after
  (Spend); the ASSUME
  `LastStart + TTL < MaxTime` of Quota says so. Breaker has no clock bound.
- *Values.* Limits and caps admit one run and a half or two, so that the last
  unit is contended: in Spend the cap holds two estimates only after one of
  them has been settled at its lower cost, and an agent may also cost more than
  its estimate; the two jobs of the batch are interchangeable, and exchanged by
  `JobSymmetry`. Measured usage in Quota is zero or
  more than the estimate.
- *Files.* LiveRoot has one file of each kind the code treats differently:
  edited, created, created but ignored by git, deleted, tracked and not in the
  change set, untracked.
- *Runs.* The pipeline's run is one with a git root and an assay and one with
  neither; no darwin build (the refinement is not for it, the theorems of
  RunPipelineProofs cover it).
- *Functions.* Plans of every shape the validator tells apart (chain, diamond,
  wide, backwards, cycle, self loop, unknown dependency, orphan input, too
  dear, malformed); patterns of up to three symbols against names of up to
  four, which is one `**` between two other symbols; two fingerprints of two or
  three paths, which is a rename with a rival on either side; transcripts of
  four lines, which is an effect, its cause, a command too many and a bad line.

Deadlock checking is off in every run: these are command-line processes that
end, and rows that come to rest.

### Fairness

- `RunPipeline!FairSpec`: the process goes on unless it dies; `gov run
  recover` and `gov reconcile` are invoked again (they are operator or cron
  commands, and the documents tell the operator to).
- `Outbox!FairSpec`: the same for reconcilers, and leases that nobody works on
  run out. `LeasesEnd` is conditional: if passes outlive their own leases only
  finitely often (a lease is 5 minutes, and two passes that keep overtaking
  each other need every dispatch to take longer), every row gets out of
  `processing`. Without the condition it does not hold, and nothing in the code
  promises it.
- `Quota!FairSpec`: time passes, and some process makes a reservation now and
  then (`ExpireStale` is the first statement of each).
- `MCLaunch!MCSpec`: the executor and the controller go on and deadlines
  expire. Processes, the docker client and the daemon are under no fairness:
  `LaunchReturns` must not rest on them. That deadlines expire supposes that
  there is one: a stage without a `Timeout` has none (`stage.go:341`; the callers
  set it), and the `docker rm` and `docker volume rm` commands of the consumed
  volume, which run without a deadline (`docker_consumed_volume.go:122, 129,
  157`), are steps that end.
- `MCSchedule!MCSpec`: the feeder, the collector and every worker go on; a run
  is one step and returns (that is `InterruptedRunEnds` and `LaunchReturns`).
- `Breaker!FairSpec`: time passes; nothing else, so the run shows that no
  traffic the broker routes keeps a timed breaker shut.

## 4. What is proved

The proofs are for every value of the constants under the named ASSUMEs, which
say no more than that bounds are naturals, configuration flags are Boolean,
sentinels are not members of the sets they extend, contents of files are
positive numbers (0 is no file, and file identifiers are numbers), jobs are
numbers with finitely many in a plan (Batch), a finite registry does not have
the name that stands for no agent (Router), nodes and lines of a transcript are
what the parser makes of them (Transcript), and (Breaker) that `Doubling` doubles
and durations are positive. TLC checks the assumptions on
every run.

| theorem | module | property | establishes |
|---|---|---|---|
| `LockInvariance` | WorkspaceProofs |  | Flocks, markers and program counters agree in every reachable state, for any number of processes, inodes, calls and crashes. |
| `CrashNeverBlocks` | WorkspaceProofs | `LiveMarkerHasHolder` | A live marker at the lock path belongs to a process inside the lock (or was left behind by a failed Sync or Remove): a crash never blocks later runs. |
| `UnlinkByOwner` | WorkspaceProofs | `OnlyOwnerUnlinks` | The lock path is only unlinked by the process whose marker and flock are on it. |
| `NoDoubleDispatch` | WorkspaceProofs | `NoRedispatch` | For any number of reconcilers and rows, no operation is dispatched by two passes at once or again after a dispatch that reported success, and one takes effect twice only if a dispatch of it took effect and returned an error: the applied marker excludes the rest even when leases overlap. |
| `OutboxInvariance` | WorkspaceProofs |  | Every applied marker under execution has exactly one executor and no earlier reported success, a success keeps its marker, and every effect was reported as a success or as an error; earlier effects that were reported as errors are not excluded. |
| `LossNeedsAKill` | WorkspaceProofs | `LostOnlyIfCut` | For any number of reconcilers, rows, attempts and kills: a row leaves the queue without its effect only if some reconciler was killed while it executed that row. |
| `PipelineInvariance` | RunPipelineProofs |  | The inductive invariant: what the process has established at every step, what its verdict, the row and a queued update of the row stand for; for every configuration, number of recoverers and number of failing writes. |
| `TypeCorrectness` | RunPipelineProofs |  | Every variable of the run keeps its type. |
| `BarrierBeforeRoot` | RunPipelineProofs |  | The live root never moves before the recorded final barrier and merge intent and the confirmed extinction of the agent. |
| `ApprovalIsEarned` | RunPipelineProofs | `ApprovedIsEarned` | An APPROVED row, written by the run or by a replay, stands for validated work on the live root. |
| `QuarantineIsHarmless` | RunPipelineProofs |  | A run that quarantines itself leaves the live root as it found it, unless its rollback failed. |
| `RunInvariance` | RunPipelineProofs |  | The second inductive invariant: what is still due for release, what keeps the evidence branch, and which stage is the latest at each step as long as no stage write was dropped. |
| `NothingLeaks` | RunPipelineProofs | `NoLeakOnReturn` | A returned run holds no reservation and no worktree that was not handed to the outbox, whatever failed, but for the quota window before its checkpoint and a policy gate that failed. |
| `EvidenceIsKept` | RunPipelineProofs | `EvidenceStays` | Once a quarantined run has settled its spend, its evidence branch outlives its teardown, recovery and every replay. |
| `TableFitsTheRun` | RunPipelineProofs | `RefusedOnlyAfterDrop` | Every stage a call site of runOnce records is accepted by the transition table there, unless an earlier best-effort stage write was dropped. |
| `RunImplementsOutcome` | RunPipelineProofs | `ImplementsOutcome` | On every build but darwin, runOnce with crash recovery, reconcile and rollback implements the abstract specification RunOutcome, for any number of recoverers and failing writes. |
| `CommitIsFinal` | RunPipelineProofs |  | After the commit of the root only gov run rollback of an APPROVED run moves it. |
| `BooksInvariance` | QuotaProofs |  | The inductive invariant of the quota ledger, for any number of runs, any windows, limits, time to live and clock: types, the books, and who may not have booked yet. |
| `BooksAreSound` | QuotaProofs | `BooksSound` | A window never holds headroom for a reservation that is closed, in whatever order settlements, releases, expiries, recoveries, replays and rollovers come, and until its first rollover its two columns are exact. |
| `AccountIsExact` | SpendProofs | `AccountExact` | For every batch and every interleaving of its workers the accountant's pending is the estimates of the jobs in flight, and its spent is the total it started from plus what the returned jobs recorded. |
| `CapIsKept` | SpendProofs | `CapHolds` | For any number of processes, any cap, estimate, costs, time to live and clock, what is reserved on a day, and what was really spent on a day whose reservations were not let go under a working agent, each exceed the cap by no more than what the agents concerned cost beyond their estimates; no assumption is made about the costs. |
| `ApprovalsAreSingleUse` | DecisionProofs | `OneLaunchPerApproval` | One approval never takes two runs across the execution boundary, with any number of runs, expiries, repeated releases, failures and crashes. |
| `ApprovalsAreSpentToCross` | DecisionProofs |  | An approval is consumed only together with a run crossing the execution boundary. |
| `ApprovalsSurvive` | DecisionProofs | `ApprovalSurvives` | Without failures no reservation is left behind once every evaluation has returned. |
| `TypeCorrectness` | DecisionProofs |  | The tables and every process keep their types. |
| `TypeCorrectness` | AgentProofs |  | The breaker's variables keep their types for any number of runs and any cooldowns; HALF_OPEN is never persisted. |
| `EveryOpenHasAWayOut` | AgentProofs | `OpenHasAWayOut` | Whatever feedbacks, lost updates, failed statements, replays and resets do, an OPEN breaker has a cooldown exactly if its kind is not doctor-gated. |
| `BackoffAlwaysGrows` | AgentProofs | `BackoffGrows` | For every base, cap and clamp, a rate-limit failure never opens with an elapsed cooldown and never shortens the one that is running in the same episode. |
| `MergeInvariance` | WorkspaceProofs |  | The inductive invariant of the merge: what the branch holds around the compare-and-swap, what an undisturbed merge has written at each step, what git reset --hard has settled. |
| `RollbackIsSound` | WorkspaceProofs | `RollbackSound` | For any repository, change set, ignore rules, number of failures and operator's edits: a rollback that reports success has restored files, index and branch, and one left alone undoes what any one failed step left behind. |
| `AppliedTreeIsApproved` | WorkspaceProofs | `AppliedIsApproved` | When the merge is applied and the operator stayed away, branch, index and working tree are the approved tree. |
| `LandingNeverDrops` | WorkspaceProofs | `LandingKeepsBranch` | Landing the merge only ever adds to the branch. |
| `LaunchInvariance` | AgentProofs |  | The inductive invariant of a governed launch: which processes exist and belong to the scope, where the executor stands, and what the processes are once it claims something of them. |
| `DockerInvariance` | AgentProofs |  | DockerInv is inductive: one create request per launch, what each reported answer rests on (hardened: the configuration applied to whichever container has the name; without an error: this launch's container), and that a container of a launch cannot start once its worktree is gone. |
| `ContainersAreSound` | AgentProofs | `ContainerSound` | Whatever the daemon, the client and stale containers do, hardened is reported only of a container whose applied configuration is the declared one, a launch without an error is vouched for by its own container alone, a container reported gone, with no request of it outstanding, is gone, and neither a running container without its worktree nor a volume is left behind unless a removal failed. A launch that fails may be vouched for by a stale container (HardenedIsOwn, README, section 6). |
| `NobodySurvives` | AgentProofs | `NoSurvivor` | For any number of processes that fork, detach and release, a launch that reports its descendants gone has left none behind in a scope that owns them; the fallback has killed the process group. |
| `BystanderIsSpared` | AgentProofs | `BystanderLives` | Extinguishing a launch never signals a process that is not part of it. |
| `CutIsNoSuccess` | AgentProofs | `CutIsReported` | For any output limit, a capture that had to be complete and was cut is never reported as success. |
| `RetryInvariance` | AgentProofs |  | RetryInv is inductive: what failed is out of the candidates, what was launched failed or is the last attempt's, and the launches and repairs are counted. |
| `BackendsAreTriedOnce` | AgentProofs | `NoBackendTwice` | Within one Run no backend is launched twice nor outside the contract's candidates, and fallbacks and repairs keep their bounds, for any registry, allowlists and bounds. |
| `BatchInvariance` | AgentProofs |  | BatchInv is inductive: every job is in a level to come, in the channel, in one worker's hands or in the results, and a panel's books are those of its members. |
| `EveryJobHasOneResult` | AgentProofs | `OneResult` | No job is reported twice, a batch that ends has reported every job once, and the levels it started from put each job after what it depends on, for any plans, panels and parallelism. |
| `HaltIsBounded` | AgentProofs | `HaltBounds` | With halt-on-first-quarantine fewer jobs than the batch has workers are launched after the first quarantine is known, in all levels together. |
| `PanelsAreSound` | AgentProofs | `PanelSound` | A comparison consumes what approved members produced; where the first level is the panel's members it compares at least two, and only a panel with its quorum and its diversity is not degraded. |
| `FilesInvariance` | FileProofs |  | The inductive invariants of the six parts of run files: how far each verification has got and what may have disturbed it, what a restore has saved of the roots configured when its own snapshot began, what each artifact's hash stands for. |
| `ExecutedAreVerified` | FileProofs | `ExecutedIsVerified` | For any contents and any number of changes by others, a backend or a registered tool that is executed is the one that was verified, unless it was changed in the window the code leaves open between the check and the launch. |
| `TrustIsEarned` | FileProofs | `TrustRecordsHold` | For any number of enrolling processes and tools no enrollment is lost, and an attestation is honoured only if it is the newest one of this executable, place and configuration, passed, and has not expired. |
| `RestoresAreUndoable` | FileProofs | `RestoreUndoable` | For any snapshots, edits, changes of the configured roots, prunings and deaths, what recall restore has overwritten or deleted so far, through links too, is held as it was by a listed snapshot, if it was under a root configured when the pre-restore snapshot began, and unless it could not be copied or somebody edited or pruned it. Under a root dropped since the restored snapshot nothing is promised (ExactRestoreRecoverable, README, section 6). |
| `ArtifactsAreSound` | FileProofs | `ArtifactsSound` | For any payloads and any number of changes to the store, the work tree, a staged copy and the assayer's checkout, what a run consumes is what an approved run recorded, and what is approved under blocking assay passed, but for changes undone in between. |
| `TranscriptInvariance` | DecisionProofs |  | PassInv is inductive: each accumulator of the one pass (events, commands, session, tool calls and answers, token reports, lines that are no JSON) holds what the lines read so far say, by position, for any lines of any number, nodes and limits. |
| `TranscriptsAreSound` | DecisionProofs | `TranscriptSound` | For any readable transcript, auditTranscript finds exactly what stands in its lines: the malformed and startup lines, an unknown form, the number of commands over the limit, each command outside the lists, tokens over the limit by the last reports, and of the session that it is not opened, not closed, mixed, has an event twice or too few turns, or a call and its answer that do not pair (where no line holds both). A temporal rule hits if its cause is in an earlier line than its trigger and only if it is not in a later one, and what is found denies or flags as the doctrine says. Not covered: what makes a command destructive, the order of the opening and closing lines, the order of nodes within a line. |
| `WinnersAreSound` | DecisionProofs |  | For any backends and any job, the route takes a runnable candidate that no runnable candidate beats, in score, then cost, then name, and the weights stay a distribution. |
| `ContainmentIsSound` | DecisionProofs |  | For any contract, configuration and key, more risk or authority never asks for less containment, and a run is let through only if it needs none, has it, or somebody signed for it as it stands. |
| `WriteSetsAreSound` | DecisionProofs |  | For any two trees, however their inodes coincide and in whichever order the maps are walked, every path that differs is in exactly one effect and every other in none. |
| `GlobsAreSound` | DecisionProofs |  | For any pattern and any name, a literal matches itself only, a star stays in its component unless it is doubled, and what a path pattern matches the command pattern of the same symbols matches too. |
| `WithinIsSound` | DecisionProofs |  | For any intended pattern and any set of relative allowed ones, what is within the allowed ones matches no name that they do not match, but for the two shapes the README describes. |
| `PreflightIsSound` | DecisionProofs |  | For any contract, preflight lets through no destructive command, no write outside the allowed ones, and nothing large or boundless that nobody scouted or approved. |
| `GatesAreSound` | DecisionProofs |  | For any rules in three layers, any overrides and any facts, the verdict is the strongest of what the firing rules say once each override is applied to the very rule it names; a DENY gives way to none, and an override is used up only by a question it answered. |
| `ReplayInvariance` | DecisionProofs |  | ReplayInv is inductive: a row's identity says what its run observed and whether anything was hidden, and a row that is or will be approved has the head it made unless somebody raced it. |
| `AnswersAreSound` | DecisionProofs | `ReplaySound` | For any inputs, edits, commits and number of runs, an answer from the table is a standing approval of a run with exactly the same inputs at the commit it left. |

The arguments:

- *WorkspaceLock.* `LockInv` is inductive: files agree (a linked inode was
  allocated), flocks agree (who is past `flock` holds the inode he has open,
  and one process holds an inode), tokens are unique and not larger than the
  call counter, markers agree (a marker's token belongs to who wrote it), and
  releases agree (who is about to unlink has his flock on the path's inode).
  The last part is what `OnlyOwnerUnlinks` needs and what a first attempt
  without it lacks: reading the token and unlinking are two steps, and only
  the flock on the inode at the path keeps others from replacing it in between.
- *Outbox.* `OutboxInv` says that a marker under execution has one executor and
  no reported success behind it, that a success keeps its marker, and that every
  effect was reported, as a success or as an error. `NoRedispatch` alone is not
  inductive, since it does not say who may still act. That no operation takes
  effect twice is not claimed: it is false of one that fails after its effect
  (`AtMostOnce`, section 6).
- *RunPipeline.* Only the process itself writes `facts` and `verdict`, so the
  invariant can say for each `pc` what has been established (`StepFacts`,
  `StepRoot`), and what the verdict, the row, and a queued update of the row
  stand for (`VerdictInv`, `RowInv`). A queued update matters: reconcile may
  write APPROVED long after the process is gone.
- *RunRefinement.* `RunImplementsOutcome` is a simulation step by step: each
  action of the run, of recovery, reconcile and rollback is one action of
  RunOutcome or is not seen. `PipelineInv` is not enough for it. `SeenInv`
  adds whose turn it is to write the row (before the insert there is none,
  until the update it says RUNNING, nobody recovers a living run), that the
  barrier is never a queued stage, what a queued row update still stands for
  (an update to APPROVED is replayed at most while the row is not yet
  APPROVED, hence never after a rollback), and that a failed rollback and a
  committed root exclude each other. Assumption: no configuration is darwin.
- *PolicyGate.* `GateInv` ties each launched run to the overrides it consumed
  (`CrossedIsSpent`), and says that what a run is about to consume is still
  what it reserved (`HeldIsPending`); reservations carry no owner in the
  table, so ownership has to be followed through the processes.
- *Breaker.* A row is saved from one that may have been overwritten since it
  was loaded. The invariant therefore speaks of rows in flight too: whatever is
  stored or about to be is `Sound`. `BackoffAlwaysGrows` rests on lemmas about
  `Backoff` (range, monotonicity up to the shift clamp).
- *RunPipeline, what is given back and what is kept.* Three more invariants,
  each with a frame lemma for the steps that do not concern it. `LeakInv` says
  of every reservation, one-shot approval and worktree that it is released, or
  that a deferred release of it is armed, or that an operation which releases it
  is queued, or that a failed queueing has been reported. `EvidenceInv` orders
  the end of a run: without a committed root the settlement of the spend
  reservation is the last word, after which no step, no recoverer and no queued
  operation takes the branch of a quarantined run. `StageInv` follows the stages
  a run has dropped, since only those can be refused. `EvidenceStays` is about
  every build but darwin: there a run may be rejected although its root is
  committed, and reconcile then destroys the worktree with its branch.
- *LiveRoot.* `MergeInv` says what the branch holds before the compare-and-swap
  and after `reset --hard`, for any edits of the operator (`BranchGrows`,
  `ResetHolds`), and what an undisturbed merge has written so far at each step
  of copying, removing and cleaning (`CopiedSoFar`, `CleanedSoFar`); the paths
  still to do are part of it, since a failure between two files is what the
  rollback has to undo.
- *Outbox, losses.* `LossInv` follows an operation whose effect is missing from
  the marker that makes the next executor skip it back to the kill between the
  two (`MarkerBacked`, `SkipIsOwed`).
- *Sums.* The accounts of Spend and Quota are sums over any finite set of runs,
  and facts about a sum over a finite set need induction. The library's
  induction rules cannot be instantiated here, so the lemmas of module Sums (one
  term changes, one member is added, each term grows) are proved by a smallest
  counterexample: the sizes of the sets that violate the lemma have a least
  element, and removing one member yields a smaller one.
- *Spend.* `Books` is the
  exactness of the accountant with the time its jobs start. For the cap,
  `Within` bounds every day's sum and is not inductive without `Covered`: a
  settlement replayed from the outbox must find at most what its reservation
  still weighs. The cap weighs the estimate and the settlement records the cost,
  so a run may cost what nobody weighed: `CapHolds` counts of each
  cost only what was foreseen of it, up to the estimate, and `CapIsKept` needs no
  assumption on costs. `Covering` compares what a row weighs in the sum of the
  next check with what was foreseen of its cost.
- *Quota.* `BooksSound` needs to know who may still book and into which window:
  `Order` says that whoever has not booked has no reservation, and that nobody
  gets past seeding before the configured windows exist, so a reservation always
  counts in every window it is released from. One lemma, `ClosingKeeps`, stands
  for settlement, release, expiry and recovery alike: an open reservation is
  closed and each window gives back at most what is reserved in it. A rollover
  makes a window late, and from then on only the inequality is left of its books.
- *StageLaunch.* The processes act between any two steps of the executor, so
  the proof separates them. `Evolves` is all that any step of theirs may do to a
  process: it ages (stops running, leaves its group, lets go of its files, never
  leaves its cgroup), or is a copy of a running one, or is a namespace's init.
  `Family` says that whoever exists belongs to the cgroup from the time the
  payload can fork, `Namespace` that an init dies after everybody else in it,
  `Course` what the executor has resolved at each step. `Promises` then holds
  from the scan on: `Extinct` is stable, since nothing is born of processes that
  do not run. The names of the direct children are assumed to differ from those
  of the forked ones.
- *Retry.* That no backend is launched twice rests on what the next attempt may
  choose from: `Candidates` says that the allowlist of the current run stands
  for the contract's candidates without those that failed (an empty list would
  mean every backend), and that what was launched has failed by the time the
  loop goes round. `Counted` ties launches and repairs to the attempt.
- *Batch.* `Accounted` says where each job is: in exactly one of the levels to
  come, the channel, one worker's hands (`Owned`) and the results. For the halt
  (`Halting`), the launches that came late and the workers that have passed the
  check and not launched yet are together fewer than the workers, from the first
  quarantine on: the worker that brought the news is not among them, and the
  level's switch stays set as long as anybody of the level works. A later level
  starts none, since the quarantined result is among those `CloseLevel` reads.
  `PanelInv` keeps a panel's books while its members take turns: who succeeded
  is who is recorded as approved. That `TopologicalLevels` partitions a plan and
  respects its dependencies (`LevelsOfPlan`) is a fact about a recursive
  function, proved by the smallest level at which it would fail
  (`LeastNumber`).
- *Replay.* `RowSound` follows each row from its insert: its identity is that of
  the view it keeps, and once it is approved, or waits for reconcile with the
  payload of the moment, its head is the commit it made unless somebody moved
  HEAD meanwhile. An answer is one of these rows; two eligible views of one
  identity hide nothing, so they agree in every input.
- *DockerLaunch.* `OneRequest` says that a launch sends one create request, by a
  client that is told to stop before the run ends, so that a container of this
  launch is the answer to it and cannot come twice; `Answers`, what the reported
  result rests on (gone only after the proof; hardened only of a container whose
  applied configuration is the declared one, and of this launch's when the launch
  ended without an error); `Outlived`, that once the worktree is gone no container of this
  launch can start any more, whatever the daemon still has queued; `Volume`, who
  still holds the consumed volume when no removal has failed.
- *Transcript.* The audit is one pass with four accumulators, and what it must
  say is about pairs of lines. `PassInv` gives every collected event the line it
  came from, in order and with none missing (`EventsIn`), and says of the
  session, the calls and their answers, and the token counts what they are of
  the lines read so far (`SessionIn`, `CommandsIn`, `CallsIn`, `UsageIn`). The order of nodes
  within a line is open, so the lemmas about one line hold of any order of it
  (`AnyOrder`). What remains at the end is that the scan over the events hits a
  rule exactly when its two events came in that order, and that the sum over
  record ids is the total (Sums). Scans over positions are recursive functions;
  that they have a solution is `IterationExists`, and what holds of all
  positions is proved by `UpTo`.
- *Decisions.* `WinnersAreSound` rests on seven weights that stay a distribution
  (`AdjustedWeights`) and on the total order of score, cost and name
  (`BestExists`). `WriteSetsAreSound` needs of Go's map walks only that each
  created path is tried once: whatever the order, `RenamesFit` pairs paths one to
  one, so what is left is created or deleted and nothing else.
  A pattern is matched by the positions each of its prefixes can end at (`Ends`).
  `GlobsAreSound` follows the positions: the slashes before each are those of the
  pattern so far (`SlashesAgree`), a letter forces its symbol (`LettersForced`),
  and a position reached with separators is reached without (`SeparatorsHinder`).
  `WithinIsSound` then needs only that letters before the first wildcard are the
  name's own (`BelowDirectory`), and `PreflightIsSound` that nothing else gets a
  contract through. Both suppose of the allowed patterns that they are `Tidy`:
  relative, which `validatePathPatterns` demands, and without an empty component,
  which it does not (section 6).
  `GatesAreSound` follows the results through the loops of the engine: what a loop
  keeps has the members it is meant to have, in their order (`KeptIs`, `JoinIs`),
  the strongest verdict so far is one of those seen and none was stronger
  (`StrongestIs`), and what an override makes of a rule's question is what
  `Effective` reads off the rules themselves (`SettledVerdict`). It supposes of
  the rules that they have an id, which `Validate` demands (`GateInput`).
- *Files.* The six parts of run files have no state in common, so each has an
  invariant of its own and the steps of one leave the others alone. They share
  a pattern: a verification establishes something at each of its steps unless
  somebody interfered since, and the invariant says what. `Verified` says it of
  a backend's handle and its frozen closure, `HeldIsEnrolled` of a registered
  tool's descriptor and private copy, `RunSound` of an artifact (what the stored
  file, the payload and the verdict say of the recorded hash, and how many
  changes it took to say otherwise), `Packing` of the assayer's checkout.
  `OneWriter` lets one enrollment at a time be between the read and the rename of
  the registry. `Probed` keeps what the probes found for the executable that is
  held. A restore (`Restoring`) touches nothing before its own snapshot is
  listed; until then every file up to the one it is at is stored, or recorded as
  skipped or edited, and no other command writes into that snapshot. The largest
  element of a set, by which snapshots, rows and runs are chosen, needs a lemma
  (`MaxIs`), again by a smallest counterexample.

Only model-checked:

- `DecisionsAgree` (run decisions): MCDecisions reaches the recursive walk of
  schemas, and a module that reaches a RECURSIVE operator has no SMT backend.
  Six of its parts are theorems of their own, for every input and not only the
  ones the run asks about: routes, containment, write sets, patterns, preflight
  and the verdict of the layers. What is left to the run alone is the schemas,
  and what a single condition means (`RuleSound`), which is about a finite table
  of literals that the run goes through completely;
- liveness under fairness, which the prover cannot do: `LeasesEnd`,
  `InterruptedRunEnds`, `ReservationEnds`, `TimedOpenCools`, `LaunchReturns`,
  `ScheduleEnds`.

## 5. Not modelled, and left out of models

`PROJECT.json` "components" gives the reason for each part. What is left is
code without a state of its own: the contract parser and compiler, the
configuration, `gov gate` (one decision about one tool call, most of it
parsing of a hook's payload), the doctor, prompts, claims and the release gate
(checks of the repository's own documents), the ledger's schema and migrations,
the read-only half of the command line, the calls to an external indexer.

Inside the modelled parts: the lock's time stamp, which counts only where start
ticks cannot be read; symlink resolution of the lock path; corrupt rows
(quota's `scanWindow` checks, unparsable times); the price table; audit texts
and events that nothing reads; git session set-up, object hashing and quoting;
the kernel's rulesets behind a sandbox plan; the adapters' output formats below
what Transcript tells apart; scope-expansion phrases and the cost field of a
transcript; numbers with fractions and nested patterns of schemas; the content
of rules, contracts, prompts and reports.

## 6. Divergences

What the code does and a document, a comment or a reader of the code would not
expect. First the ones that are only described.

- `runtime.go` (4203): the comment at the last of the four verifications of
  consumed artifacts says that it runs after the assay; the assay runs after it.
- `runtime.go` (1112): `enforceContainment` does not close the resolved handle
  when the policy refuses it, while `agents/handle.go` asks every caller to
  close it exactly once.
- `contracts` docs (`docs/contracts.md:153`) and `artifacts.go`: a schema with
  `additionalProperties: false` but no `properties` does not refuse anything; a
  `type` that is a list accepts every value (`schemaTypeMatches`). An empty
  `enum` refuses everything (574-585); and a schema with both `properties` and
  `items` never checks the elements of an array, since a value that is no object
  ends the validation at its properties (606-609). `SchemaSound` says what is
  checked, not what JSON Schema would check.
- transcripts: a closing line before the opening one, or two of either, are not
  noticed by conformance, and lines without a session id count to any session.
- `policy` conditions: `"TRUE"`, `"1"` for a Boolean and `"1.0"` for a number
  load and never match, since a fact is printed in one spelling; `matches_any`
  is always refused, because no fact is a list.
- path patterns: `a*`, and the literal `a`, count as within `a/**`; so does
  `a/b` within `a//**`, which matches no file, so that preflight lets through
  what the audit of the changes then refuses.
- `Effectful`'s comment lists a requirement to deny the network; the code does
  not look at it. At high risk, `most_reliable` gives cost no weight, so a tie
  is broken by name and not by cost.
- the coverage table of event formats lists only commands for Codex, whose
  parser yields network events too; a second result for one tool call is not
  flagged; the children of a JSON object are visited in map order.
- repairs: the bound of two (`repair.go:14-17`, `EffectiveMaxAttempts`) is held
  against the rows of the lineage before each repair; one repair may fall back
  from backend to backend and leave a row for each, so a lineage can have
  `fixMax - 1 + max_attempts` of them, which is what `NoBackendTwice` states.
- recall: a copy that failed halfway is stored, and a restore puts it back; what
  is under a root that is no longer configured is restored over unsaved
  (`RestoreUndoable` excludes it, see `ExactRestoreRecoverable` below).
- attestation probes run the backend by its path after it was hashed; assay
  payloads are read before the check that precedes the evaluation.
- replay: the content of a root without git is not part of the identity; the
  head that is recorded as approved is read again after the merge and may be
  someone else's commit.
- write sets: a reused inode may be reported as a rename, an unreadable file as
  deleted.
- spend: a run that costs more than its estimate takes the day over its cap,
  since the check weighs estimates and the settlement records the cost
  (`CapHolds` allows for that excess and no other).
- on darwin a run whose merge of the root succeeded may be rejected and its
  branch destroyed by a later reconcile (`EvidenceStays` excludes it).
- rollback reads the row's status before it takes the lock; a stage event that
  fails after the commit leaves MERGED_LEDGER_PENDING with no queued update of
  the row.


Each entry names a definition that states what the repository says, the module
it can be checked in and the configuration that refutes it: a `.cfg` with these
constants and that definition as its only property makes TLC print the
behaviour.

- **`Exclusive`** (`src/internal/runtime/runtime.go:426`; module MCWorkspaceLock, LockSpec, `Procs = {p1, p2}, Inodes = {i1, i2, i3}, NoInode = NoInode, NoProc = NoProc, NoMarker = NoMarker, MaxCalls = 4, MaxCrashes = 0`). release() unlinks the lock file before it gives the flock back, and lock() never checks that the inode it flocked is still the one at the path; a process that opened the file before the unlink then holds the orphaned inode's flock while another creates and flocks a new file, and both lock() calls return nil. src/internal/runtime/repair.go:22 says: "Run holds an exclusive per-workspace lock for its own duration".
- **`DoneMeansExecuted`** (`src/internal/runtime/reconcile.go:245`; module Outbox, FairSpec, `Items = {i1, i2}, Reconcilers = {r1, r2}, None = None, MaxAttempts = 1, MaxKills = 1`). Reconcile marks a row done as soon as its applied marker exists, but the marker is inserted before the operation runs (reconcile.go:241, outbox.go:195): a reconciler that dies in between leaves the marker, the next pass writes done and the operation never runs. src/internal/observability/outbox.go:36-37 says of done: "the operation eventually succeeded", and reconcile.go:212-215 calls such a row one "whose operation was already executed".
- **`AtMostOnce`** (`src/internal/breaker/breaker.go:290`; module Outbox, FairSpec, `Items = {i1, i2}, Reconcilers = {r1, r2}, None = None, MaxAttempts = 1, MaxKills = 1`). breaker.RecordFailure saves the row (275) and then returns the error of its audit event (290), as RecordSuccess does (240, 251); reconcile takes the error for a failure without effect, releases the applied marker and retries, and the failure counts twice. The marker is inserted before the operation and deleted after it, each in a statement of its own, while docs/security.md:332 says: "Each non-idempotent op kind additionally carries a durable applied-marker written in the same transaction as its effect".
- **`DeadOnlyFromPending`** (`src/internal/observability/outbox.go:239`; module Outbox, OutboxSpec, `Items = {i1}, Reconcilers = {r1, r2}, None = None, MaxAttempts = 1, MaxKills = 0`). CleanupStale selects pending rows and then marks each one dead by id alone; a row that a reconciler leased (or finished) in between is killed too. src/internal/observability/outbox.go:145-147: "A row currently leased ("processing") is never stale by this definition even if its attempts count is high"; reconcile.go:431: CleanupStale "terminalizes ("dead") every pending outbox row".
- **`RecoveryFailsClosed`** (`src/internal/runtime/recovery.go:26`; module RunRefinement, Spec, `Configs = {{"git"}}, Recoverers = {r1}, MaxFaults = 0`). stageOrder lacks OUTPUT_TRUNCATED, DESCENDANTS_TERMINATED, FINAL_VALIDATION_BARRIER, MERGE_INTENT, MERGE_APPLIED, ROOT_COMMITTED, LEDGER_FINALIZING, QUARANTINED and CLEANUP_PENDING, so stageIndex is -1 for them and recoverInterruptedRun discards the run as ABANDONED without looking at the worktree, even after the live root was committed. src/docs/ledger.md:65: "If it reached `AGENT_RUNNING` or later, the current worktree fingerprint is compared against the digest recorded at that checkpoint — byte-identical means safe (`ABANDONED`), anything else (changed, missing, or no baseline recorded) fails closed to `status='QUARANTINED'`".
- **`PendingSelfHeals`** (`src/internal/runtime/runtime.go:4450`; module RunRefinement, FairSpec, `Configs = {{"git"}}, Recoverers = {r1}, MaxFaults = 1`). ledgerPending queues only the operation that failed and writes MERGED_LEDGER_PENDING; only a queued updateRun carries a status, and a stage replayed after MERGED_LEDGER_PENDING is refused because that stage is terminal. src/docs/ledger.md:75: "replaying the terminal-status write until it lands, at which point `runs.status` self-heals to the true `APPROVED`/`QUARANTINED` value".
- **`CrashLeaksNoWorktree`** (`src/internal/runtime/runtime.go:3286`; module RunRefinement, FairSpec, `Configs = {{"git"}}, Recoverers = {r1}, MaxFaults = 0`). Prepare creates the worktree and branch before insertRun writes the row recovery looks for (and the row is final before the worktree is destroyed at the end): a crash in between leaves them for ever. src/docs/gate.md:5: "workspace creation is guarded so a mid-run crash can never leak a worktree or branch".
- **`DarwinNeverMerges`** (`src/internal/runtime/runtime.go:4407`; module RunRefinement, Spec, `Configs = {{"git", "darwin"}}, Recoverers = {r1}, MaxFaults = 0`). The darwin violation is appended after the merge block, so the root is committed and the run then recorded as QUARANTINED. src/internal/runtime/runtime.go:4408: "darwin builds are feature-limited and may not approve or merge governed runs".
- **`RecoveryLeavesTerminalRuns`** (`src/internal/runtime/recovery.go:230`; module RunRefinement, Spec, `Configs = {{"git"}}, Recoverers = {r1, r2}, MaxFaults = 0`). recoverInterruptedRun checks RUNNING at its start and updates the row unconditionally at its end: an overlapping `gov run abandon` or reconcile replay is overwritten. src/docs/ledger.md:65: "All three are safe to re-run: an already-terminal run is reported as `already_terminal` and left untouched".
- **`QuarantineKeepsBranch`** (`src/internal/runtime/runtime.go:3296`; module RunRefinement, Spec, `Configs = {{"git"}}, Recoverers = {r1}, MaxFaults = 1`). Every error return after the verdict (RecordCompletion, RecordArtifacts, settlement of a run that did not commit) runs the deferred teardown with approved=true, which deletes the branch preserveQuarantineWorktree committed to, while the row already says QUARANTINED. src/internal/runner/runner.go:301-302: "a quarantined run keeps its branch around for inspection".
- **`SettlementLands`** (`src/internal/runtime/runtime.go:4582`; module RunRefinement, Spec, `Configs = {{"git"}}, Recoverers = {r1}, MaxFaults = 1`). ledgerPending returns with quotaSettled (or spendSettled) still false, so the deferred release gives the reservation back as unused; the queued quota_settle/spend_settle then finds it closed and returns nil, and the usage of a merged run is never booked. src/docs/ledger.md:75: "every remaining side effect (..., and quota settlement) is wrapped: a failure there enqueues to `maintenance_outbox` ... the correct behavior is to fix the bookkeeping".
- **`NoOvershoot`** (`src/internal/quota/quota.go:578`; module Quota, Spec, `Runs = {r1, r2}, Configured = {2}, Periods = {2}, Limit = 1, Usage = 1, Measures = {0, 2}, TTL = 2, LastStart = 2, MaxTime = 5, MaxFaults = 0`). rolloverExpired selects the expired windows and then zeroes each one unconditionally (no reset_at in the WHERE clause): of two processes that selected the same window, the second wipes what was reserved after the first one's update, and Reserve admits more than estimated_limit. src/internal/quota/quota.go:134-138: "every row's actual admission is decided by the conditional UPDATE inside the transaction, not by this snapshot, so a stale read here cannot cause overshoot"; src/docs/security.md:207: "Two simultaneous quota reservations can't exceed headroom".
- **`WeighedInPeriod`** (`src/internal/quota/quota.go:117`; module Quota, Spec, `Runs = {r1, r2}, Configured = {2}, Periods = {2}, Limit = 2, Usage = 1, Measures = {0, 2}, TTL = 1, LastStart = 2, MaxTime = 4, MaxFaults = 0`). SeedFromConfig runs at the start of every run and of `gov quota`, before anything rolls windows over, and moves reset_at of an existing window to the next reset without clearing its usage: the window is not expired any more when rolloverExpired looks, and the usage of past periods counts against the limit for ever. src/internal/quota/quota.go:2-4: "quota windows answer "how much provider-plan headroom remains in this reset window?"".
- **`CostStaysCounted`** (`src/internal/spend/reservation.go:153`; module Spend, Spec, `Runs = {r1, r2}, Batch = {}, Cap = 2, Estimate = 2, Costs = {2}, TTL = 1, DayLength = 3, LastStart = 2, MaxTime = 2, MaxFaults = 0, MaxCrashes = 0`). SettleGlobal of a reservation that another process's ReserveGlobal expired (a run that outlives MaxMinutes+5) or that was released matches no row and returns nil; the run's cost_usd is in the runs table, but term 1 of ReserveGlobal's sum leaves out every run that has a reservation row of the day and terms 2 and 3 only look at pending and settled ones, so the money counts nowhere in the sum and the cap is overrun. src/internal/spend/reservation.go:127-133 calls the no-op "the normal, safe outcome of a race" after "the run's actual cost was never recorded anywhere. Fixed"; src/internal/spend/reservation.go:33-34: "The committed-spend sum has three disjoint terms so nothing is double-counted".
- **`ExpiredIsNotConsumed`** (`src/internal/observability/policy_checkpoints.go:373`; module MCPolicyGate, Spec, `Rules = {x}, Evals = {e1, e2, e3}, MaxOverrides = 1, Scopes = {"run"}, TTL = 0, Lifetimes = {1}, MaxTime = 2, MaxFaults = 0, MaxCrashes = 0`). The UPDATE of ConsumePolicyOverrideReservations (and of ConsumePolicyOverrideReservation) does not look at expired_at, so a reservation that another evaluation has self-healed into expired is still consumed and the run launches. src/internal/observability/policy_checkpoints.go:341-343: "a caller can fail closed (abort the launch) if the reservation it expected to consume was already released or self-healed into expired by a race"; src/internal/runtime/runtime.go:3563-3567 expects the same of "this run's own TTL reclaim".
- **`ErrorReturnsClaims`** (`src/internal/runtime/policy_gate.go:188`; module MCPolicyGate, Spec, `Rules = {x, y}, Evals = {e1, e2}, MaxOverrides = 1, Scopes = {"run"}, TTL = 0, Lifetimes = {1}, MaxTime = 0, MaxFaults = 1, MaxCrashes = 0`). When a release, a consumption or RecordPolicyCheckpoint fails, evaluatePolicyGate returns no ids and its callers return before their deferred release exists: every reservation of the evaluation stays until the TTL turns it into expired, and the operator's approvals are lost. src/internal/observability/policy_checkpoints.go:143-145: a reservation is made "available again" when "another rule still blocked the run, evaluation errored, or the run aborted before launch"; src/internal/observability/policy_checkpoints.go:282-283: "never leave a claimed reservation unresolved".
- **`OneShotOnce`** (`src/internal/runtime/runtime.go:2666`; module MCPolicyGate, Spec, `Rules = {x}, Evals = {e1, e2, e3}, MaxOverrides = 1, Scopes = {"fallback"}, TTL = 0, Lifetimes = {1}, MaxTime = 0, MaxFaults = 0, MaxCrashes = 0`). fallbackEligible releases every one-shot its gate resolved to ALLOW, and the fallback attempt that follows evaluates another scope (no unusual_infra_retry fact), so nothing ever consumes the approval: it lets every later evaluation of that scope go ahead. src/internal/runtime/ask.go:50-51: "it authorizes exactly one evaluation whose gate actually unblocks".
- **`DoctorGatedStays`** (`src/internal/breaker/breaker.go:318`; module MCBreaker, Spec, `Runs = {r1, r2}, Choosers = {"broker"}, DoctorKinds = {"AUTH_EXPIRED"}, MaxShift = 2, Doubling <- SmallDoubling, BaseCooldown = 1, MaxCooldown = 3, QuotaCooldown = 2, TransientCooldown = 1, Resets = {3}, Threshold = 3, Window = 1, MaxCount = 4, MaxFaults = 2`). The TRANSIENT branch of applyPolicy writes DEGRADED and the RecordSuccess path writes CLOSED over whatever row they load, a doctor-gated OPEN one included, so a straggler launched before the credentials expired makes the backend routable without any doctor pass. src/docs/routing.md:227-229: "Doctor-gated kinds (`AUTH_EXPIRED`, `BINARY_MISSING`, `FLAG_DRIFT`) stay open until `gov health` sees the backend doctor check pass or the operator resets them"; src/internal/breaker/breaker.go:69-70: "a kind recovers only via a doctor pass (or a manual reset)".
- **`ThresholdMet`** (`src/internal/breaker/breaker.go:290`; module MCBreaker, Spec, `Runs = {r1, r2}, Choosers = {"broker"}, DoctorKinds = {"AUTH_EXPIRED"}, MaxShift = 2, Doubling <- SmallDoubling, BaseCooldown = 1, MaxCooldown = 3, QuotaCooldown = 2, TransientCooldown = 1, Resets = {3}, Threshold = 3, Window = 1, MaxCount = 4, MaxFaults = 2`). RecordFailure saves the row and appends the audit event in two statements and returns the second one's error; the caller queues the whole feedback, whose replay increments the consecutive count again, so two failed runs open a breaker whose threshold is three. src/docs/security.md:332: "Each non-idempotent op kind additionally carries a durable applied-marker written in the same transaction as its effect"; src/internal/breaker/breaker.go:83-84: "TRANSIENT_UPSTREAM degrades first and opens only after a threshold within a window".
- **`RollbackSparesOperator`** (`src/internal/runtime/runtime.go:4333`; module LiveRoot, Spec, `Paths = {edited, created, hidden, deleted, other, stray}, Tracked = {edited, deleted, other}, Changed = {edited, created, hidden}, Deleted = {deleted}, Ignored = {hidden}, MaxOperator = 2, MaxFaults = 0`). A dirty live root is a violation like any other, and any violation of the merge block runs rollbackLiveRoot although nothing was merged yet: git reset --hard discards the uncommitted edits that made the root dirty, in files the run never touched. src/internal/runtime/runtime.go:1771-1772: "Clean only the paths this Governator merge was about to land; never run a broad git clean over the operator's repository."; src/docs/ledger.md:73: "cleanup of only the approved merge paths, restoring the root to the exact fingerprint it had before `MERGE_INTENT` ... the live repository is simply untouched".
- **`OperatorCommitsStay`** (`src/internal/runtime/runtime.go:1762`; module LiveRoot, Spec, `Paths = {edited, created, hidden, deleted, other, stray}, Tracked = {edited, deleted, other}, Changed = {edited, created, hidden}, Deleted = {deleted}, Ignored = {hidden}, MaxOperator = 2, MaxFaults = 0`). When the compare-and-swap finds that the branch has moved, the rollback resets it hard to the head measured before the run and the operator's commit is off the branch. src/docs/ledger.md:73: "restoring the root to the exact fingerprint it had before `MERGE_INTENT`. Nothing is quarantined at this point beyond the run itself — the live repository is simply untouched"; src/internal/runtime/runtime.go:1607-1608: "compare-and-swap against head — P1-6: nothing else may have moved the branch since the pre-run measurement".
- **`HardenedIsOwn`** (`src/internal/runner/docker.go:1231`; module MCLaunch, MCSpec, `Kids = {k1}, OutputLimit = 1`). Observe and hardenedMismatches look at neither the creation time nor the owner of the container they inspect (only verifyStartedContainer does, docker.go:742-749), and runtime.go:3607 calls Observe after every launch: a container an earlier launch left under the name is reported with its limits and as hardened. The launch itself then returns an error (`OwnContainer`). The comment at docker.go:708-711 says the match "is structural", "so a hit can only ever be this transaction's container or nothing".
- **`ComparedAreTwo`** (`src/internal/runtime/panel.go:296`; module MCSchedule, MCSpec, `Plans <- MCPlans, Panels <- MCPanels, ParallelSet = {0, 1, 9}, MaxTokens = 10, Registered = {1, 2, 3}, Allowlists = {{}, {1, 2}, {2, 9}, {9}}, FallbackSet = {0, 1, 3}, RepairSet = {0, 5}`). RunPanel runs every job of the first level as a member and counts it as one, also a job the panel does not name, which the validation admits: with one member and one such job approved the comparison is launched over one artifact, with two such jobs over none, and the panel need not call itself degraded. The comment says "levels[0] is exactly the member jobs" (src/internal/runtime/panel.go:204), and MinSuccess is "how many members must complete before the comparison job is allowed to run" (src/internal/contracts/plan.go:41).
- **`ExactRestoreRecoverable`** (`src/internal/snapshots/snapshots.go:370`; module MCFiles, MCSpec, `Parts = {"recall"}, Bytes = {1, 2}, MaxChanges = 2, Enrollers = {1, 2}, Tools = {1, 2}, Capabilities <- MCCapabilities, MaxRows = 2, Texts = {1, 2}, FileCount = 2, Worlds <- MCWorlds, Protected = {}, MaxEdits = 1, MaxSnaps = 3, Payloads = {1, 2}, Passing = {1}, MaxTampers = 2, MaxVersions = 2, MaxEvals = 2, MaxMeddling = 3`). postSnapshotAdditions counts every file, of any type, that the snapshot lacks, and Restore deletes it; snapshotRoot skips what is not a regular file, so the pre-restore snapshot does not hold it. It also saves the roots configured now (240, 280), while the restore overwrites and deletes under those of the restored manifest (479-490, 505-524): what is under a root that was since dropped from snapshot_roots is lost unsaved, by an overlay too. And copyFile opens with O_TRUNC (180), so where a symbolic link stands the file it leads to is overwritten. The comment says "so exact restore is itself always recoverable" (src/internal/snapshots/snapshots.go:459).
- **`CleanIsCommit`** (`src/internal/assay/snapshot.go:409`; module MCFiles, MCSpec, `Parts = {"assayer"}, Bytes = {1, 2}, MaxChanges = 2, Enrollers = {1, 2}, Tools = {1, 2}, Capabilities <- MCCapabilities, MaxRows = 2, Texts = {1, 2}, FileCount = 2, Worlds <- MCWorlds, Protected = {}, MaxEdits = 1, MaxSnaps = 3, Payloads = {1, 2}, Passing = {1}, MaxTampers = 2, MaxVersions = 2, MaxEvals = 2, MaxMeddling = 3`). BuildSnapshot packs the files first and asks git afterwards, so an edit undone in between is recorded as clean; the comment says strict replay must be disabled whenever "What's on disk right now cannot necessarily be reproduced by a later audit against a specific commit" (src/internal/assay/snapshot.go:207).
- **`LoadedRulesAreArmed`** (`src/internal/policy/conditions.go:240`; module MCDecisions, MCSpec, `Parts = {"decide"}, Scenarios <- MCScenarios, MaxLines = 4, MaxRuns = 2, MaxEdits = 2, MaxCommits = 1, GitRoots = {TRUE, FALSE}, Registered = {1, 2}`). matches compares a truth value or a number as the text the fact is printed in, while validateConditionValue accepts every spelling that parses: eq "TRUE" or "1.0" loads clean and never fires. The comment on such rules says "Fail loudly at load time instead." (src/internal/policy/conditions.go:62).
- **`ApprovedHeadIsMade`** (`src/internal/runtime/runtime.go:4473`; module MCDecisions, MCSpec, `Parts = {"replay"}, Scenarios <- MCScenarios, MaxLines = 4, MaxRuns = 2, MaxEdits = 2, MaxCommits = 1, GitRoots = {TRUE, FALSE}, Registered = {1, 2}`). HEAD is read again after the merge, without comparing it with the commit made, so a commit that came in between becomes the approved head; the comment says the stored identity is to "reflect the commit the approval landed on" (src/internal/runtime/runtime.go:4480).
- **`RootIsBound`** (`src/internal/runtime/runtime.go:2817`; module MCDecisions, MCSpec, `Parts = {"replay"}, Scenarios <- MCScenarios, MaxLines = 4, MaxRuns = 2, MaxEdits = 2, MaxCommits = 1, GitRoots = {TRUE, FALSE}, Registered = {1, 2}`). A root that is not a checkout has the head "non-git" and nothing else of its content in the identity, so an approval of an earlier content answers; the comment says the identity captures "every trust-bearing input that must remain identical for a prior APPROVED run to be safely replayed" (src/internal/runtime/identity.go:53).

## 7. Plan

Done: the state machines of the concurrent and crash-prone parts
(WorkspaceLock, Outbox, Lifecycle and RunPipeline, Quota, Spend, PolicyGate,
Breaker, LiveRoot), the launch of agents and validators, schedules, files,
and the decisions; the abstract specification of a run, checked and proved;
proofs for WorkspaceLock, Outbox, RunPipeline, PolicyGate, Replay, Breaker,
Retry, Batch, StageLaunch, DockerLaunch, LiveRoot, Spend, Quota, Transcript and the
six parts of run files; routes, containment, write sets, patterns, preflight
and the layers of the policy for every input.

Next, most important first:

1. LiveRoot as the refinement of RunPipeline's merge steps: its commands and
   files under a mapping to base, partial, merged and reverted.
2. `gov gate` as an operator over abstract tool calls, once its payload parser
   is separated from its decision.
