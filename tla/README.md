# SentinelQA in TLA+

Formal models of the parts of SentinelQA where the order of events, or a failure half-way,
decides whether a result can be trusted: the life of an audit run, the stream between
Playwright and the engine, the coordinators that share work among machines, the audits,
what runs leave behind for other runs, and the commands that change a developer's tree or a
team's tracker. TLC checks each model on a small instance; TLAPS proves the main properties
of most of them for every value of their constants.

Paths below are relative to `src/`.

## 1. The system and its parts

`sentinel audit` builds a run and hands it to the run lifecycle. The lifecycle asks the
safety policy whether the target may be touched, plans, runs the requested modules on a
thread pool, scores their findings, applies the policy gate, writes the reports, moves the
`latest` pointer and returns a status that the CLI turns into an exit code. The modules that
drive a browser spawn `sentinel-ts`, which spawns Playwright; a reporter inside Playwright
writes one JSON line per event to stdout, and the local runner of the engine aggregates
them. Around this core: discovery crawls a target into a graph, the planner turns the graph
into flows, the generator turns flows into specs, the analyzer and the healer look after the
specs that fail; integrations bring the result to pull requests and trackers; a receiver
takes events of real users; an MCP server lets coding agents start runs and compare them.

| part | state it keeps | operations | who it interacts with |
|---|---|---|---|
| Run lifecycle (`engine/orchestrator/run_lifecycle.py`) | the run context: outcomes, typed results, findings, decision, gate, status | execute, its 17 steps, the thread pool of modules | safety policy, modules, scoring, reporter, caches, pointer, CLI |
| Scoring (`engine/scoring`) | none | score, blockers, decision, two lifecycle hooks | called with a status that is not final yet |
| Reporter (`engine/reporter`) | files of the run directory | emit: run.json, then the other formats | lifecycle |
| Local runner, aggregation (`engine/runner/local.py`, `results.py`) | child process, stderr task, an accumulator per test | run_async, _consume, _terminate, aggregate, finalize | `sentinel-ts` through two pipes and signals |
| TS reporter, run command (`packages/ts-runtime/src`) | none of its own | onBegin, onTestBegin, onTestEnd, onEnd; runPlaywright | Playwright, stdout, stderr |
| Shard coordinators (`engine/runner/shards`) | tasks, queue, leases, results | enqueue, claim, heartbeat, complete, fail, results | workers, Redis |
| Cache store, latest pointer (`engine/cache`, `orchestrator/symlinks.py`) | a file per key, one symlink | get, put, update | every run of the project |
| Module selection (`engine/ci`, `changed_modules.py`, `ci_cmd.py`) | none | list changed files, map them to modules and tags, merge with mode, config and filters | git, the lifecycle, the functional module |
| Discovery (`engine/discovery`) | frontier, visited pages, the graph | crawl, collect scripts, ingest documents, compare two crawls, rate risks, write | target, planner |
| Planner and generator (`engine/planner`, `engine/generator`) | plan.json, the specs | extract flows, ask a provider, name, render, write | discovery, LLM providers, the developer's tree |
| Analyzer and healer (`engine/analyzer`, `engine/healer`) | none; the specs | categorize, decide on retry and repair, rewrite a line | failed tests, the developer's tree |
| LLM budget and clients (`engine/llm`) | money, calls, tokens of a bucket | estimate, check, call, record | planner, analyzer |
| Audit modules (`modules/…`) | evidence files of the run | probe, measure or read; judge | target, browser, files of other phases |
| API snapshots (`modules/api/backward_compat.py`) | a snapshot in every run directory | load the last one, compare, write | earlier runs |
| Vault (`engine/auth`) | encrypted sessions, a card beside each, a master key | put, get, export, revoke | logins, runs, `sentinel auth` |
| Visual baselines (`modules/visual`) | pictures, an index | accept, diff | captures of runs |
| Audit trail, compliance (`engine/policy/audit_log.py`, `modules/compliance`) | one log per run | append, read once, judge | every thread of a run |
| Integrations (`integrations`) | a comment, a set of issues on a server | search, create, edit, close, retry | several CI jobs, people |
| RUM (`packages/rum-browser-sdk`, `engine/rum`) | a buffer per page, an inbox file, a count | send, append, bake into a run | browsers, signals |
| Watch loop (`apps/cli/…/watch.py`) | a snapshot, a deadline | poll, debounce, audit | file system, lifecycle |
| MCP server, SDK (`packages/mcp-server`, `packages/python-sdk`) | none; the run directories | verify_fix, compare_runs, ten more tools | coding agents, lifecycle |
| the rest | configuration, records, text | | |

`PROJECT.json` lists all 42 components with their status and every hazard at its line.

### What is hard here

* *Concurrency.* Modules finish on a pool in any order but are merged in one. Two children
  and three readers share two pipes of bounded size. Several processes use one temporary
  file name. Redis makes only single commands atomic, while the methods of the coordinator
  need four to ten of them. The vault, the baselines, the audit trail, the inbox and the
  tracker have no lock at all.
* *Failure.* A worker, a run, Playwright, its wrapper, a receiver or a command may die
  between any two steps; a check, a module, a request or a visit may fail half-way. The next
  one has to live with what is left.
* *Order.* The release decision is made before the status it depends on. run.json is written
  before the other reports. Answers arrive after the page they belong to was summed up.
  Flows that tie are ordered by random ids, runs by random names.
* *Time.* Leases expire while their workers still work; an index lags behind its issues; a
  developer edits while a snapshot is taken; git is asked three times about a tree that moves.
* *Limits.* A page limit, a budget that is checked against an estimate, a buffer that is full.

### What makes each part correct

| part | property | module |
|---|---|---|
| coordinator | no two unexpired leases on a task; no task stranded or queued twice; reports are final; a result for every completed task; each method a step of the contract | InMemoryCoordinator, ShardContract, RedisCoordinator |
| results of a coordinator | reading them neither loses nor duplicates any, and ends | RedisResults |
| run | merging does not depend on the schedule; nothing before the safety policy agrees; decision, status, run.json and exit code agree; the pointer names complete runs | RunLifecycle, Scoring |
| project directory | no torn plan without colliding writers; races leave a pointer; a run that meets no other succeeds | Workspace |
| module run | the stream is heard exactly as it was produced; a stream cut short is incomplete; passed means it ran; the verdict is Playwright's; the runner ends | RunnerStream |
| selection | a changed file is audited though the repository moves; no combination of mode, config, diff and filter drops a gate | ModuleSelection |
| discovery | breadth first, complete within its bounds, over at some time; routes, boundaries, suspicions and risks follow from answers the graph holds | Crawler, DiscoveryPipeline |
| planning | flows stay in the graph, sensitive ones come first, no spec is lost, a rerun agrees | TestPlanning |
| spec tree | a plan lists what exists; hand work is kept; a repair is one that may be made | SpecTree |
| analysis | no test is healed, or retried, against the evidence | FailureAnalysis |
| spending | the cap holds up to one estimate's error; the rate holds | LlmSpend |
| audits | a verdict follows from what was seen, and its evidence shows it | SupplyChain, BrowserAudit, SecurityAudit, EvidenceAudit |
| snapshots | a broken promise reaches a report, whatever runs were compared | ApiSnapshots |
| vault | a session at rest is what the last login or revoke made of it | AuthVault |
| baselines | the index tells the truth about the pictures | VisualBaselines |
| trail | only races fail it; every writer is in order | AuditTrail |
| comments, issues | one summary; the open issues are the findings | PrComment, IssueLifecycle, HttpRetry |
| RUM | an acknowledged event reaches exactly one run | RumPipeline |
| watch | no edit is forgotten; what rests is audited | WatchLoop |
| MCP server | no fix is called verified, and no comparison whole, that was not | AgentServer |

## 2. The modules

### ShardContract and InMemoryCoordinator (`engine/runner/shards/protocol.py`, `in_memory.py`)

`ShardContract` is the abstract promise: a task is absent, open, leased, overdue, closed or
dropped; there are no clocks, queues or results. `InMemoryCoordinator` is the reference
implementation. Each of its methods runs under one lock, so each is one action: `Enqueue`,
`Claim` (with the reclaim that precedes it) and `ClaimNone`, `Extend` and `LateHeartbeat`
(the two ways a heartbeat of the owner ends), `Complete`, `Fail`. Time is the injected
clock. Workers have no implementation in the repository, so the model lets them do what
the protocol allows: heartbeat, complete or fail any task they were once leased, any number
of times, however late. A crashed worker is one that does nothing more, a restarted
or repeated call is one more of those. `ImplementsContract` is the refinement; the phase of
a task is computed from its status and the clock, so `Tick` maps to `Lapse`.

### RedisCoordinator, RedisResults (`redis_backend.py`)

The same methods over Redis, one action per command: each method in progress is a program
counter with its local variables, each worker has a second thread for heartbeats, and a
process may die in mid-method. A worker that returned from a method may run any other.
`RedisResults` is the method `results`, which rotates the list by popping and pushing each
entry while others push or rotate too. `pending` only reads and is left out. Two producers
that enqueue one id are left out: the ids come from one plan.

### Scoring and RunLifecycle (`engine/scoring`, `engine/orchestrator`, `engine/reporter`)

`Scoring` holds the pure operators: component scores, flake score, weighted score, blockers,
decision. Units are chosen so that every number is an integer (fortieths of a point);
the code computes in floating point and rounds to two decimals, the model does not round.
`RunLifecycle` has one action per step of the main thread and two per
module, start and finish. `Outcomes` gives what a module may hand back; any module may
also raise. `Raise` is an I/O error of the main thread. The main thread waits for the
futures in the order of the request (`NextFuture`), while the pool completes them in any.

### Workspace (`engine/cache/store.py`, `engine/orchestrator/symlinks.py`)

Several runs in one project directory, one file operation per action. Files are inodes, so
that renaming a file another process has open behaves as POSIX says. All runs have the
same cache key; they differ in the `ci` flag, which the plan has and the key
does not. Two history variables, `collided` and `met`, record whether two `put`s overlapped
and which runs overlapped at all: they appear in properties and in no guard.

### RunnerStream (`engine/runner/local.py`, `results.py`, `packages/ts-runtime/src`)

One module run with all its processes: Playwright with its reporter, the wrapper
`sentinel-ts`, and the engine's `_consume` with its stderr task. The pipe is a
sequence of at most `Capacity` lines and stands for the kernel's buffer plus the reader's.
What a line carries is reduced to its kind, test, attempt and retry index. An error message
is `short`, `long` (more than the 2048 characters a `TestExecution` accepts) or `huge` (its
line exceeds the 64 KiB limit of the stream reader). `Reported`, `Rejected` and
`DeriveModuleStatus` are the fold of `aggregate`, with quarantined tests as a constant.
`fate` is what will become of `_consume` after its `finally` clause.

### ModuleSelection (`engine/ci`, `engine/orchestrator/changed_modules.py`, `ci_cmd.py`)

`audit --changed-only` asks git three times, an action each, about a repository in which
files are committed, staged, saved and added in between; `touched` remembers which. `CiOutcome`
is the whole decision of `sentinel ci`: preset of the mode, config, diff, filter, floor.
`Suite` is a small set of specs with their priorities and titles; a grep is the set of its
alternatives, and `GrepLimit` stands for the 512 characters the runner accepts.

### Crawler and DiscoveryPipeline (`engine/discovery`)

`Crawler` is the breadth-first walk: `PopUrl`, then up to four attempts at one page, each of
which may answer differently. `DiscoveryPipeline` is what follows: the pages of the first
crawl, the scripts (some do not load), the documents (absent, whole or damaged), the login and
the second crawl, then the graph and its files one by one. A page is its status, where it
redirects to, its forms and its unlabelled fields; a URL is a site member with a path and
tokens. The command may die between two files (`DpDies`).

### TestPlanning (`engine/planner`, `plan_cmd.py`, `generate_cmd.py`, `engine/generator/pipeline.py`)

From a graph to specs. `PlanOf` is the set of flows of the smoke, boundary, form and API rules
and of the ten extractors; a path is the set of hints it matches. A provider may answer,
propose or raise; plan.json is truncated and written; specs are generated from the graph or
from the file. Ids are random, so flows that tie may be numbered in any order (`Numberings`).

### SpecTree (`engine/generator`, `engine/healer`, `generate_cmd.py`, `fix_cmd.py`)

The files of `tests/sentinel` and three writers: `generate` checks the banner of each file and
writes it, `fix` reads, locates and rewrites, developers save at any time. A spec is its
marker, its stamp and a few lines; the healer can repair a stale one.

### FailureAnalysis (`engine/analyzer`)

The eleven rules over one signal, the surest claim, the first of equals; then the decisions
on a retry and on the healer. One action, checked for every combination of marks.

### LlmSpend (`engine/llm`, `engine/planner/llm_providers`, `engine/analyzer/llm_explainer.py`)

Three clients over one budget: limiter, own cap, estimate, caps of run and caller, request,
record of the actual cost. An answer may be usable, malformed or absent.

### The audits: SupplyChain, SecurityAudit, BrowserAudit, EvidenceAudit

`SupplyChain`: lockfiles to an SBOM, OSV in batches that may stop answering, four more checks,
each of which finds, finds nothing, skips or raises; status and exit code. `SecurityAudit`:
the enabled checks over the routes, against a target that goes down and comes back; refused
checks. `BrowserAudit`: the accessibility and performance modules with their child process;
a visit breaks at any measurement, answers come late; files per route and an index.
`EvidenceAudit`: chaos reads a file its specs append to, llm_audit five files that other
phases rewrite.

### ApiSnapshots, AuthVault, VisualBaselines, AuditTrail

What outlives a run in the project. `ApiSnapshots`: a snapshot per run, loaded by the
alphabetical order of random ids; runs overlap and are killed. `AuthVault`: every command is
its file operations (check, key, read, empty, fill, card, unlink), an empty file is one
somebody is about to fill; two processes may each mint a master key. `VisualBaselines`:
accepting is copy, replace and hash per picture and one index at the end; a comparison
attributes what it saw from the index of that moment. `AuditTrail`: stamp, then append,
without a lock; the compliance module reads the log in the middle of the run.

### HttpRetry, PrComment, IssueLifecycle (`integrations`)

`HttpRetry` is the client: a request that was lost on the way, or whose answer was, is sent
again. The two posters and the issue lifecycle use it against a server others write to:
pages of a thread in the order of the platform, an index that lags.

### RumPipeline (`packages/rum-browser-sdk`, `engine/rum`)

Buffers of pages, batches, a receiver of one thread that appends, counts and bakes; file
operations of baking one by one; interrupts and kills at each.

### WatchLoop (`watch.py`)

Snapshots file by file, the debounce deadline, audits that return or raise, edits anywhere.

### AgentServer (`packages/mcp-server`, `packages/python-sdk`, `engine/runs`)

Two connections whose calls start runs, look them up, load and compare them, while the tree
is edited and the pointer moves. A finding is its fingerprint and a severity.

### The modules that put components together

`MCProject` composes what runs of one project share: RunLifecycle, Workspace, ModuleSelection
and RumPipeline. `MCSharedArtifacts`, `MCLoops` and `MCParts` do the same for the modules that
share an environment but no state (a variable of one component is never read by another): they
choose one component in `Init`, let its next-state relation run, and keep the others at a fixed
beginning. The states of such a run are therefore those of its components added up, and a
property of one is checked in all of them.

Definitions whose name ends in `_Mutant` are faulty variants of the definition after them.
No specification uses them; each breaks a property that the original keeps.

## 3. What TLC checks

| run | instance | states | shows |
|---|---|---|---|
| `shards_reference` | 2 tasks, 2 workers, leases of 1 and 2 ticks, 5 ticks, 2 reports | 315 k | `ExclusiveLease`, `QueueSound`, `ResultsMatchStatus`, and the refinement `ImplementsContract` |
| `redis_contention` | 1 task, 2 workers, 1 producer, one death | 2.6 M | `NothingIsStranded`; `EarlyIsSafe`: before the first expiry leases are exclusive, reports final, tasks in progress reclaimable |
| `redis_double_claim` | 3 ticks, no death | | *violation*: two workers hold unexpired leases |
| `lifecycle_incomplete_module` | one run, 4 modules | | *violation*: an incomplete module in a passed run |
| `runner_stream` | 2 tests (one quarantined), 2 workers, 1 retry, 2 lines of buffer | 2.1 M | `StreamIsFaithful`, `StatusIsTrue`, `EndsOrIsJammed` |
| `runner_deadlock` | 1 test, 1 line of buffer | | *violation*: the runner never returns |
| `shared_artifacts` | comments 18 k, issues 915 k, specs 1.29 M, analysis 455 k | 2.7 M | `OneSummary`, `IssuesFollowFindings`, `TreeIsTrusted`, `HandWorkKept`, `ActionsFollowEvidence` |
| `loops` | readers 49 k, spending 24 k, crawl 3 k, watch 4 k, discovery 7 k | 87 k | `ReadingLosesNothing`, `SpendIsBounded`, `DiscoveryIsSound`, `NoEditForgotten`, and `LoopsProgress` (every reader returns, the crawl ends complete, edits are audited) |
| `project` | lifecycle 3 k, workspace 220 k, selection 453 k, RUM 367 k | 1.0 M | `MergedLikeSequential`, `VerdictIsTrue`, `LatestIsComplete`, `CacheIsSafe`, `PointerIsSound`, `SelectionIsSound`, `RumKeepsEvents`, and `AuditEnds` |
| `diff_drops_gates` | the selection alone | | *violation*: a diff narrows a mode that runs every spec |
| `parts` | api 191 k, vault 271 k, visual 217 k, supply 120 k, trail 361 k, browser 205 k, security 86 k, evidence 74 k, planning 30 k, server 400 k | 2.0 M | `ChangesAreReported`, `VaultKeepsSessions`, `BaselinesAgree`, `TrailVerdictIsFair`, `AuditsAreEarned`, `PlanIsCarriedOut` |
| `api_baseline` | three runs in a row | | *violation*: a run is not compared with the previous one |

Each run also checks the types of the variables that move. Every property of a passing run has
a mutant of the code that breaks it; properties that are conjunctions have one for each of the
parts they join.

### Why the bounds are enough

* Coordinators: a violation of exclusion takes two workers and one task; the second task
  makes a reclaim pick up more than one and lets the queue hold stale entries in front of
  fresh ones. `MaxTime` lets a task be leased, expire, be reclaimed, be leased again and be
  reported by both. `redis_contention` has one task because commands of different tasks only
  share the queue; two ticks cover one expiry. `redis_double_claim` needs three to give the
  second lease room to run. In `loops`, more readers than two or more entries than two only
  lengthen the rotation.
* `RunLifecycle`: two threads give every order of completion of neighbours; the outcomes
  include each status, each severity, P1 counts on both sides of the limit, a score just under
  the threshold, and modules with and without a flake rate.
* `Workspace`: three runs are two writers that collide and a reader.
* `RunnerStream`: with `Capacity` 2 the stream is empty, partly full and full while four
  attempts and their starts pass through. Two tests on two workers interleave their lines.
* `ModuleSelection`: two files, one of every kind of path the tables tell apart; a repository
  that changes at most twice; `MaxChanged` 1 stands for the 50 files above which the selection
  falls back, `GrepLimit` for 512 characters.
* `RumPipeline`: two pages, one of which sends a seq that is no integer; a buffer of two, a
  threshold of three, four events: one batch over, one under the threshold. One kill.
* `PrComment`, `IssueLifecycle`, `HttpRetry`: two jobs, two attempts, pages of two with two
  foreign comments, two fingerprints, an index that is up to date or not.
* `SpecTree`: two paths that may collide, two saves by hand, two commands, two proposals of
  confidence 90 and 70. Flow names that collide with a numbered name (a, a, a_2) are left out
  of the instance: the code overwrites one there, which the premise `NamesApart` says.
* `FailureAnalysis`: every status, network and fixture, and up to two marks of a text.
* `LlmSpend`: estimates and costs on both sides of the caps, two callers, a bucket of two.
* `Crawler`: three pages besides the base with any links, depth two, three pages at most.
  `DiscoveryPipeline`: four pages with one to four answers each, so that the second crawl may
  contradict the first; the scripts of one page; two documents.
* `ApiSnapshots`: three runs are the shortest chain in which the name order differs from the
  order in time; one kill or one torn file (`MaxTrouble`).
* `AuthVault`: two entries and two processes of three visits in all: a clash and an
  undisturbed visit after it. `VisualBaselines`: two shots, two looks, two acceptances, one
  comparison.
* `SupplyChain`: two lockfiles, two components, one batch per component (`BatchSize` stands
  for 1000), two image findings against a cap of one. `BrowserAudit`: three routes of which
  two share a slug and one has that of the index; two loads; latencies on both sides of the
  budget. `SecurityAudit`: two routes, up to two changes of the target, one issue per answer.
  `EvidenceAudit`: two lines, two rewrites, four kinds of events.
* `AuditTrail`: two threads beside the compliance module, a clock put back once.
* `TestPlanning`: thirteen paths with one hint set each; graphs of up to two routes, three with
  forms; up to two forms, boundaries and endpoints; scores on both sides of 80; one answer of
  a provider with four proposals of which two are taken; two generations.
* `AgentServer`: two faults in two modules, two severities, one audit beside the first, one
  edit; both connections may compare while one verifies.
* The reductions in `MCParts` (`OneDamaged`, `FirstAccepter`, `FirstPicture`, `FirstFault`,
  `FirstCaller`) pick one of several states that differ in names only; `StillOpen` cuts off
  what no check reads. `PartsSymmetry` permutes entries and visitors of the vault; symmetry
  is used in runs without liveness only.
* `MaxReports`, `MaxReads`, `MaxCrashes`, `MaxTime`, `Capacity` and the other `Max…` constants
  cap what would otherwise grow without limit. The proofs hold for every value of them.

### Fairness and deadlock

* `loops`: a reader in a call takes its next step (a loop of blocking commands; nothing is
  assumed of the writers); the crawl goes on (every request has a time-out); the watch loop
  goes on and its audits end, and the developer makes finitely many edits.
* `project`: the main thread of the lifecycle, and every module that was submitted, go on: the
  threads of the pool are scheduled by the operating system, and the runner calls of the
  modules are bounded by their child process or a timeout. A module whose child never ends
  (next item) is outside this run.
* `runner_stream`, `runner_deadlock` (`FairSpec`): Playwright goes on (a test ends by its own
  timeout), a child with nothing left to do closes its pipes, SIGKILL is delivered, and the
  event loop runs the engine's tasks. Weak fairness is enough: none of these steps is disabled
  and enabled again forever. A death, a cancellation, an early stop, the answer to SIGINT and
  SIGTERM and what the wrapper forwards to stderr are never assumed.

Except for the two coordinators, whose runs check for deadlock, the systems end: all calls are
made, the run has returned, every process is gone. Deadlock checking is off for them; whether
they end *properly* is what `LoopsProgress`, `AuditEnds` and `EndsOrIsJammed` say.

## 4. Where the code and its texts disagree

| run | what the code does | what is written |
|---|---|---|
| `redis_double_claim` | a reclaim overtaken by another reclaim and a claim deletes the new lease | an atomic Lua claim, behaviour as in memory (`redis_backend.py:15`) |
| `lifecycle_incomplete_module` | a module result `incomplete` or `errored` counts as succeeded; the run passes with exit code 0 | module errors mark the run incomplete (`run_lifecycle.py:698`) |
| `runner_deadlock` | after a line of more than 64 KiB nobody reads stdout while the runner waits for stderr without a limit | stderr is collected concurrently "so we don't deadlock on a full pipe" (`local.py:248`) |
| `diff_drops_gates` | the modes without a tag filter take the filter of the diff alone | "we never want a small diff to drop the mode's required gates" (`ci_cmd.py:216`) |
| `api_baseline` | the snapshot of the run whose random id sorts last is compared | "loads the *previous* snapshot" (`backward_compat.py:5`) |

Seen while modelling, without a run of their own. The properties are stated so that they hold
with these; the exemptions name them.

* **Runs.** A late heartbeat parks a task as `lost`, which no reclaim looks at
  (`in_memory.py:109`, against `docs/dev/distributed-shards.md:55`); it can also shorten a lease.
  A high finding that no blocker names passes as "no critical, high, or medium findings"
  (`decision.py:93`). The plan cache key leaves out `ci`; two `put`s that collide leave an empty
  or torn entry that makes runs fail until a source file changes (`store.py:83`). Of two runs
  that end together one may raise in `update_latest_pointer`. A run whose spec files do not
  load has no tests and passes. An error message above 2048 characters makes `aggregate` raise.
  SIGINT reaches `sentinel-ts` only.
* **Selection.** `--changed-only` names two modules the registry does not know, lists no file
  that is staged only, and runs modules the config disables (`changed_modules.py:30`). `--since
  latest` exits 0 although the prior run failed. `fallback_to_full` keeps the filter of fast and
  standard; unknown layouts do not fall back (`diff_aware.py:18`); `@route:` tags are on no
  generated spec; a filter above 512 characters stops the runner (`runner.ts:41`).
* **Discovery.** Suspicions are filed by path and looked up by URL (`risk_map.py:70`), so the rule
  at `risk_map.py:48` never fires. Templated paths of documents and of the crawl never match.
  Pages only members reach become no route; `enforced_server_side=False` cannot occur. A login
  that answers with the login form again counts as success. Retries of a page bypass the limiter;
  a socket time-out while reading is caught nowhere (`_http.py:158`). A damaged document ends
  the command and loses the crawl.
* **Planning.** "The same triple always produces the same plan modulo IDs" (`core.py:20`) does not
  hold for flows that tie, which random ids order: specs exchange names between generations.
  Flows of a provider are appended unsorted, without test cases. A missing key ends `plan`
  without one. Signup, CRUD, payment and download specs open fixed paths.
* **Specs.** `fix` replaces the first occurrence of a text, not the line of the proposal
  (`fix_cmd.py:85`), and looks for a marker the generator does not write (`banner.py:31`,
  `render.py:39`). Flows a, a, a_2 overwrite a spec. A threshold below 0.9 has no effect.
* **LLM.** "Hard cap" (`budget.py:111`), but a malformed answer is not recorded, and a missing usage
  counts as nothing.
* **Watch.** An audit that raises ends the loop; a tree that never rests is never audited; a file
  that comes and goes between two snapshots is not noticed; config and diff are read once.
* **API, vault, pictures.** A run killed between its snapshot and its report swallows a break; a
  torn snapshot silences the check. `get` writes a session back and undoes a racing revoke;
  two first logins mint two keys. In a fresh run directory every picture is missing and the audit
  passes; the index's hash is never verified; overlapping acceptances lose rows.
* **Supply chain, trail.** A time-out of trivy, an OSV body that is no JSON or a manifest that is
  no UTF-8 loses every report; a damaged lockfile hides its components; a container scanner
  without JSON is skipped and the module passes (`container.py:238` says it must not).
  `module_start` and `module_end` are written by nobody, so that gate fails in every run.
* **Audits.** The security module passes although every probe was lost; dependency_scan counts an
  absent scanner as a target; twelve checks are called by no module. Routes with one slug
  overwrite each other's evidence. The handlers of the performance audit are not awaited, and
  its page observers are lost at navigation. A page that failed to load still gets landmark
  findings. One half-written line makes chaos discard every event; an empty restriction
  lets everything through.
* **RUM.** Two batches with the same first time stamp and length share a run id; a seq that is no
  integer stops every later bake; a kill can glue the next event to half a line.
* **MCP, SDK, plugins.** `verify_fix` on a run still under way reads no findings and takes the
  target as none; a module that errs leaves nothing to find and the fix is "verified". Without
  a pointer the alphabetically last run is the latest. `compare_runs` keeps one of several
  findings with one fingerprint. `replay_with_change` has no runner. A plugin that prints a
  line beginning with a brace replaces its own result (`sandbox.py:196`).
* **Others.** `top_flaky` ignores its window; a malformed quarantine file counts as empty.

## 5. What is proved

All theorems hold for every value of the constants that satisfies the named assumptions of
the modules they are about; TLC evaluates those in the runs of the same modules. Most say that
a bound is a natural number, that "none" is not a value, or that two names differ. Those with
content:

* coordinators: `CoordinatorAssumption`, `RedisAssumption`, `OneProducer` (one process
  enqueues), `BeatsLengthen` (a heartbeat does not ask for less than is left of a lease; the
  code lets it, and then the worker holds less than it was told), `ResultsAssumption`;
* `LifecycleAssumption`, `WorkspaceAssumption`, `RunnerAssumption`, `RumAssumption`, `SelectionAssumption`,
  `ConfigsEnable` (a config that lists modules lists known ones): the shape of their inputs;
* spending: `CapsAreCosts`, `BucketIsNatural`; watching: `PollsArePositive`;
* discovery: `BaseIsUrl` (with finitely many URLs), `BoundsAreNatural`, `CrawlsAreOfTheSite`
  (a crawl brings answers of pages of the site, and counts are counts), `NoneIsNoPath`;
* stores: `FilesDiffer`, `MaxVisitsIsNat`, `MaxAcceptsIsNat`, `ShotsAreNumbered`,
  `BlankIsNoPicture`, `ComplianceIsModule`, `PoolIsNotEmpty`, `ClockIsBounded`;
* audits: `ScansAreFinite`, `BatchesAdvance`, `SlugsAreNames`, `RoutesAreKnown`, `LimitsAreSet` (at
  least one sample is asked for), `RoutesAreListed`, `EvidenceIsKnown` (events,
  scenarios and checks are those the schemas admit);
* snapshots and agents: `MissingIsNone`, `PromisesAreNamed` (endpoints and fields are strings),
  `OneRunAtLeast` (the run that the first call refers to);
* planning: `AddressesAreNumbered`, `BoundsAreNat`, `GraphsAreWhole` (what the schema of a graph
  admits: distinct routes, guards only on them, finite lists), `AnswersAreLists` (what a
  provider answers is a list of proposals);
* shared artifacts: `PathsAreSequences`, `PlansArePaths`, `MaxAttemptsIsPositive`,
  `PageSizeIsPositive`, `SearchPageIsPositive`, `NoPosterIsNone`, `NoTrackerIsNone`.

**InMemoryCoordinatorProofs.** `TypeCorrect`. `LeasesExclusive` for leases that are no longer
than a heartbeat's extension (`LeasesFit`; without it the property is false, a heartbeat moves
the expiry closer than the worker was told): `ExclusiveLease` is not inductive, because it
does not say why a lease is safe; `LeaseInv` says that an unexpired lease pins its worker as
the owner and that `leased_until` is never below what the worker knows. `QueueStaysSound` and
`ReportsAreFinal`: `QueueSound` is inductive, and finality follows from it, since only a
queued task that is pending can be claimed. `ReferenceMeetsContract` is the refinement, one
contract step per method.

**ProjectProofs, one run.** `LifecycleTypeCorrect`. `VerdictIsConsistent`: `VerdictInv` records per
step of the main thread what is decided; the key is that outcomes do not change between the
decision and the final status, so the presumed status was the right one, and that
`SelectDecision` is inconclusive exactly for a presumed `incomplete` (`GateIsConclusive`).
`SafetyComesFirst`, from `SafetyInv`: no step after `enforce` is reachable for a target
that was refused. `MergeIsSequential`, from `MergeInv`: a future that was merged is final,
and typed results follow the order of outcomes.
`VerdictStaysTrue` adds to it that no critical finding ever exits with 0; `LatestStaysComplete`
follows from where the pointer is moved, one step after the reports.

**ProjectProofs, the shared directory.** `WorkspaceTypeCorrect`. `TornReadsNeedCollision`, from `PutInv`: without
a collision one run at most writes, nobody else renames its file, and what was renamed is whole.
`LatestNamesReportedRuns` and `RacesLeaveAPointer`: while the pointer is missing, some run has
still to look for it or has just removed it (`PointerInv`). `LoneRunsSucceed`, from
`LoneInv`: what a lone run found out still holds when it acts on it. `CacheStaysSafe` and
`PointerStaysSound` join them to the two properties the run `project` checks.

**RunnerStreamProofs.** `RunnerTypeCorrect`. `StreamFaithful`: the invariant `Faithful` says that
the attempts heard of a test are the first of its results, that the lines in the pipe are the
others, each once, with strictly increasing retry index, so the next line read of
a test can only be its next attempt; at the end of the stream nothing is left. Four lemmas
(`WriteOther`, `WriteOwn`, `ReadOther`, `ReadOwn`) are the ways a step can touch it. With
`EndInv` (a status is derived only when the stream has ended and both children are gone)
and `RunInv` (what Playwright's verdict says about its attempts) follow
`PartialRunsIncomplete`, `PassedRan` and, for at least one test, `AgreesWithRun`; `StatusTrue`
joins them. Without a test the code says `passed` where the formula asks for `skipped`.

**RedisCoordinatorProofs.** `RedisTypeCorrect`. `PendingStaysReachable` and `CompletedKeepsResult`
hold for any times and any overlap, as long as no process has died. `EarlyStaysSafe` is what
Redis keeps of the contract before the first expiry, for one producer and heartbeats that do
not shorten a lease. Its invariant `Early` says why: nothing is due (`NothingDue`), so a
reclaim finds nothing; a pending task has one ticket, a place in the queue or one method that
holds it (`OneTicket`); and whoever ever claimed a task is its owner for good (`OwnerKnown`).
`NothingGetsStranded` joins the three.

**LoopsProofs.** One inductive invariant per loop; `LoopsInv` joins them, since the loops share
no variable, and gives `LoopsTyped`.
* Spending (`SpendStaysBounded`): the two bounds are inductive with the types, by one lemma of
  arithmetic (`Excess`): what fits with its estimate fits with its cost up to the worst excess.
* Watching (`NoEditIsForgotten`): besides, the times the loop remembers lie in the past.
* Reading results (`ReadingIsSafe`): an entry is never in two places (`NoTwins`), while nobody
  has died it is in one (`NoneLost`), and a reader that is alone finds what it has not seen
  among the entries its loop has yet to pop (`Awaited`).
* Crawl (`CrawlStaysInOrder`): the queue spans two depths at most (`Layered`); the first entry
  of a URL nobody fetched was put there by the first page that links to it (`FromFirst`);
  every link of a fetched page is settled or queued (`Remembered`); hence the pages are in the
  order of their first links, and the requests stay under their price (`Priced`).
* Discovery (`GraphStaysSound`, `DiscoveryStaysSound`): from the second crawl on every page has
  its verdict (`Judged`), the graph is the one those verdicts give (`Concluded`), and the files
  on disk are the first so many of the four (`Filed`).

**PartsProofs.** What commands keep on disk without a lock, and what agents are told.
* Vault (`VaultTyped`, `VaultIsSafe`): a process that writes an entry, and was met by nobody
  there or is on a calm entry, has it to itself (`Sole`), so the files are as far as the process
  is (`Progress`). On a calm entry without a writer only uses and exports meet, and each of them
  writes back the very session that was settled (`ReaderOK`, `InUse`).
  The proof found a case that the instance of `parts` is too small for: a
  `revoke --all` that ends half-way, a new login, and the rest of the revoke take four visits,
  and the instance allows three. The exemption in `VaultKeepsSessions` says so now.
* Baselines (`BaselinesStayTrue`): whoever meets another acceptance has nothing among the calm
  shots; the rows everybody holds, and the file that is about to become the index, whoever
  wrote it last, tell the truth about the calm shots of the others (`RowsAgree`).
* Trail (`TrailTyped`, `TrailStaysFair`): a writer's entries follow from how far it is
  (`Advances`); while no two writers overlap and the clock was not put back, one entry at most
  is on its way, stamped later than everything in the log (`InOrder`).
* API snapshots and the agents' server (`ChangesStayReported`): a run starts after all before it,
  and two that overlap are both known to (`InTurn`); it compares itself only with a snapshot
  that was whole when it was read, so nobody is compared with a successor, however long the
  chain (`NoCircle`), and a promise that a run further down made is kept, or told by one in
  between, or that one was killed (`BreaksAreTold`). What a call has read agrees with the tree its run works on unless
  the tree was edited since (`Agrees`), and a run that is over changes no more (`CallHolds`).

`AuditsStayEarned` joins the four audits below (`AuditsInv`), `PartsTyped` the types of all ten
parts (`PartsInv`): whichever of them moves, the others stay.

**AuditsProofs.** The four audits, and the way from a graph to specs.
* Supply chain (`SupplyStaysEarned`): past the questions to OSV nothing is left unasked, or the
  run knows that OSV stopped answering (`ScInv`); the cap keeps the worst findings, for any finite
  set of vulnerabilities (`WorstIsKept`).
* Accessibility and performance (`BrowserStaysEarned`): a page in the results was visited to its
  end or says that it failed (`PagesAreWhole`); its file is a copy of it, up to what came in late
  (`OnFile`); what is late belongs to a route that was begun (`LateIsBegun`). The percentile
  takes the value the ranks ask for (`PercentileFollows`), of which there is one (`RankedIsOne`).
* Security (`SecurityStaysEarned`): a check that has returned counts the routes whose probe was
  answered to its end (`Sound`); the one at work has the answers of the routes before where it
  is, and no later check has any (`SaRunning`).
* Chaos and generated code (`EvidenceStaysEarned`): what the report says follows from what was read
  before the verdict (`ReportFollows`), whatever writers do to the files meanwhile.
* Planning (`PlanStaysCarriedOut`): the plan on disk is that of the graph and of what a provider
  may add, and a generation is one the generator can make of it (`TpInv`); the rest are facts about
  the operators, for any graph. A plan is finite (`PlanIsFinite`); the extractor of a flow says
  which rule made it (`RuleOf`), so but for the extractors the property exempts a
  name belongs to one flow (`NamesAreUnique`); a numbering tells flows of one name apart
  (`NumbersDiffer`) and uses the same numbers in any order (`SameNumbers`); hence there are as many
  files as flows (`FilesAreWhole`), and two generations agree (`GenerationsAgree`).

**SharedArtifactsProofs.**
* Analysis (`ActionsAreJustified`): the surest claim wins (`SurestWins`), and only claims about
  a locator lead to a repair (`OnlyLocatorHeals`); for any set of signals.
* Spec tree (`TreeStaysTrusted`, `HandWorkIsKept`): what a banner says of a file is so unless a
  developer wrote it (`TreeHonest`), what `generate` has listed so far is there (`ListedExist`),
  and a proposal on its way into a file is one that may be made (`FixInv`).
* Summary (`CommentTyped`, `SummaryStaysOne`): ids in a thread are distinct; a job that will edit
  has found a summary, which stays one (`TargetsStand`); as long as nothing excuses a twin, one
  job works at a time, and one that will create has seen that there is none (`Single`).
* Issues (`IssuesTyped`, `IssuesStayInStep`): while the calm lasts there is at most one open issue
  per finding (`OneEach`), which is the one a run at work writes about (`Aims`); a run that
  counts leaves each finding listed or still to do, and each other open issue doomed (`Keeps`).
`SharedTyped` joins the types of all four.

**ProjectProofs, the selection.** `SelectionTyped`, `SelectionStaysSound`: what differs and was
not touched since the question was asked has been found (`Named`), nothing else was (`Backed`),
and the outcome of `sentinel ci` is one `CiOutcome` may give (`Combined`); the rest are facts
about that operator for every mode, config, filter and set of files.

**ProjectProofs, the events of real users.** `RumStaysKept`, and `ProjectTyped` for the four
parts of the run `project` together. `RumKeepsEvents` counts losses but does not say which
kill they are charged to: half a line at the end of the inbox is a kill that has not cost
an event yet, and the next batch pays for it (`Accounted`). An id names one event wherever it is
kept (`Recorded`), and an event waits in one place until the receiver has seen it (`Waiting`);
what `bake()` is about to write is told from what it has written (`Proceeds`, `Rebakes`). A run
written over one with the same id has as many events, so if it replaces none they are the same
and the old `run.json` still fits (`SameEvents`).


### What is only model-checked

Liveness (`LoopsProgress`, `AuditEnds`, `EndsOrIsJammed`), which needs fairness and ENABLED.
Every invariant of every run has its theorem. The values `Scoring` computes: its folds are over data, and only the branch
structure of the decision is used in proofs.

Only proved, as they follow from what the runs check: `SafetyComesFirst` (nothing before the safety
policy agrees) and `ReportsAreFinal`.

## 6. What is not modelled, and why

* Docker runner: its loop repeats that of the local runner (`docker.py:127-152`), and shares
  its deadlock.
* `split_shard`, `merge_outcomes`, `prune_old_runs`: pure or without a caller in the program.
* Steps, evidence, console and network events of the stream: they do not reach the status.
* What the checks of an audit look for in an answer: a choice of issues in the models.
* Safety policy: its verdict is an input; the host rules are string processing.
* Text: rendering of reports, prompts, generated tests, log lines. Parsers and schemas.
* SQL (flake database, fingerprints): its transactions are those of sqlite. Encryption.
* Browsers, pixels, axe, editors: external programs, modelled by what they may answer.
* The commands of the CLI that only read a run and print it.

## 7. Plan

Written, in this order: the coordinators with their contract and proofs; Scoring, RunLifecycle and
Workspace with proofs; RunnerStream with proofs; the components that outlive a run (SpecTree,
PrComment, IssueLifecycle, ApiSnapshots, AuthVault, VisualBaselines, RumPipeline); the loops
(WatchLoop, LlmSpend, Crawler); the decisions (FailureAnalysis, ModuleSelection); the audits;
the way from discovery to specs; the agents' server.

Next, most important first:

1. Plugins (`engine/plugins`: registry, sandbox, worker): a child process per call whose answer
   is one line of its stdout, next to `RunnerStream`.
2. Flake database, quarantine and the functional module: who writes the counts a later run reads.
3. The recorder and its bridge to the generator, next to `SpecTree`.
4. The decision table of the safety policy, as an operator that `RunLifecycle` takes for `target`.
5. Trends, history and comparison of runs in the reporter and in `engine/runs`, next to
   `AgentServer`.
6. The Playwright backend of the crawler and its map of the DOM; notifications; the Docker
   runner beside the local one; `migrate` and `report` of the CLI.
