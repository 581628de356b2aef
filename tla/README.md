# A TLA+ model of query-guard

query-guard is a reverse proxy in front of a Trino coordinator. It inspects
every statement a client posts, rejects those that break the policy, asks the
coordinator for a plan of the expensive ones first, and forwards the rest. The
policy is reloaded while requests are running, and everything that goes wrong
inside the guard must let the statement through (fail open).

This directory holds TLA+ modules translated from the Go sources, the TLC runs
that check them on small instances, and TLAPS proofs of the main results for
every size of instance. `PROJECT.json` maps each definition to its source lines.

## 1. Inventory

| Part | State | Operations | Hard behaviour |
|---|---|---|---|
| Policy (`internal/config/config.go`) | `Config.policy` behind a RWMutex | `Load`, `setDefaults`, `Validate`, `Get`, `Set` | each request reads it up to five times |
| Watcher (`internal/config/watcher.go`, callback in `cmd/queryguard/main.go`) | event channel, debounce timer, `currentUpstream` | `Start`, `reload`, `OnReload`, cancellation | reload goroutines overlap; files are half written; no event for a rename; names of events; unsynchronised variable |
| Handler (`internal/proxy/handler.go`) | `Handler.proxy`, an atomic pointer | `ServeHTTP`, `handleStatement`, `tier1`, `tier2`, `forward`, `forwardFull`, `reject`, `auditRejection`, `UpdateUpstream` | policy and proxy change between its steps; body reads fail; caps |
| Evaluator (`internal/engine/trino.go`) | `sem`, the concurrency gate | `Evaluate`, `runStatement`, `parsePlanCells`, `evaluateLimits` | deadlines against late answers; slots on every way out; random `select`; chains of pages; int64 sums |
| Parser (`internal/parser`) | none | `Classify`, `Analyze`, `extractTableNamesRaw`, the AST walk, `normalizeForVitess` | two views of one statement, its text and its tree; fallbacks when vitess cannot parse |
| Reverse proxy (`internal/proxy/reverse.go`) | none of its own | `newReverseProxy`, `rewriteTrinoURIs` | a bounded rewrite window; a swap in the middle of a client's polling |
| Telemetry (`internal/telemetry/metrics.go`) | counters | `Record...`, `ObservePreflight` | counted in several places of one request |
| Server (`cmd/queryguard/main.go`) | - | start-up, TLS, graceful shutdown | order of load, watch and listen; failures during a shutdown |
| Correlation (`internal/ctxlog`), response body (`internal/proxy/response.go`) | none | - | - |

How they interact: the handler calls the parser, then Tier 1, then the
evaluator, which calls the upstream; all of them read the shared `Config`.
The watcher's goroutines write `Config` and, through the callback in `main`,
the handler's proxy pointer - two writes, with nothing that makes them one.
Handler and evaluator feed the shared counters. A client comes back once per
page, each time through the proxy that is live at that moment.

What makes each part correct:

* handler: a request is judged only by policies that were in force while it
  ran, on the statement that is then forwarded; it gets one answer, is counted
  once under the outcome it had, and a rejected statement never reaches an
  upstream;
* evaluator: the gate neither leaks nor over-issues slots, no failure rejects a
  statement or holds it for ever, a verdict is one on the whole plan (but for
  the fractions of its estimates), and an evaluation fails (which lets a statement through) only for a cause outside
  the proxy;
* parser: what a rule forbids is found wherever the scanner and the walk look,
  in every disguise that SQL allows;
* watcher: what is announced and loadable comes into force, given a path that
  names the file's directory; what is not valid never does; policy and proxy
  agree once it is at rest;
* policy: only validated policies are ever live;
* reverse proxy: a client that follows the pages it is given stays with the
  proxy as long as the upstream is not swapped and has the listener's scheme,
  and responses have the length they declare;
* server: a signal ends the process, after what was in flight is answered;
* telemetry: counters agree with outcomes.

The hazards behind these, each at its line, are listed in `PROJECT.json`.

## 2. Modules

| Module | Models |
|---|---|
| `Config` | `Load`, `setDefaults`, `Validate` as operators on policy records |
| `Names` | identifiers, dotted names as sequences, case folding |
| `Sql` | statements as trees (the node types of vitess that the code tells apart) whose nodes carry their text and what they mean |
| `Scanner` | the token scan: classifier and table names |
| `Parser` | normalisation for vitess and the walk of `ast.go`, joined with the scan |
| `Grammar` | the derivation of statements, one action per production, and what analyser and Tier 1 owe them |
| `Analysis` | `Analyze`, `IsBypass`: what the proxy gets to know of a statement |
| `Tier1` | the five static rule categories, in the order of `tier1` |
| `Rules` | what the static rules promise of a statement, without the analyser: the reference for `Tier1` |
| `PlanParse` | `parsePlanCells` and below it, with int64 arithmetic |
| `CostLimits` | `evaluateLimits`, `tableMatches` |
| `Evaluation` | the abstract specification of one pre-flight evaluation |
| `Preflight` | `runStatement` page by page, shown to implement `Evaluation` |
| `Verdict` | the verdict that the coordinator's estimates call for, added up without a width: the reference for `PlanParse` and `CostLimits` |
| `HotReload` | the abstract specification of hot reload: `Set` and `UpdateUpstream` |
| `Pipeline` | the request path: every request a goroutine, composed with `HotReload` |
| `Watcher` | the concrete hot reload, shown to implement `HotReload` |
| `Guard` | the running proxy: the requests of `Pipeline` next to the goroutines of `Watcher`, shown to implement both |
| `Session` | the server's life and the conversations of clients through the reverse proxy |
| `MCPipeline`, `MCWatcher`, `MCParser`, `MCPreflight`, `MCSession` | instances for TLC, and the claims of the documents that the code does not meet |
| `PipelineProofs`, `WatcherProofs`, `PreflightProofs`, `SessionProofs`, `VerdictProofs`, `StaticProofs`, `GrammarProofs`, `GuardProofs` | TLAPS proofs |

The composition: `Pipeline` runs requests against the abstract `HotReload`,
which `Watcher` implements, and takes the result of an evaluation in one step,
as `Evaluation` allows, which `Preflight` implements. `Parser` produces the
records that `Analysis`, `Tier1` and through them `Pipeline` work on;
`PlanParse` the plans that `CostLimits` does. `Session` takes the verdict of
`Pipeline` as a choice, and the swap of `HotReload` as an action. `Guard` puts
`Pipeline` and `Watcher` side by side, sharing the policy and the proxy.

### Pipeline

`req[r]` is the state of request `r`; its field `pc` names where its goroutine
is. Steps are cut exactly where a goroutine touches shared state or waits:

| Action | Code |
|---|---|
| `ArriveStatement`, `ArriveOther`, `ArriveMetrics`, `ArriveHealthz`, `ArriveReadyz`, `ProbeReturns` | the routes of `ServeHTTP` |
| `ReadBody` | `handleStatement` up to the bypass check: failed read, oversized, blank, bypass statement |
| `Tier1Check` | `tier1`, first read of the policy |
| `ShouldPreflight` | second read |
| `StartEvaluation` | `Evaluate` up to the `select`, third read (upstream and timeout) |
| `Expire` | the evaluation's context ends: deadline or client gone |
| `Acquire`, `GateTimeout` | the two cases of the `select` |
| `ExplainDone`, `ExplainFails` | the result of `runStatement` and `parsePlanCells` |
| `CheckLimits` | `evaluateLimits`, fourth read; release of the slot; `tier2`'s counters |
| `Reject` | `auditRejection` (fifth read), `record`, the 400 |
| `Forward`, `UpstreamAnswers` | `forward`/`forwardFull` on the live proxy; the answer |
| `SetPolicy`, `SwapProxy` | hot reload, at any moment |

A statement is a record of what the parser extracts from it and of its body:
its length, how much of it the connection delivers, and whether it is blank. A
plan is the totals and table estimates that `parsePlanCells` returns; a total
may be negative, since sums wrap. `seen[r]` and `routes[r]` are history
variables: the policies and proxies that were live at some moment of request
`r`. No action reads them.

Increments of a counter and the release of the slot that follow the last read
of the policy within one call are one step with it: nothing reads them in
between. A client that goes away is the early end of the context; its forward
then ends in the proxy's 502.

### Watcher

`disk` is the contents of `policy.yaml`. A save in place is two steps, with
torn contents in between; a rename is one. `AddWatch`, `StartFails`,
`HandleEvent` and `Stop` are the loop of `Watcher.Start`; `TimerFires` starts a
reload goroutine, whose steps are `LoadFile`, `SetConfig`, and the callback's
`Compare`, `Swap` and `Assign`. `Jobs` bounds how many goroutines run at one
time. The comparison with `currentUpstream` races with the assignment of
another goroutine, so next to one it may go either way. `path` is the path as it
was configured: `HandleEvent` compares it with the name of an event, which
fsnotify's inotify backend makes of the watched directory (`parentDir`, cleaned)
and the file's name in it. A path like `/etc/query-guard/policy.yaml` or
`./policy.yaml` equals that name (`DirectoryGiven`); the bare `policy.yaml` does
not. The file system and fsnotify are external and modelled by how the code uses
them. `missed` and
`overlapped` are history variables: why no Write event announces what is on
disk, and whether two reloads have run at the same time.

### Sql, Parser and Grammar

The analyser looks at a statement twice: `tokenizeRaw` at its text, for the
class and the tables, and vitess at its normalised text, for columns, aliases,
functions and stars. `Sql` has a statement once, as a tree; `Text` writes it as
lexemes, in which a dotted name is one. `Scanner` translates the first view,
`Parser` the second, and `analysed` joins them into the record
`Analysis.Analyze` takes. Vitess itself is external: it parses a statement whose
syntax MySQL shares and whose normalised names have at most two components
(three for columns).

A function of `ast.go` that calls itself on the children of a node is an
operator on the attributes of the children, so that a node carries what the
function returns for it (`columns`, `functions`, `aliases`, `walk`, `ctes`), next
to its `text` and its `uses`. The lists of vitess are nodes too: what a loop
does to them is what the operator does to such a node. `uses` is the meaning of
a node, independent of the walk: every name in it, what it is used for, and the
constructs around it.

`Grammar` builds trees from the bottom up. `Call`, `Operate`, `Hide`,
`ListExprs` and `Nest` make expressions, `Derive`, `Join`, `Parenthesise` and
`Comma` table expressions, `DefineCTE`, `MakeSelect` and `Unite` queries;
`IssueQuery`, `Insert`, `CreateAs`, `Delete`, `Update` and `Drop` complete a
statement and analyse it. `built` holds the nodes that are ready. With enough
room every statement over the given names has a derivation; `MaxBuilt`,
`MaxSteps`, `MaxExpr` and `MaxClauses` bound it for TLC, and the proofs use none
of them.

### Preflight and PlanParse

`Send`, `Abort` and `Read` are the loop of `runStatement`; `Answer`, `Cut`,
`Refuse` and `Down` the coordinator and the network. `reported`, `ended` and
`blamed` are history variables: the documents in the pages that arrived whole,
whether the last page was among them, and whether something outside the proxy
went wrong. `PlanParse` adds the estimates of documents up with wrap-around at
`MaxInt`; a conversion out of range is a choice between the values that the
supported processors give. An estimate is a whole part and a fraction, which
`toInt64` drops.

### Session

`server` is what `main` is doing; `conv[c]` is a conversation: a POST that is
judged (`Submit`, `Reject`, `Forward`) and one `Poll` per page, each through
the proxy of that moment. `Answer` is the coordinator's page together with
`rewriteTrinoURIs`: which early return applies, whether the URL ends within the
window, what length is declared and what the body really has. `faults[c]`, a
history variable, records what befell a conversation: a swap away from its
coordinator, and from outside a failed listener or upstream, or a page that is
not as `rewriteTrinoURIs` takes Trino's pages to be.

### Guard

A step is one of a request (`RequestStep`, any action of `Pipeline` but the
reloads) or one of the watcher (`WatcherStep`, any action of `Watcher`), which
also extends the histories of the requests that are being served. Nothing else
is shared, as in `main`, where only `cfg` and `handler` are handed to both.

## 3. Runs

| Run | Instance | Checks | States |
|---|---|---|---|
| `pipeline_reload` | 1 request, 4 policies, 9 statements, 5 plans | `TypeOK`, `IndInv`, `RejectionJustified`, `AllowJustified`, `RoutedInForce`, `AuditFollowsPolicy`, `JudgedAsForwarded`, `RulesEnforced`, `Responds` | 249 822 |
| `pipeline_gate` | 3 requests, 2 slots, a read and a bypass statement, 3 plans | `GateExact`, `Accounting`, `BlockedBytesExact`, `Responds` | 175 104 |
| `watcher` | 3 saves, 5 documents and 2 torn ones, 2 forms of the path, 2 reload goroutines | `TypeOK`, `SettledInSync`, `SettleInv`, `JobsInv`, `EventuallyInSync`, `ImplementsHotReload` | 1 049 647 |
| `parser` | statements of up to 5 productions, one node kept at a time | `ClassIsOutermost`, `BlockedTableRejected`, `FilterEnforced`, `FilterAttributed`, `WalkSound`, `VisibleUseRejected` | 599 299 |
| `preflight` | 9 documents, 49 pages, 3 sets of headers, 2 documents a chain | `TypeOK`, `FailsForCause`, `ChainInv`, `VerdictExact`, `AllOrNothing`, `Ends` | 24 447 |
| `session` | 2 clients, 2 upstreams, 8 pages, 2 pages a conversation | `TypeOK`, `LostForCause`, `DrainsInFlight`, `FramingExact`, `SessionInv`, `Exits` | 641 604 |

What they show, beyond the names:

* `AuditFollowsPolicy`: the audit line of a rejection and the plan snapshot in
  it are what one policy in force asks for with both of its settings, never the
  line of one and the snapshot of another.
* `JudgedAsForwarded`: a statement that goes upstream as allowed goes there
  whole; a body that breaks on either side of the cap is never allowed in part.
  What is not judged (bypassed) may go as far as it was read.
* `SettledInSync` covers a watcher that was stopped with a timer pending: the
  reload that still comes leaves the announced contents in force.
* `RulesEnforced` compares the outcome of a request with `Rules.obeys`, which
  talks about the statement: what passes obeys all static rules of one policy
  that was in force, never half of one and half of another, and what Tier 1
  turns away breaks a rule of one. A statement that vitess refuses has no
  filter, and its names count as tables even if they are CTEs.
* `BlockedTableRejected`, `FilterEnforced`, `FilterAttributed` and
  `VisibleUseRejected` compare the verdict of `tier1` with the meaning of the
  statement (`Sql`), not with the analyser's own result. Their premises say how
  far the analyser reaches: tables in a leading position, references outside
  statements with namesakes, functions and stars in the SELECTs that the walk
  enters, statements without a CTE named like a verb.
* `WalkSound` is about the result itself: of calls, columns in predicates and
  stars it misses none outside the constructs that the walk does not enter
  (`Blind`, `BlindForCalls`), and makes none up. It does not say that those
  inside are missed: the documents say that they are found (`claim_calls`).
* `VerdictExact` compares the verdict on the plan with one on all the estimates
  that the coordinator reported, with their fractions and added up without a
  width (a sum is the size of a set of units). Its premise is that the sums are
  int64 values. The code's verdict is never the stricter one. It can be more
  lenient in two ways: documents that the code cannot read whole (a NaN in an
  I/O plan, a bare operator tree, the CPU cost of a plan without tables) lose
  estimates; and each fraction that the conversion to int64 drops loses less
  than one byte or row, so that what is allowed is allowed exactly under limits
  raised by the number of such estimates. Without either the verdict is exact.
  Details strings give whole numbers, and the CPU cost is compared as it is.
* `AllOrNothing` is the refinement of `Evaluation`, `ImplementsHotReload` that
  of `HotReload`.
* `LostForCause`: a conversation breaks off only for a cause outside the proxy
  (`HasCause`: the process ends, the upstream fails, the client sends no Host,
  the page is not as expected) or at one of the proxy's own two limits
  (`WithinLimits`: an upstream swap, a listener of another scheme). Neither is
  meant as correct: both are listed below among what the documents deny.

Why the bounds are enough. A request reads the policy five times, so with one
request every placement of reloads between them is covered; four policies
suffice to make consecutive tiers and the audit disagree (cost limits on one
upstream, the same without snapshots, static rules on another, and looser limits
with a host-less upstream). `MaxBody` is 3:
statements of 3 and 5 bytes, cut after 2 and 4, lie on both sides of the cap
and of the break. Limits are met exactly (10 bytes, 5 rows) and exceeded by
one. Requests interact only through the gate and the counters, so three for two
slots cover that. In the watcher three saves allow one to be missed, one to be
torn and one to arrive during a reload; two goroutines suffice for an overlap;
the two forms of the path are the image's and the flag's default.
Five productions put a predicate into a query, nest it, wrap the result in
another query and that in a statement; with `MaxBuilt` = 1 the operands of a
production are one node built before and leaves, or that node twice.
Two documents suffice to spread a table over pages, to overflow `MaxInt` = 7,
and to make two fractions of one half (`Unit` = 2) one whole over a limit; pages without documents repeat without end. `Window` is 4, with
URLs that end before, at and after it in pages shorter, as long and longer; two
pages of a conversation allow a swap before each poll.

Fairness. The pipeline runs assume that goroutines run, that contexts reach
their deadline, that `client.Do` returns once its context is done, and that
forwards and readiness probes end (dialer timeout, `ResponseHeaderTimeout`,
2 s). They do not assume that the upstream ever answers an EXPLAIN, nor that a
slot becomes free. A response that is streamed without end is outside the
model. `watcher` assumes that the watcher's goroutine, timers and reload
goroutines run and that a write that has begun ends; it does not force saves or
the stop. `preflight` assumes that the evaluating goroutine runs and that
`context.WithTimeout` ends its context; nothing of the coordinator. `session`
assumes that `main` runs and that the grace period ends; nothing of clients and
coordinators.

Deadlock is checked in the pipeline runs. The other systems really may stop (no
more saves, a statement of full size, an evaluation that is over, a process
that has exited), so their runs switch the check off.

### Documented claims that the code does not meet

Each is a run that TLC refutes; the quotations are in `PROJECT.json`.

| Run | Claim | What happens |
|---|---|---|
| `claim_rename` | directory mounts and ConfigMaps hot-reload | swapped-in files bring no Write event and are not loaded |
| `claim_overlap` | a changed policy is in force once reloaded | an older overlapping reload can finish last |
| `claim_path` | `-config policy.yaml` is hot-reloadable | events of a bare path are named `./policy.yaml` and ignored; no edit is loaded |
| `claim_tables` | `Tables` has every table referenced | one that is first inside parentheses is missing |
| `claim_calls` | functions are found anywhere in a statement | one in an ON clause is missing |
| `claim_scheme` | rewritten URLs lead to the proxy | they keep the scheme of the upstream, also before a TLS listener |

`claim_path` rests on how fsnotify's inotify backend (v1.7, Linux) names events,
which is not in the repository; the properties with `DirectoryGiven` say what
holds of other paths. `claim_overlap` needs a reload that takes longer than the
200 ms debounce; the properties with `~overlapped` say what holds when none does.

Other disagreements, which the models have or leave out as said, without a run
of their own:

* After an upstream swap the polls of a running query reach a coordinator that
  does not know it (`WithinLimits`), while `RUNBOOK.md:187` promises a proxy
  "rebuilt atomically with no dropped connections".
* `README.md:9` and `errors.go:9` say that what cannot be parsed is forwarded;
  Tier 1 still judges it by its class and scanned tables, and rejects it for any
  required filter, since its columns are unknown (`ast.go:91`).
* `metrics.go:23` and `RUNBOOK.md:36` say that fail-open forwards are counted as
  `bypassed`; a failed pre-flight is counted as `allowed` (`handler.go:268`).
* By the rule that `claim_calls` shows, the functions in subqueries of WHERE, in
  derived tables inside joins and on both sides of a UNION are missed
  (`BlindForCalls`); by that of `claim_tables`, the tables after a comma.
* An estimate is truncated before it is added, so a plan may be over a limit by
  less than a byte or row per estimate and pass; `trino.go:423` says so
  ("truncate to int64. Acceptable for realistic sizes").
* `classifier.go:133` says that names of CTEs are skipped; a CTE named like a
  verb (`show`) decides the class.
* `README.md:244` says a predicate on another table cannot satisfy a filter;
  tables are told apart by bare name, so a namesake in another schema can.
* `SELECT*` without a space is of class OTHER, so it is not pre-flighted.
* A CTE named like an unqualified table hides it; quoted identifiers and
  `DROP TABLE IF EXISTS t` give no table name that a rule could match.
* One estimate that is no number empties a whole plan document, and a bare
  operator tree (neither in an array nor under `queryPlan`) is not walked,
  although `trino.go:414` calls that walk the fallback.
* A body whose read fails is forwarded as far as it was read, with a length to
  match, while `handler.go:205` says "untouched".
* A policy with a host-less upstream passes `Validate`: pre-flights use it (and
  fail open) while statements keep going to the old upstream.
* A refusal of the gate may be counted with a slot free, because Go's `select`
  picks at random when the context is done too.
* A change of the file between `Load` in `main` and the watcher's `Add` is
  never loaded (`missed = "unwatched"`); a new `max_concurrent` has no effect.

## 4. Proofs

All proofs are checked by TLAPS with the SMT, Zenon and PTL backends.

**Assumptions.** `PoliciesAssumption` (policies are validated; discharged for
the watcher by `LoadedPoliciesValidate`), `PipelineAssumption` (finitely many
requests, positive capacity, lengths and estimates are numbers, a scanned name
has a component),
`LowerAssumption` (folding is idempotent), `WordsAssumption` (keywords are
identifiers and their own folded forms), `NamesAssumption` and
`RulesAssumption` (names in statements and policies are non-empty sequences of
identifiers, none of them just a parenthesis or white space),
`WatcherAssumption`,
`MaxIntAssumption`, `PreflightAssumption` (pages hold documents),
`UnitAssumption` and `VerdictAssumption` (estimates are natural numbers with a
fraction of any denominator, limits are natural numbers) and
`SessionAssumption` (upstreams have a scheme, URLs end within their page). TLC
evaluates each on the instances.

**PipelineProofs.**

* `TypeCorrect`: `Spec => []TypeOK`, action by action.
* `GateCorrect`: `Spec => []GateExact`. `GateExact` is inductive with `TypeOK`;
  the work is in how the cardinality of `Holders` changes when one request
  enters or leaves it.
* `Inductive`: `Spec => []IndInv`. The properties below talk about finished
  requests and are not inductive: that a 400 was justified depends on what the
  request knew when it left Tier 1 or the evaluator. `RequestInv` states it at
  each stage (past Tier 1 some policy in `seen` passes the statement; on the way
  to a 400 some policy in `seen` breaks the rule; a request that is being judged
  has read its body whole; no outcome or target is set early), and `InForce`
  says that the live policy and proxy are in the histories of every running
  request, which is what a step that reads them needs.
* `RejectionsJustified`, `AllowancesJustified`, `RoutesInForce`,
  `AuditsFollowPolicy` and `JudgedStatementsAreWhole` follow.
* `CountersExact`: `Spec => []Accounting`. Each counter is the cardinality of a
  set of requests; the lemmas say how such a set changes when one request takes
  a step, and each action adds to a counter exactly when its set grows.
* `RulesHold`: `Spec => []RulesEnforced`. `AllowJustified` and
  `RejectionJustified` say which verdict a policy in force gave, and `Tier1Exact`
  of `StaticProofs` what the verdict means. In between `InspectedInv` is needed:
  a request that is being judged, was allowed or got a 400 holds a statement and
  not a bypass, for which `Analyze` returns an empty analysis that proves
  nothing.
* `BlockedBytesCorrect`: `Spec => []BlockedBytesExact`. The sum is written as
  the cardinality of a set, one pair per byte of a rejected plan, so that the
  same kind of lemma applies: `CheckLimits` adds the bytes of one request, which
  are disjoint from the others, and no other step touches the set. `BlockedInv`
  adds that the set is finite and that a request rejected for its cost never
  gets to the limits again.

**WatcherProofs.**

* `TypeCorrect` and `JobsCorrect`: a goroutine past `LoadFile` carries a policy
  that `Load` returned, and one in the callback carries an installed policy.
* `RefinesHotReload`: `Spec => Abstract!HotSpec`, for any number of overlapping
  goroutines. `SetConfig` maps to `Set`, a successful `Swap` to
  `UpdateUpstream`, every other step to a stutter. So what is proved of
  requests against `HotReload` holds against the real watcher.
* `SettleInductive` and `Settles`: `SettledInSync` speaks of a watcher at rest;
  `SettleInv` says what is true on the way, as long as nothing overlapped: one
  goroutine at most is running, announced contents will be read again
  (`Pending`) or are carried by the goroutine at work, and `currentUpstream`
  equals the proxy's target except between `Swap` and `Assign`. For any path
  that gives the file's directory, the name of an event equals it
  (`DirectoryGiven`), so that no Write event is lost; a stop loses none of what
  the property speaks of, since the watcher is at rest only without events.

**PreflightProofs.** `ChainInv` says that the cells collected are the documents
reported, but for the page that is being read, and that a reply which will make
the evaluation fail has been accounted for. `FailuresHaveACause` is one of its
conjuncts; `RefinesEvaluation` shows that `Answer` maps to `Report`, a failing
step to `Fail`, the last `Read` to `Finish`, and every other to a stutter.

**SessionProofs.** `SessionInv` ties a conversation to its coordinator while no
swap has befallen it, a URL that misses the listener to its cause, and its
scheme to that of the coordinator;
`LossesHaveACause` and `ShutdownDrains` follow. `FramingCorrect` is arithmetic
on the window, for any lengths.

**VerdictProofs.** `PlanParse` is three nested loops, written as recursive
functions. The library's induction principles take an operator as a parameter,
which the provers cannot instantiate, so induction is stated in set form
(`NatSetInduction`: a set with 0 that is closed under successor contains every
natural number), from the existence of least elements in a well-founded
relation (`WFMin`). Each loop then has a lemma that its function satisfies its
recursion, and one that every prefix equals the reference for that prefix.
`AggregateExact` is the result for a sequence of documents; it needs the sums to
fit, since intermediate sums are then int64 values too and no addition wraps.
The sums are those of the whole parts, which is what the loops add up.
`PartsBounded` bounds what is left out: k fractional estimates amount to less
than k units, and rounded up (`RoundedUp`) to k at most. `VerdictCorrect`, `Spec
=> []VerdictExact`, combines them with `ChainInv` (the cells are the documents
reported) and with the monotonicity of `evaluateLimits`, once in each direction:
a smaller estimate breaches no limit that a larger one meets (`DroppingLenient`),
and one that is smaller by at most n breaches no limit that is raised by n when
the smaller one is within it (`DroppingBounded`).

**StaticProofs.** No state: operators against references, for all inputs.

* `OutermostVerb`: the counter of `classifyWith` is the number of pairs of
  parentheses around a token (`DepthIsNesting`, by a bijection between the pairs
  closed so far and the closing parentheses), so the verb found is the first one
  outside all of them.
* `LeadingNamesScanned`: the scan misses no qualified name right after FROM,
  INTO, TABLE, UPDATE or JOIN.
* `Tier1Exact`: `tier1` allows a statement exactly when it `obeys` the policy.
  It is stated for statements that are inspected and policies whose required
  filters have a column, as `Validate` demands: with none, mode any-of would
  never be satisfied while the code finds nothing missing.
* `LeadingTableGuarded` chains the two, from the tokens to the verdict.
* `LetterCaseIrrelevant`: respelling tables and functions changes no verdict.

**GrammarProofs.** The six invariants of the run `parser`, for every statement
of the grammar: any names, any size, any nesting.

* `DerivationInvariant`: `Spec => []DerivationOK`. A derivation is an induction
  over trees in time, so that no induction over data is needed: every node built
  so far is in order, and a production whose operands are in order makes a node
  that is. In order (`ExprOK`, `TableOK`, `WithOK`, `QueryOK`, `StatementOK`)
  means that
  * its text is balanced and free of comments (`Fit`), and every table among its
    uses in a leading position stands behind FROM, INTO, TABLE, UPDATE or JOIN
    there (`Carries`);
  * a query or a change is headed by its verb: what is before it is a WITH
    clause with no verb outside parentheses (`Headed`), unless a CTE is named
    like one;
  * what the walk collects from it is what its uses say outside the constructs
    it does not enter (`ResultOK`, `Found`), and every alias is one of a table
    among its uses (`AliasOK`).
* `TokensAreLexemes` and `ClassOf` take this to the scanner: the tokens of a
  text are the lexemes it was written from, whatever comments and blanks are
  around them, and the class is the verb that heads them.
* `ClassFound`, `LeadingTableRejected`, `RequiredFilterEnforced`,
  `RequiredFilterAttributed`, `WalkMissesNothingVisible` and `VisibleUseFound` follow
  through `ResultOfIssued`, which says what `Analyze` returns, and the
  definition of `tier1`. `SameLast` is what normalisation has to do with it: it
  keeps the last component of a name, and three components become two.

**GuardProofs.** `RefinesWatcher` and `RefinesPipeline`: the composed proxy
implements both of its parts. A step of the watcher is a `SetPolicy`, a
`SwapProxy` or a stutter of `Pipeline`. When an installed policy is set again,
or a swap changes nothing, the histories must not grow by anything new, for
which `HistoryInv` says that what is live is in the history of every request
that is being served. By these two theorems every theorem about `Pipeline` and
`Watcher` holds of the composition; that last inference is one on paper,
because tlapm cannot cite the theorems of an instance. No run has `Guard` as its
module: its actions are those of the runs `pipeline_*` and `watcher`.

**Only model-checked.** `Responds`, `EventuallyInSync`, `Ends` and `Exits`:
liveness under fairness is outside the prover's reach. Every invariant and every
other property of a passing run is a theorem.

## 5. Not modelled

* The character level: escapes and quotes in SQL, reading YAML and JSON. A
  statement is a tree and a sequence of lexemes; a document carries the policy
  or the estimates it decodes to, or none.
* Quoted identifiers, FROM inside function calls, UPDATE with joins, and the
  cast and aggregate expressions of vitess one by one: they are `Opaque`.
* `infoUri` and `partialCancelUri`, which a client need not follow, and the
  HSTS header.
* Log lines other than the audit record, request identifiers, metric labels,
  the JSON of a rejection.
* `parser_errors_total` and the values of `errors.go`: `Analyze` never returns
  an error, so they are never used.
* Backends of fsnotify other than inotify, and policy paths with `..` in them.
* The values of timeouts: a deadline may pass at any moment. `WriteTimeout` and
  the upstream's failures are one step, `Breaks`.
* Deployment files and scripts.

## 6. Plan

The order in which the project was built: the request path and hot reload
(`Pipeline`, `HotReload`, `Watcher`), then the evaluator (`Preflight`,
`PlanParse`, `Verdict`), the parser (`Scanner`, `Sql`, `Parser`, `Grammar`), the
server and its conversations (`Session`), the composition (`Guard`), and for
each the proofs of what its run checks. What could be added:

1. What happens to the sums beyond int64: `VerdictExact` says nothing there, and
   `BlockedBytesExact` only that the counter never goes down.
2. The character level of `tokenizeRaw` and `normalizeForVitess`: quoted
   identifiers and literals, which the lexemes of `Scanner` leave out.
3. UPDATE with joined tables, whose ON clauses `analyzeUpdate` collects.
