# caddy-waf: models and proofs

TLA+ models of the Go middleware and of the Python tools in this repository,
the TLC configurations that check them on small instances, and proofs of their
main properties that TLAPS checks for every value of the constants.  Actions,
variables and operators carry the names of the code; `PROJECT.json` maps every definition
to the lines it models, and lists the runs, the hazards each property is for,
and, for every property, a plausible bug in the code that it catches.

```
tlc -workers 2 -config Reload.cfg MCReload      # a run
tlapm UsageStoreProofs.tla                      # the proofs
```

Contents: [1 inventory](#1-inventory), [2 plan](#2-plan),
[3 modules and code](#3-modules-and-code), [4 runs](#4-runs),
[5 bounds](#5-bounds-and-why-they-are-enough), [6 fairness](#6-fairness),
[7 proofs](#7-proofs), [8 divergences](#8-where-code-and-documentation-differ),
[9 not modelled](#9-what-is-not-modelled).

## 1. Inventory

The repository holds two Caddy HTTP handlers, `waf` and `bandwidth_quota`, and
Python tools: scripts that download the lists and rules the WAF watches, a
traffic generator, and test and benchmark suites.  Requests are served by
concurrent goroutines; each handler has background goroutines of its own.  The
tools run beside the server, some of them with threads, and beside each other.

| part | source | state | operations | correct if |
|---|---|---|---|---|
| quota store | `bandwidthquota_usage.go` | `usage`, `dirty`, `deletions`, `lastNow`, the bbolt file | `record`, `check`, `flush`, `prune`, `load`, `close` | a restart finds the usage of one moment; nothing counted is lost but what was recorded after the last flush; windows never lose usage |
| bucket list | same (`prefixUsage`) | buckets with running totals | `add`, `usageSince`, `retryAfter`, `prune` | every window is the exact, saturating sum; Retry-After is the first second of admission |
| manager registry | same | path -> manager, references | `acquireManager`, `releaseManager` | one live manager per path, closed with its last handler |
| quota handler | `bandwidthquota.go` | pending bytes of a response | `ServeHTTP`, `Write`, `ReadFrom`, `Provision`, `Cleanup` | what is delivered is counted, below 1 MiB late |
| request pipeline | `handler.go`, `rules.go` | score, `WAFState`, counters | phases 1-4, block, allow | scores add up over phases; a refusal stops the request; an allowed response is untouched |
| response recorder | `response.go` | buffered body, status | `Write`, `Flush`, `overflow`, `release` | bytes in order and once; memory bounded; inspected means whole |
| rate limiter | `ratelimiter.go` | a counter and window start per address and path | `isRateLimited`, cleanup | a bounded number of requests in any stretch of time |
| hot reload | `caddywaf.go`, `rules.go`, `ipwhitelist.go` | active rules and lists, regex cache | file watchers, `ReloadRules`, `ReloadConfig`, `Shutdown` | at rest the configuration is what the watched files say; shutdown ends and nothing follows it |
| IP and DNS lists | `blacklist.go`, `ipwhitelist.go` | prefix tries, domain map | loading, lookup | - |
| log worker | `logging.go` | bounded channel | `logRequest`, `StopLogWorker` | every entry is written once, the buffered ones before `Shutdown` goes on |
| lifecycle | `caddywaf.go` | databases, channel, watchers | `Provision`, `Shutdown` | shutdown ends, in its order, under running requests |
| GeoIP and ASN policies | `geoip.go`, `handler.go` | cache entries with expiry timers | lookup, fallback, expiry | a request passes only policies that agree with its address, or that failed and may fail open |
| Tor list | `tor.go` | list file | first update, ticks with retry, merge and write | what the file held stays unless a write is cut off; the exit nodes come into force again and again |
| request values | `request.go` | buffered request body | `extractBody`, JSON paths | the upstream gets the whole body |
| parsing, transforms, matching | `config.go`, `transform.go`, `types.go` | - | pure functions | - |
| feed scripts | `get_*.py` | collected rows, a temporary directory, the output file | download, parse, save | what is saved is what the sources that answered list, unless runs meet in a file; failed downloads leave the rules |
| traffic generator | `caddytest.py` | queue, `Stats`, `stop_event` | pool of workers, retries, `--max-errors`, `--score` | the verdict is that of the answers; enough failures stop the run, soon; it ends |
| test and benchmark suites | `benchmark.py`, `e2e.py`, `check_waf_config.py`, `debug_waf.py`, `debug_test_results.py` | results so far, `benchmark.json` | send, compare, predict, append and save | earlier results are kept; predictions come true |
| the rest | `test.py`, `test_anomalythreshold.py`, `ui/`, `docs/`, data | - | - | - |

**How they interact.**  A quota request calls `check` before the upstream and
`record` while the response streams; both take `m.mu`, which the store's one
goroutine takes for the snapshot and the cleanup of a flush but not for the
database transaction.  Handlers of one `state_path` share a manager through the
registry, also across Caddy's configuration changes.  A WAF request reads
`m.Rules` once a phase, without a lock; a watcher goroutine for each file
replaces rules and lists under `m.mu`.  The upstream writes into the recorder,
which may turn into a pass-through half way.  Phase 1 asks the rate limiter,
whose map a cleanup goroutine sweeps, and then the country and ASN policies,
which share one cache over databases that `Shutdown` closes.  Errors and rules
that log go through a bounded channel to a worker goroutine.  The WAF and the
feed scripts meet in the watched files, which a script or the Tor updater of
any instance truncates and then writes, while a watcher may load them and
another updater merge with them.  The suites meet the WAF in its rules file and
its answers, and each other in `benchmark.json`.

**What is hard.**  Records between a flush's snapshot and its cleanup; crash or
clock change between them; a shared manager closing under a request; responses
that overflow, flush, are blocked or panic; reloads that overlap, fail, or run
while a request is between phases; lock waits that make a time stale; a
shutdown that closes channel and databases under requests; lists that are read
half written, by a watcher or by an updater that then writes what it read;
downloads of which some fail; counters compared by threads that did not change
them; results that are read long before they are written back.  These are the
`hazards` of `PROJECT.json`, each at its line.

## 2. Plan

Order: what loses data or lets a blocked body out first.

1. `UsageStore` with its abstract specification `UsageLedger` - done, proved.
2. `PrefixUsage` and `RetryPromise` (the exact bucket list and Retry-After) - done, proved.
3. `QuotaHandlers` (registry, accounting) - done, proved.
4. `ResponseRecorder` / `RecordedResponse` with the abstract `BodyPipe` - done, proved;
   `WafPipeline` composes the recorder with rules, phases and reloads - done, proved.
5. `RuleLoading` / `Reload`, `RateLimiter` - done, proved.
6. `Lifecycle`: log worker, GeoIP cache and policies, `Provision`'s early return
   and `Shutdown`'s order in one module - done, proved.
7. `FeedParsing` / `Feeds`: the feed scripts and the Tor updater, composed with
   the WAF's watchers through the files they share - done, proved.
8. `TrafficGenerator` - done, proved.
9. `WafTests` / `TestSuites`: the suites and the WAF they ask - done, proved.

All 33 safety properties that the passing runs check are proved (section 7).  Sums
over sets and induction over data are within reach after all: `DataLemmas`
states induction for a set of numbers or of sets and derives from it what
`SumFunctionOnSet` computes, with which bytes, admissions and scores are
counted; folds over sequences (the matches of a phase, the rules of the files)
are unfolded over their positions in the same way.

## 3. Modules and code

| module | models | notes on the correspondence |
|---|---|---|
| `UsageData` | arithmetic and retention of usage | a "book" maps (prefix, second) to bytes; it stands for the in-memory maps and for the bbolt bucket, 0 for "no bucket" |
| `UsageLedger` | abstract: what the store promises | a live book, and a durable one that is only ever replaced by a whole copy of the live one |
| `UsageStore` | `usageManager` | `runner` is where `run()` is in its `select`; a flush is `FlushSnapshot` (locked), `UpdateCommits`/`UpdateFails` (unlocked), `FlushCleanup` (locked); `Crash` may come anywhere; `Open` and `OpenFails` are `newUsageManager` |
| `PrefixUsage` | the bucket slice | `Add` with its insertion by binary search and `rebuildCumulative`, `UsageSince`, `RetryAfter`, `Prune`; a rebuilt total is given as the saturated sum of the buckets up to it, which is what the loop adds up |
| `RetryPromise` | record/check/prune of one prefix | the wall clock may be set either way; `promise` remembers what a refused client was told |
| `QuotaHandlers` | registry and `ServeHTTP` accounting | the manager is abstracted to the bytes it counted and the file to what a close writes (that is `UsageStore`'s subject) |
| `ResponseRecorder` | `responseRecorder` as operators | `Write`, `WriteHeader`, `Flush`, `release`, `CopyResponse` on a record with the client's view in `wire`, `status` |
| `BodyPipe` | abstract: what a client may see of a body | |
| `RecordedResponse` | a recorder between an upstream and a client | the upstream writes, flushes, sets headers; the client may leave |
| `WafPipeline` | `Middleware.ServeHTTP` | one action per phase; a phase is atomic since it reads `m.Rules` once; the matching of rules is an input (how many targets match), their processing is not |
| `RuleLoading` | `loadRulesFromFile` | IDs seen, regex cache, sort by priority |
| `Reload` | watchers, `ReloadConfig`, `loadRules`, the wait in `Shutdown` | a watcher is named by its path and exists if its file does when `Provision` ends; building a list is without the lock, rules are loaded file by file under it; `overtaken` remembers that another watcher has swapped a list since this one read it |
| `RateLimiter` | `isRateLimited`, cleanup, stop | a thread reads the time (`Arrive`) and decides under the lock (`Decide`) later |
| `Lifecycle` | log worker, GeoIP and ASN policies, `Provision`, `Shutdown` | a request is at a `policy` of Phase 1, in a lookup, about to store its record, or reports an error; lookup and store are separate since the code looks up between two locked sections; an address is the record the databases have of it |
| `FeedParsing` | what each script's parser takes from a page | a page is a set of lines by what the parser finds in them; `OwaspRules` and `SpiderlabsRules` say which directives become rules |
| `Feeds` | the download scripts, `tor.go`, the files, the watchers and the server's life | a script is at a source, in its write or done, and may be killed anywhere; a write is a truncation and, later, the rows, of the output and of the downloads in the shared directory, whose files have different names within a run; an updater may fail in its request, its reading, at the opening of the file and after it; each `caddy reload` provisions another instance, whose predecessors' updaters go on; a crash of the server, or a start without any rule, ends all of them |
| `TrafficGenerator` | `caddytest.py` | a worker's attempt is `Send`, then what came of it; recording under the lock and the comparison with `--max-errors` after it are separate steps; `late` counts sends after the stop |
| `WafTests` | the requests of the suites, their comparison and prediction, and the WAF's answers to them | the WAF's scoring is that of `WafPipeline` for one phase of literal rules |
| `TestSuites` | the five suites at work, two of them `benchmark.py` | one action per test; the server goes down and up, the rules file is edited and reloaded, any suite may be aborted or killed |
| `MC*` | values of constants for TLC | |
| `UsageStoreProofs`, `ReloadProofs`, `LifecycleProofs`, `FeedsProofs` | theorems about the component | |
| `ResponseProofs` | theorems about the recorder, `RecordedResponse` and `WafPipeline` | lemmas on the recorder's operators first, which both use |
| `LimitsProofs` | theorems about `QuotaHandlers`, `RateLimiter` and `RetryPromise` | what is counted and what is refused |
| `ToolsProofs` | theorems about `TrafficGenerator` and `TestSuites` | |
| `DataLemmas` | lemmas about sets and numbers | induction and `SumFunctionOnSet` |

Operators named "Variant" in the modules are one plausible bug each and are
used nowhere; they document what a property is sensitive to.

## 4. Runs

| run | distinct states | what it shows |
|---|---|---|
| `UsageStore` | 21 k | at every instant file + pending changes = memory (`MemoryMatchesDisk`), though a flush writes differences and requests record meanwhile; only late records stay dirty; windows lose nothing (`UsageStaysInWindow`), a clean restart forgives nothing even with the clock set back; the store refines `UsageLedger`; dirty entries reach the file; `close` ends |
| `RetryPromise` | 143 k | every window is the exact sum (`WindowIsExact`), also after pruning has rebased the running totals, and Retry-After over several windows is exactly the first second of admission |
| `QuotaHandlers` | 256 k | references match handlers; the shared manager knows every byte delivered by all handlers through all configurations, short of the buffers and of requests that outlive the grace period |
| `RecordedResponse` | 71 k | memory bound, what is held is whole, refinement of `BodyPipe` |
| `WafPipeline` | 196 k | a request goes on only while its matches are harmless and under the threshold over all phases; an allowed body arrives whole and once; Phase 4 vouches only for what it saw whole; no byte of a blocked body is delivered |
| `Reload` | 105 k | once the watchers rest, the rules are what the files say, if they hold any, and so are the lists unless an overtaken reload swapped them last; nothing changes after `Shutdown` returned, and it returns |
| `RateLimiter` | 356 k | the bound on admissions in any stretch, and refusals only when deserved |
| `Lifecycle` | 382 k | every entry is written once through a full buffer and a closing channel; shutdown drains the buffer before it closes the databases, and ends; no request gets past a policy with a database that its address, or its configured fallback, fails, whatever the cache holds and when the databases close |
| `TrafficGenerator` | 141 k | the verdict of `--score` is right though skipped and abandoned requests are counted nowhere; as many failures as `--max-errors` stop the run though each thread compares for itself; after a stop no thread sends twice; a verdict comes |
| `Feeds` | 154 k | what was put into the IP list by hand stays there through Tor updates, those that fail before they have truncated the list, reloads and crashes outside a write; a script saves what the sources that answered list, also when another run removes its downloads; failed downloads leave the WAF with rules; the Tor nodes come into force again and again, after failed writes and crashes too |
| `TestSuites` | 506 k | runs of `benchmark.py` keep each other's results unless they overlap or are killed in the write; what `check_waf_config.py` predicts is what the WAF answers, under the conditions its code assumes |
| `WafBodyRules` | violation (1 k) | the first body rule that matches without blocking ends Phase 4 |

The violation is a disagreement between code and documentation; `findings` in
`PROJECT.json` quotes the line.  Some passing properties carry the conditions
that the divergences of section 8 make necessary, and each comment names them:

* `RulesCurrent` and `ListsCurrent` except edits that no watcher notices (of a
  file that was missing when the watchers started all of them), `RulesCurrent`
  files without any rule, `ListsCurrent` a list swapped last by a watcher that
  another had overtaken, and the DNS list after a `ReloadConfig` that ended at
  the IP list;
* `GeoPolicyHolds` says nothing of a policy whose database is missing, where
  documentation and code disagree about what is right;
* `ManagerCountsDelivered` excepts what a panic or a late request drops;
* `OwnEntriesStay` excepts writes of the IP list that fail or are cut off after
  the truncation, merges of the truncated list, two writers in it, and scripts,
  which mean to replace it;
* `SavedListIsWhole` excepts two writers in the output and, of the DNS script, a
  run that finds the temporary directory gone when it comes to write there or
  reads a list that the other run has truncated and not yet written;
* `RulesSurviveDownloads` excepts cut-off writes of a rule file, two writers in
  one, and error pages taken for rules;
* `TorNodesReturn` needs `update_interval` in the configuration;
* `BenchmarksAreKept` and `PredictionsComeTrue` have the conditions section 8 gives
  for `benchmark.py` and `check_waf_config.py`.

What is excepted is in the models, and the code does it: the hazards of
`PROJECT.json` say with each property what it leaves uncovered.

Deadlock is not checked where the system may rest for good: a response or a
request that has ended, all handlers cleaned up, watchers without events, a
stopped limiter, an instance that is down, scripts and suites that are done.
`UsageStore` and `RetryPromise` never rest and are checked for it.

## 5. Bounds, and why they are enough

| run and constants | why |
|---|---|
| `UsageStore`: `Prefix` 1, `LastSecond` 1, `MaxBytes` 3, `Retention` 1 | keys interact only through the clock (prune, load); two seconds give an expired, a current and a future key in turn, and 3 saturates. The theorems cover all values |
| `RetryPromise`: `LastTime` 7, two windows (2 s/2, 4 s/4), `MaxTotal` 6 | both windows can be exceeded alone and together, and pruning rebases within the run; `AddInAnyOrder` checks out-of-order `add` and saturation on all series up to four. The theorems cover all windows, amounts and clocks that never make `lastNow` go back |
| `QuotaHandlers`: 3 handlers, 2 requests, chunk 3, writes of 1 and 3, `MaxSent` 4 | three handlers give an old configuration, its successor and a failed `Provision`; a response can be exactly at, above and below a chunk |
| `RecordedResponse`: limit 3, writes of 0-4 bytes, body up to 6 | writes that fit, fill, exceed at once and exceed after some are held |
| `WafPipeline`: limit 2, threshold 5, up to 2 matches per rule, two rule sets, `MaxProduced` 3 | scores reach, miss and exceed the threshold within and across phases; a reload can add or remove the body rules at any point |
| `Reload`: two rule files with three contents, three lists, `MaxEdits` 2; one rule file and the IP blacklist may be missing at first | two edits give every pair of overlapping watchers, a failed reload followed by a good one, an edit between two files of one load, and a file that appears before or after the watchers start |
| `RateLimiter`: 2 requests per 3 s, two threads, 8 s, 7 requests, waits up to 1 s | more than two windows and one request more than the bound of any stretch allows |
| `Lifecycle`: 2 requests, 3 addresses, 4 configurations, buffer of 1 | the buffer is empty, full and drained late; one request reads what the other cached, also after the databases are closed; each policy is the one that decides, with and without fallback, fail-open and expiry |
| `TrafficGenerator`: 2 threads, 4 requests, three command lines with limits 1 to 3 and 0 to 2 retries | two threads can fail at once, one of them below the limit before the other compares; requests are left in the queue after a stop; every behaviour profile is taken |
| `Feeds`: one address list and the exit list, two domain lists, two rule files, nine meetings (`Setup`): which scripts run, whether there is a Tor updater, whether its interval is configured, and whether the server is reloaded, crashes, or both | the scripts of a meeting share a file, the temporary directory or the server with the Tor updater; every source answers or fails at every place, and so do reads and writes; two instances, and one crash of the server. The safety theorems cover any instances, pages and meetings |
| `TestSuites`: 4 rules files, 3 runs of `benchmark.py`, one edit, thresholds 5 and 7 | the third run meets results of two; the rules make each prediction come out both ways, and one of them is edited between the prediction and the test |

## 6. Fairness

Five specifications state fairness.

* `UsageStore`: the flush ticker keeps firing (`WF FlushSnapshot`), a transaction that
  has begun ends, a bbolt file is not unwritable for ever (`SF UpdateCommits`:
  without it nothing can promise that a dirty entry is written), and `select`,
  which chooses at random among ready cases, does not pass over a closed stop
  channel for ever (`SF StopReceived`).  Nothing is assumed of requests, the
  clock, crashes or the caller of `close`.
* `Reload`: goroutines that can run do (`WF` of each watcher and of the wait).
  Edits and the start of a shutdown are not fair.  Weak fairness is enough for
  the mutex because edits are finitely many: a watcher waits only while another
  one has an event left.
* `Lifecycle`: the goroutine of the worker and the caller of `Shutdown` run when they can
  (`WF`).  Requests are not fair: one may stay in a lookup for ever.
* `TrafficGenerator`: threads run and every send is answered or times out, as
  `requests` is given a timeout (`WF` of each thread's step and of the main
  thread's judgement).  Nothing is assumed of the answers.  The timeout is one
  for each socket operation: a server that sends a byte now and then for ever is
  outside this.
* `Feeds`: the goroutines of an instance run, its watchers load what they took
  (`WF` of each updater, of a provisioning when nothing serves, and of `Load`);
  downloading the exit list, reading, opening and writing the IP list succeed
  again and again, if not always (`SF` of `Asked`, `ReadExisting`, `BeginWrite` and
  `EndWrite`, for some instance: without them every update could fail);
  a watcher that has an event of the IP list again and again while the file is
  whole takes it once then (`SF`: updates are hours apart, a write takes
  milliseconds); a script is not in the middle of a write for ever, it ends it
  or dies (`WF`).  Scripts need not start, and the server may crash once.

## 7. Proofs

`UsageStoreProofs`, from the assumptions `UsageDataAssumption`
(`LastSecond`, `MaxBytes`, `Retention` are naturals, the latter two positive) and
`UsageStoreAssumption` (windows are within the retention period, which
`Validate` and `minimumRetention` ensure):

* `TypeCorrect`, `MatchesDisk`, `PutsAndDeletesDisjoint`.  `MemoryMatchesDisk`
  alone is not inductive: from a state in which the snapshot has nothing to do
  with the maps, `FlushCleanup` could drop anything.  `IInv` adds what a
  snapshot still says about the maps while a transaction runs
  (`SnapshotStillPending`: its entries are still dirty, perhaps with a newer
  value; its deletions are still wanted or have turned into entries), what the
  file holds after the commit (`SnapshotWritten`), and that no goroutine runs
  without a manager.  One lemma per action, then one `NextIInv`.
* `OnlyLateRecordsStayDirty`, by a second invariant on top of the first: an
  entry nobody touched since the snapshot equals the snapshot's.
* `WindowsKeepUsage`, an action property: pruning reaches only seconds at or
  before `now - Retention`, a window only those after `now - duration`, and
  the manager's clock never goes back.
* `RestartsForgiveNothing`, an action property: after a clean close the file is
  what memory was (`IInv`), and of what `load` makes of any book no window counts
  less than before (`LoadedWindow`): the future's total is in the second of the
  start, and adding it there saturates no earlier than adding it key by key.
* `StoreImplementsLedger`: every step of the store is a step of the ledger or a
  stutter; the commit of differences is the ledger's `Persist` of a whole copy
  because of `IInv`.

`ResponseProofs`, from `ResponseRecorderAssumption`, `RecordedResponseAssumption` and
`WafPipelineAssumption`.  For `Write`, `WriteHeader`, `Flush` and `CopyResponse`
the lemmas say where the bytes are before and after (`Whereabouts`): all in the
buffer and none on the wire, or, once the recorder passes through, all on the
wire unless the client has left.

* Of one response: `RecorderTypeCorrect`, `NeverHoldsMore`, `HeldWholeOrPassedOn`,
  `FlushReachesClient` and `RecorderImplementsPipe`, for every limit and bodies
  of every length.
* Of a request: `AllowedIsWhole`, `VettedWhole` and `BlockedIsHeldBack`, for any
  rules, custom responses, limits and reloads; the texts need only be
  sequences.  The invariant: while the request is not blocked and the recorder
  exists, the upstream's bytes are all held or all passed on; after a block in
  Phase 4 the recorder holds the body and the block's text and the client has
  none of it.  Of the rules only this is needed: they block or leave the
  recorder alone.  `BlockedIsHeldBack` assumes that no custom response contains
  a byte of the upstream, or the comparison of bytes says nothing.
* Of the rules: `RequestsGoOnUnderThreshold`, for any rules with scores in `Nat`.
  The threshold is compared with a score that is carried along, the property
  speaks of the matches themselves; `RulesInv` says that until something blocks
  the score is their total, over the phases so far and whatever rules each of
  them read.  The lemmas behind it say that the matches of a phase are a
  sequence of its rules (`HitsAre`, by unfolding the recursion of `FlattenSeq`)
  and that totals of sequences that are joined add up (`TotalJoins`).

`ReloadProofs`, from `ReloadAssumption` (the server has started: the lists loaded and
some rule file held a rule; any file that may be missing then may be missing):
`ListsFollowFiles`, `RulesFollowFiles` and `ShutdownIsFinal`, for any number of edits.
`ListsCurrent` is about states at
rest and not inductive; the invariant says of every state that the last version
of a list is in force with no older one about to replace it, or on its way: an
event is pending, a watcher is about to read it, or has built exactly it.  Two
watchers may have built a list at once: the one that swaps first overtakes the
other, and only if the overtaken one read the older version does its swap put
that in force; then the list is `late` until the next swap.  After the shutdown all
watchers have stopped, and a stopped watcher has no step; a file that is not
watched has no watcher and no events.

`RulesCurrent` compares with a load that starts from the cache the earlier loads
left, so it needs more.  `LoadingInv` says what a load under way has: the rules
of the files it has read, if they have not changed since (`UpToDate`).
`RulesInv` says of the last versions of the rule files what is said of lists:
they are in force, or being loaded, or an event is pending.  The lemmas
`RuleStable`, `FileStable`, `ReadStable` and `LoadedStable` say that a load gives the
same rules again when it starts with the cache it left, rule by rule, file by
file; without them a load that is repeated could differ from the first.  A
file has one order (`ByPriority`), whichever it is: the sort is deterministic.

`LimitsProofs`, three components that count.

* The registry, from `QuotaHandlersAssumption` (handlers and requests are finite sets,
  as everything in one process is): `ReferencesAreCounted`, the reference count
  is the number of handlers that refer to the manager; and
  `DeliveredIsCounted`, the manager that is open, or the file when none is,
  knows all that was delivered short of pending bytes and late records.  It
  needs that every request being served has captured a manager some handler
  made, that a handler with a manager is counted, and that managers get fresh
  names (`opened` is at most the number of handlers that have begun).  Sums over
  the requests change in one place at each step.
* The rate limiter, from `RateLimiterAssumption` (a request or the cleanup that has read
  the time waits at most `MaxWait` for the lock, and no longer than a window):
  `AdmissionHasABound` and `RefusalsAreDeserved`.  Windows begin at least
  `Spacing` seconds apart and admit for at most `Reach` seconds.  The invariant
  bounds what was admitted in any stretch by the windows that can reach into it,
  the last of which has admitted what its counter says; when the cleanup has
  removed the counter, nobody waits who could still open a window too early.
* Retry-After, from `RetryPromiseAssumption` (durations are within the
  retention, which `Provision` and `minimumRetention` see to, limits are at
  least 1, nothing is recorded for 0 bytes, where `record` returns, and the
  total does not overflow): `WindowsAreExact`, `PromisesAreKept` and
  `NobodyWaitsTooLong`, all from `BucketsAreFaithful`.  None of the three is
  inductive.  `Faithful` relates the slice to the history: buckets in order,
  each with the bytes of its second, none missing since the first one or within
  the retention, and the running totals counting from the first bucket, wherever
  pruning has put that.  Then the difference of two totals is the sum of a
  window, the search of `retryAfter` finds the first second at which the window
  is below its limit, and the longest such wait is right for all windows, since
  no window sees more as time passes.  While a promise stands the manager's
  clock is the wall clock.  The branch of `add` for a second before the last
  bucket is not reached, for `lastNow` never goes back; `AddInAnyOrder` checks it.

`LifecycleProofs`: `BufferIsDrained` (the worker ends only with an empty buffer
behind a closed channel, and nothing enters a closed channel); `EntriesAreLogged`
(an entry that is logged is in exactly one of channel, hand and log: the channel
holds no entry twice, a received one leaves it for an empty hand, and a request
logs at most once at each policy and once at the rules, so that its entries are
all different); and `PoliciesHold`: a cached value is the database's or there is none, and a request
at a policy has passed all policies with a database before it rightly, each by an answer that
agrees, a configured fallback or fail-open.

`ToolsProofs`.  Of `caddytest.py`, from `TrafficAssumption`: `TypeCorrect`,
`VerdictsAreRight`, `EnoughFailuresStop` and `StopsArePrompt`, for any finite
pool and any number of requests.  A request waits in the queue, or exactly one
thread has it, or it has its one outcome; the counters are the cardinalities of
the outcomes that are counted; a thread that is still to compare stands for its
own failure, so that the last to compare sees the limit reached.  Of the
suites, from `TestSuitesAssumption` (rule files are sequences of rules with
scores in `Nat`; `validateRule` rejects a negative one, `rules.go:152`):

* `PredictionsAreTrue` (`PredictionInv`: a prediction is that of the file as it
  is, an answer that of the rules in force).  That the two agree is a lemma about
  rules and scores: the arguments that `check_waf_config.py` sends match one
  rule each, so a sum of one or two scores is compared with the threshold;
* `BenchmarksKept` (`BenchInv`: what is to be kept is in `benchmark.json` or with
  every run that is going to write it).

`FeedsProofs`, from `FeedsAssumption` (the OWASP sources and the release of caddy-feeds
hold a valid rule) and `RulesAtFirst` (so does some rule file to begin with,
without which `Provision` fails), for any pages, lists, scripts and any set of
instances:

* `OwnEntriesAreKept`: while nothing explains a loss (`tainted`), the IP list is half
  written by someone who is still writing it, or holds the entries, and so does
  what every updater is about to write.  A failed request or read changes
  nothing of this; a write that fails or is cut off leaves a truncated list
  with nobody to complete it, so the invariant needs the exception, and so does
  a merge with a truncated list, which forgets the entries for good;
* `RulesAreNotLost`: what is about to be written holds rules, whichever script
  writes it, some rule file holds rules or is being written, and without an
  event on a rule file the rules in force are those there;
* `ListsAreSavedWhole`: what a script has collected is what the sources that
  answered list, and of the two runs of the DNS script each download that is
  saved is whole, is being rewritten by the other, or has been removed by it; a
  run that meets the second is `hindered`, and one that meets the third saves
  nothing.

`DataLemmas`: `SetInduction` and `FiniteInduction` are induction for a set instead of
an operator, which the provers can instantiate, both from the least member of
a set of numbers; the lemmas `Sum*` say what `SumFunctionOnSet`, a fold that
chooses the next element, computes whatever it chooses.

**Only model-checked.**  Liveness under fairness (`DirtyReachesDisk`,
`CloseTerminates`, `ShutdownReturns`, `ShutdownEnds`, `RunEnds`,
`TorNodesReturn`), which is beyond the prover, and the finding of
`WafBodyRules`, which is a counterexample.

## 8. Where code and documentation differ

Besides the finding that a run shows, modelling met these; the models follow
the code.

* A panic of the next handler, which is how a proxy aborts a response, skips
  `flushAccount`, and up to a chunk of delivered bytes is never counted
  (`bandwidthquota.go:288`; `docs/bandwidthquota.md:48` says written bytes are).
* `loadRules` swaps the new rules in before it reports that there are none, so a
  failed load replaces the rules (`rules.go:204`): "a failed reload does not
  replace that component's last successfully-loaded state"
  (`docs/dynamicupdates.md:85`; line 75 has such a reload return an error).
* A file that is missing when `Provision` ends is never watched, even when it is
  created later (`caddywaf.go:420`); `docs/dynamicupdates.md` names no such limit.
* Two overlapping `ReloadConfig` calls may leave the older of two blacklists in
  force (`caddywaf.go:508`, `docs/dynamicupdates.md:39`).
* `allowed_requests` is counted once for every phase that passes and once more
  at the end, `blocked_requests` twice for a block in phases 1-3
  (`docs/metrics.md:53-54` counts requests, and line 69 adds the two).
* A block in Phase 3 or 4 may come when status and body have been sent and then
  changes neither (`docs/configuration.md:51`).
* With a custom response the block sends the status first, so the custom
  headers are too late, and writes the body twice; if another status has the
  custom response, the answer is empty (`docs/configuration.md:74`).
* A block message that does not fit in the recorder beside the held body
  releases that body (`handler.go:107` says the buffer is discarded).
* After a reload that brings the first body rule, Phase 4 inspects the empty
  buffer of a response that was passed through (`response.go:127`).
* Retry-After counts from the manager's clock; after the wall clock was set back
  that is ahead, and the client returns too early (`bandwidthquota_usage.go:125`,
  `docs/bandwidthquota.md:44`).
* The rate limiter's window is fixed, not sliding (`docs/ratelimit.md:3`): up
  to twice `requests` in a stretch as long as the window, three times if
  requests wait for the lock while the cleanup runs.
* The regex cache is by ID, so an edited pattern of a known ID has no effect;
  `RulesCurrent` therefore compares with a load that uses the same cache.
* Rules are sorted within a file only, not within a phase (`docs/rules.md:70`).
* A rule whose regex does not compile still claims its ID, and a later valid
  rule with that ID is dropped.
* The removal of a file, and an edit between the load in `Provision` and the
  start of its watcher, are not noticed.
* An unreadable IP blacklist ends `ReloadConfig` before the DNS blacklist.
* `Shutdown` is not a method that Caddy calls (`docs/dynamicupdates.md:16,73`).
* `Provision` returns without an error, and before the rules are loaded, when
  the log file cannot be opened (`caddywaf.go:132`).
  Such an instance has no log channel: its `Shutdown` panics in `StopLogWorker`.
* A `Provision` that fails later leaves the log worker and the limiter's cleanup
  running.
* A GeoIP database that is missing is said to disable the policy
  (`docs/geoblocking.md:26`, `README.md:73`, `caddywaf.go:208` and, for ASNs, 228); the
  policy stays enabled, finds no database and blocks every request unless
  `geoip_fail_open` is set (`handler.go:396`).
* `geoIPCacheTTL` and `geoIPLookupFallbackBehavior` can only be set by a program
  (`docs/configuration.md:191`), and nothing here does: in a server cached records
  never expire, the cache grows with every address, and a failed lookup is an
  error.  The model checks `GeoIPHandler` with and without these options.
* A request that logs after `Shutdown` closed the channel panics, and is answered
  with 500.
* A panic is answered with 500 only if nothing has been sent: otherwise the text of
  the recovery follows what has been sent, under the status already sent, and an
  aborted response ends as if it were complete (`handler.go:34`,
  `docs/configuration.md:14`).
* `redactSensitiveFields` reads `sensitiveKeys` without the lock its writers hold.
* Tor's retry interval adds to the wait for the next tick (`tor.go:117`).
* The interval is parsed by the goroutine before `Provision` has set its default
  (`tor.go:95`, `caddywaf.go:254`): a JSON configuration without
  `update_interval` may update once and never again.
* The updater has no end: those of earlier configurations go on after
  `caddy reload`, and write the same file.
* A write of the IP list that fails or is cut off after the truncation, or two
  updaters at once, may cost the entries put in by hand for good (`tor.go:143`).
* A body whose reading fails half way is not put back (`request.go:236`): what had
  been read is missing for the upstream.

Of the Python tools:

* `caddytest.py`: an error that a retry recovers counts in `stats.errors` but never
  stops the run by itself, since only a request that failed for good compares
  (line 374); the error rate may exceed 100 %, since errors are counted by
  attempt and the total by request (line 258); `--random-path` has no effect; the P95 of two latencies is the
  smaller one (line 239).
* When every source of `get_blacklisted_ip.py` fails, an empty list is written.
* An error page is taken for a rule file without rules by `get_owasp_rules.py`, and
  the empty `rules.json` leaves the WAF without rules; that "the previous rules
  remain in effect" (`docs/scripts.md:102`) is true neither of it nor of invalid
  JSON.
* The scripts write the key `action`; the WAF reads `mode` (`types.go:80`), so a
  generated rule only adds its score.
* Only the first continuation line of a ModSecurity directive is seen: phase and
  severity further down are lost, and the defaults taken.  Rules without a target
  the WAF knows are rejected when they are loaded, and so are patterns that
  Python accepts and Go does not.
* A generated RCE pattern, `(?i)| id`, matches everything; unescaped `$(whoami)` and
  `${jndi` match nothing.
* `get_spiderlabs_rules.py` and `get_vulnerability_rules.py` write files of their own,
  not `rules.json` (`docs/scripts.md:12-13`).
* Two runs of `get_blacklisted_dns.py` share a temporary directory, and the first to
  end removes the other's downloads, which ends that one with an exception; or it
  truncates what the other is about to read, which then saves a part of the list.
* `e2e.py` assumes the expected status when there is no answer (line 133): block rules
  pass when the server is down.  It tests `URL_PARAM` as a URL.
* `debug_test_results.py` reports an issue whenever tests 3 or 4 match: its Boolean
  check is the truth value of the response, which is false for a 403.
* `benchmark.py` loses earlier results when two runs overlap or one is killed while
  it writes (line 397).
* `benchmark.py` means to process the metrics of a failed `ab` (line 57), but what
  it could not find in the output is `None`, which it then fails to format: the
  `TypeError` ends the suite with nothing saved.
* `check_waf_config.py` predicts for a threshold of 5, whatever is configured, and with the score
  of the last rule for each value.

## 9. What is not modelled

* The values a rule's targets yield (`request.go`), `extractBody` among them: it reads
  up to the limit and puts what it read before the rest, for one request and
  without state of its own.  The pipeline takes the number of matches as input.
* Of the lifecycle, the set-up of the loggers and the statistics at the end.  The
  start of the watchers and the wait for them are in `Reload`, the limiter's stop
  is in `RateLimiter`.
* A lookup that is under way in a database while `Shutdown` unmaps it: the reader is
  a library; a lookup that comes later gets its error.
* The IP whitelist's exemption from the reputation policies, a verdict on the
  address like those of the lists.
* Matching itself: regexes, address and host parsing, prefix tries, JSON paths,
  transforms.  They are pure functions of strings; the models take their
  verdicts as inputs.
* Caddyfile parsing, metrics output, formatting and wording of logs, the 429 log
  throttle, the debug helpers.
* Of the Python tools the payloads, headers, latencies and printing; `test.py` and
  `test_anomalythreshold.py`, which send one fixed request after the other; the
  UI, the data files and the Go tests.
* Data races: a request reads `m.Rules` and the lists without the lock that
  their writer holds.  The models let it read the old or the new value, which
  are the outcomes for a map header or pointer written at once.
