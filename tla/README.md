# Verification of the Cloudflare DNS operator

TLA+ models of the operator in this repository, checked with TLC, and theorems about
them proved with TLAPS: about every modelled part but the recording rules.
`PROJECT.json` maps every definition to the
lines it stands for and lists the runs, the hazards with the properties that
watch them, the mutants that show each property can fail, the findings and the
theorems.

## 1. The system

| Component | State it keeps | Operations | What is hard about it |
|---|---|---|---|
| Circuit breaker (`internal/reliability/circuit_breaker.go`) | state, generation, counts, expiry, under `mu` | `Execute` (beforeRequest, fn outside the lock, afterRequest), `Reset`, `State`, `Counts` | results that come back in a later generation; `State` changes the breaker under a read lock; half-open quota; lock-out |
| Rate limiter (`rate_limiter.go`) | tokens, last refill, rate and burst | `Wait`, `Allow`, `Reserve`, `SetRate`, `Reset`, stats | lazy refill; lock released between try and delay; `Reserve` reserves nothing; rounding; bursts of 0 |
| Retry (`retry.go`) and `ExecuteWithReliability` | loop variables; limiter and breaker are shared | retry loop, classification, delays | the other two components' refusals are retried; cancellation against timers |
| CloudflareRecord controller (`internal/controller`) | none: objects on the API server, informer cache, work queue | `Reconcile`: finalizer, status, deletion | stale reads, conflicts, lost answers, restarts, a feature flag that switches reconciling off |
| Configuration manager (`internal/config/manager.go`) | current configuration, load options, callbacks, auto-reload goroutine | `LoadConfig`, `ReloadConfig`, change callbacks, auto-reload, `Close` | loads run outside the lock and overlap; loops are cancelled, not awaited; callbacks run in goroutines of their own, in any order, and their slice is read without the lock |
| Feature flags (`feature_flags.go`) | a pointer to a `FeatureFlags` struct | read, set, override per environment, clone | the stored configuration and its flag manager share a struct; custom flags named like standard ones |
| Configuration watcher (`loader.go`, `WatchConfig`) | its last report, two channels of capacity 1 | initial load, tick, sends | compares with its last report only; blocking sends; ends for good on an initial failure |
| Configuration loader (`loader.go`, `types.go`, `validation.go`) | a configuration and the source of each field | `LoadWithPriority`, `Merge`, `Validate` | zero values, priorities, combinations that only the final validation sees |
| Operator wiring (`cmd/main.go`) | the goroutine between watcher and manager | initial load, hot reload | two components that load separately, at different moments |
| SLO manager (`internal/slo/slo.go`) | last calculation and error budgets per window, `stopCh`, `doneCh` | `Start`, `Stop`, loop, calculations | unawaited, overlapping calculations; stop at any moment |
| Error budget manager (`error_budget.go`) | snapshots per SLO and window, at most 1000 | record, burn rate, prediction, report | a report assembled under several locks; time order of snapshots |
| Graceful shutdown, health checks (`internal/health`) | a list of callbacks | last in, first out on a signal; probes | timeouts are passed on, not enforced |
| Recording rules (`recording_rules.go`) | none: rules for Prometheus | generation | rules that read what no other rule records |
| SLI calculator, SLO configuration, logging, tracing, metrics, API types, test helpers | little or none | | not concurrent, placeholders, generated, or output only |

How they interact: `main` loads the configuration, starts the watcher and gives the
manager to the controller, which asks it for the flag `EnableReconciliation` at
each reconcile. `ExecuteWithReliability` runs retry around limiter around breaker around the
call. The SLO package and graceful shutdown exist beside the operator; `main` does
not create them.

## 2. Modules

| Module | Models | State and actions |
|---|---|---|
| `CircuitBreaker` | the breaker | `cb` is the struct, `callGen` the generation on each caller's stack; one action per critical section: `BeforeRequest`, `AfterRequest`, `Reset`, `ReadState`; `Tick` is the clock. `remaining` is expiry minus now, in ticks. |
| `MCCircuitBreaker` | the same, with the time spent in the present state as history | |
| `CircuitBreaker_proofs` | theorems | section 5 |
| `TokenBucket` | the limiter | tokens counted in parts of a token, `elapsed` is now minus last refill, `pc` and `timer` place each caller in `Wait`. Adaptive equals Block: the counter it looks at is never incremented. |
| `MCTokenBucket` | the same beside an ideal bucket | |
| `TokenBucket_proofs` | theorems | section 5 |
| `Reliability` | `Retry` and the composition | `INSTANCE`s of the two components share their variables; `phase`, `attempt`, `lastErr`, `backoff` are the retry loop's |
| `MCReliability` | counts calls made after the context was done | |
| `Reliability_proofs` | theorems | section 5 |
| `RecordLife` | what the controller promises of each record | abstract: phases absent, new, pending, ready and terminating; steps of users, counted by `edits`, and of the operator |
| `RecordController` | reconciler, cache, queue, API server | each API call is one action; failure and lost answer are alternatives to it. A copy of an object carries whether it is still the stored version, which is all a resourceVersion decides. |
| `RecordController_proofs` | theorems | section 5 |
| `ConfigStore` | what the manager promises its readers | abstract: loads begin, finish with a content the sources had since then, or are abandoned; clearing |
| `ConfigManager` | manager, auto-reload loops, callbacks | a load is read (`Read`, no lock), installed (`Install`, lock) and announced (`Notify`, no lock); `calls` is the bag of callback goroutines; a configuration is the content it was read from; `alive` is the process |
| `ConfigWatcher` | `WatchConfig` | `watch` is where the goroutine is; two one-place channels |
| `HotReload` | `ConfigManager` + `ConfigWatcher` + `main`'s select | joint steps when `main` receives a report and reloads |
| `HotReload_proofs` | theorems | section 5 |
| `ConfigLoader` | `LoadWithPriority` | one step per source; one field stands for each kind of field |
| `FeatureFlags` | flag managers over a loaded configuration (extends `ConfigLoader`) | `object` is the struct in each place, `flags` which place a holder's manager points to; one action per method |
| `FeatureFlags_proofs` | theorems about loading and flags | section 5 |
| `SLOManager`, `MCSLOManager` | the SLO manager | `loop` and `checked` place `run`; a calculation has two stages, one per critical section; a budget is the sequence of measurements folded into it |
| `SLOManager_proofs` | theorems | section 5 |
| `ErrorBudget`, `MCErrorBudget` | the error budget manager, for one SLO and window | `taken` is a snapshot worked out and not recorded yet; a report is four steps, one per lock, placed by `pc` |
| `ErrorBudget_proofs` | theorems | section 5 |
| `RecordingRules` | the generated rules and Prometheus | `present` are the recorded series that have samples; `Evaluate` a group |

Three refinements are stated, checked and proved. `ImplementsStore` says that `ConfigManager` (and
`HotReload`, which adds watcher and `main`) implements `ConfigStore`: the
mapping is the identity on `source` and `current` and takes the history `had`, what the
sources said since each load began. A load that fails or installs is a step of the store, a
read, a notification or a callback is none. `UsesBreaker` says that `Reliability` does with
the breaker only what `CircuitBreaker` specifies: the safety part of `B!Spec` over the
composed behaviour, with the identity on `cb` and `callGen`. `LivesAsPromised` says that
`RecordController`, with its stale cache, queue, lost answers and restarts, implements
`RecordLife`: the phase of a record is what `PhaseOf` sees of the stored object (its
finalizer, its deletion timestamp, whether its generation was observed), and `edits`, the
number of users' writes, tells a user's step from one of the operator's.

## 3. Runs

| Run | Shows | Bounds |
|---|---|---|
| `circuit_breaker` | counts account for calls, half-open quota, open breakers hold no call of their own, no lock-out, open lasts longer than `Timeout`, closing needs every probe's success, open and half-open end | 3 callers for 2 probe slots (one is always refused), 2 ticks of interval and timeout, 5 generations: closed, open, half-open and both ways out of it |
| `token_bucket` | no window of time sees more grants than an ideal bucket gives; waits end; cancelled waits end | 2 waiters and 2 competing `Allow`s, a token is 3 parts (so truncation happens), 3 limits, one with burst 0 |
| `reliability` | operations end; at most one API call after cancellation; the breaker is only used as specified | 2 operations, 1 retry each, breaker with 1 probe and threshold 2 |
| `retry_attempts` | finding: the error counts attempts that were not made | 1 caller, 3 retries |
| `record_controller` | every record lives as `RecordLife` has it; processed objects carry the finalizer; a status is for the stored generation; nothing that needs work is forgotten; deletions complete and every generation is observed once the flag stays on | 1 record (records share only the worker; the safety theorems are for any number), 3 edits, 2 configurations, 1 crash |
| `hot_reload` | the manager implements `ConfigStore`; auto-reload converges; `Close` is final but for loads already running; callbacks keep up; hot reload loses no change while its last reload went well | 1 auto-reload loop and `main`, so that two loads overlap; 1 callback with 2 calls pending, so that calls overtake one another; 2 contents, 1 start, 1 close. The theorems are for any number of loops, callbacks and contents |
| `hot_reload_startup` | finding: after a failed first load the manager never recovers | no auto-reload |
| `config_load` | priorities, the record of sources, production rules of a loaded configuration; then its feature flags: nobody changes the stored ones, overrides hold | 4 sources, each speaking of at most 1 of 6 fields, or failing: any two fields can still be set by different sources; 1 holder (holders meet only in the stored struct), two standard flags, one custom name besides |
| `config_flags` | finding: the environment cannot turn a flag off | same |
| `slo_manager` | stop returns and ends monitoring; every window is measured; values precede budgets | 2 windows, 4 calculations: the first of each and 2 more, which overlap them |
| `error_budget` | the history is the latest snapshots; a report contradicts itself only if something was recorded while it was made; its statistics are those of the copy it took | 2 callers (symmetric), so snapshots arrive out of order; 1 report; a limit of 3 and 4 records, so the oldest is trimmed, also during the report; 2 ticks, an hour of 2; ratios in fifths |
| `recording_rules` | finding: three of four multi-window alerts never have their burn rates | the generator's own sets |

Bounds are constants named in the modules' comments as such. They guard actions of
the environment (edits, crashes, starts, ticks of tickers), with one exception: a step
that would take the breaker past its last generation, or past the requests counted
in one closed interval, is not a step of the model, and its liveness properties speak of
generations below the bound.

`CHECK_DEADLOCK FALSE` is said where a behaviour really ends: every object gone and
every bound used up (controller), a load that has returned (loader), a manager
that has stopped (SLO), a process that has crashed (hot reload), all snapshots recorded
and the report made (error budget).

`TypeOK` of `TokenBucket`, `RecordController` and `ErrorBudget` is no property of a run: it is
proved (section 5). That of `Reliability` is documentation of its state.

Details worth knowing:

- `HotReloadConverges` is stated for auto-reload off, which is what
  `NewConfigManager` gives `main`, and with `Reverts = FALSE`: the sources do not
  return to an earlier content. With `Reverts = TRUE` TLC finds the watcher's blind spot:
  the manager's own load reads a content between two reports, and when the
  sources return to what the watcher last reported it reports nothing.
- `CallbacksKeepUp` is about callbacks whose last change was installed when no earlier
  one was on its way (`sole`): `notifyCallbacks` starts one goroutine per callback
  and change, and two of them run in either order, so that a callback may end with the older
  configuration when changes overlap. It fails without that premise.
- `notifyCallbacks` ranges over `m.callbacks` without the lock. A registration or a
  `Close` between the unlock and the range is a data race (`racing`): the loop sees the
  slice as it was, as it is, or torn; the last ends the process (`alive`).
  Nothing happens after that; the liveness properties are about a process that lives on.
- `OverridesHold` excepts the listing of a custom flag named like a standard one:
  `IsEnabled` looks at the standard flag first, `GetAllFlags` lets the custom one hide it, and
  the two then disagree. The override itself holds even then.
- A report of `ErrorBudget` whose copy and prediction straddle a new snapshot may
  show a budget as used up and predict its exhaustion for later; `QuietReportsAgree` says
  that this is the only way to get such a report.
- `RecordingRules` evaluates what `generateMultiWindowRules` refers to: burn
  rates over `2h`, `1d` and `3d`, which `generateSLOBurnRateRules` does not record, and
  over `6h`, which it does from an SLI that `generateSLIRules` records over
  `5m`, `30m` and `1h` only.
- In `RecordController` a write of a status that changes nothing (same second,
  same fields) is no new version, hence no event.
- `ClosedStaysClear` excepts loads that were running when `Close` was called: the
  code does not wait for them, and they do install their result.
- In `ConfigLoader` the fields are `environment`, an interval, a flag that is off by
  default, one that is on, `LeaderElection` (never merged) and one custom flag.
- `EveryWindowMeasured` holds because `run` spawns the first calculations before it
  looks at `stopCh` or its context. The calculator's queries are placeholders that
  cannot fail; when they can, it will hold only of windows whose query succeeds.
- `Stop` of an enabled SLO manager that was never started waits for ever, in spite of
  its comment; `StopReturns` is stated of a manager that is started.

## 4. Fairness

Weak fairness of goroutines that can run, of the clock, and of timers. Beyond that:

- `TokenBucket` has strong fairness of leaving a sleep whose context is done: Go's
  select picks at random among ready cases, so it cannot pass over one for ever.
- `RecordController` has strong fairness of starting a queued key (one worker
  serves all) and of each API call's success: a server that fails every call for
  ever promises nothing to anybody.
- `ConfigManager` and the watcher have strong fairness of a successful read, for the
  same reason.
- Spawned callbacks (`RunCallback`) and the end of a load (`Notify`) are goroutines that
  can run, with weak fairness as long as the process is alive.
- Prometheus evaluates each group of rules again and again: weak fairness per group.
- `ErrorBudget` and `FeatureFlags` state safety only, and no fairness.
- Users, crashes, `Start`, `Stop`, `Close`, cancellation and changes of the sources
  have none.

## 5. Proofs

`CircuitBreaker_proofs` proves, for any finite set of callers and any values the
constructor admits:

- `TypeCorrect`: the types, and that no call is ahead of the breaker's generation;
- `Accounting`: requests = successes + failures + calls of this generation in flight;
- `Quotas`: a half-open breaker has at most `MaxRequests` requests and no failure;
- `OpenIdle`: no call of an open breaker's generation is running;
- `NoLockout`: a half-open breaker that refuses everyone has a probe in flight;
- `FullEvidence`: a result closes the breaker only as the last of `MaxRequests` successes;
- `HoldsOpen`: an open breaker stays open for longer than `Timeout`, unless it is `Reset`.

All rest on `Invariance`, the inductive invariant `IInv`: typed state, exact accounting,
quota and idle open state together. None is inductive alone: the quota needs the
accounting to know what a late result may do, the accounting needs that a new
generation has no calls (`FreshGeneration`, from the generation bound in
the types), and `NoLockout` is the accounting at the quota. The lemmas treat the operators:
`SetStateFresh` and `CurrentStatePreserves` the generation changes,
`AdmitPreserves` admissions, `CountResult`, `ReturnPreserves` and `LateReturnPreserves`
results; `NextInv` has one step per action. `HoldsOpen` is about `MCCircuitBreaker`'s
history and adds `CountsDown`: the time spent open and the time left until expiry make up
`Timeout`. Assumed are the named `ASSUME`s of `CircuitBreaker` only.

`TokenBucket_proofs` proves, for any callers, token size and finite set of limits:

- `TypeCorrect`: the types, among them that the tokens fit the current limit's bucket;
- `LimitHolds`: in no window of time are more requests granted than by an ideal bucket of the
  fastest rate and the largest burst.

The lazy bucket alone is no inductive bound: `SetRate` credits the time since the last
refill at the rate it finds, so the same time may come to more tokens later. `IInv` therefore credits the
un-refilled time at the fastest rate (`Covered`: the ideal bucket has at least that much).
`GreatestExists` gives the fastest rate and the largest burst of a finite set. Assumed are the named
`ASSUME`s of `TokenBucket`; the one on `MaxElapsed` says that the cap of the model's clock
lies beyond the time any limit takes to fill any bucket, so that the cap hides nothing.

`Reliability_proofs` proves, for any number of operations, retries and delays:

- `Composition`: what `ExecuteWithReliability` does with the breaker is a behaviour of `CircuitBreaker`;
- `BreakerPromises`: so the accounting, the quota, the idle open state and the absence of a
  lock-out hold inside the composition too;
- `CallsMatch`: the breaker holds a generation for an operation exactly while its function runs;
- `LateCalls`: an operation whose context is done makes at most one more call.

The breaker's invariant is taken over through an instance of its proof module; `Placed` adds where each
operation is in `Retry`. `LateCalls` needs `Spent`: an operation that has made its late call is
past every place from which another attempt starts. Assumed are the breaker's
assumptions, as `BreakerAssumption`.

`RecordController_proofs` proves, for any set of records, any number of workers and any
bounds:

- `TypeCorrect`: the types, and that no generation is observed before it exists;
- `Finalizers`: an object whose status was written carries the finalizer;
- `Memory`: a record that needs work is queued, to be queued, in progress or about to
  be delivered;
- `Statuses`: a status is written for the stored generation only, never on an object
  that is being deleted;
- `Refinement`: every step is a step of `RecordLife` or leaves all phases alone.

The invariant behind them, `IInv`, is what optimistic concurrency gives. `Copies`: a cached or
held copy of the stored version is the stored object. `Branch`: the write a reconcile is about
to make suits the object it holds (no finalizer or status for one being deleted, no status
before the finalizer, the finalizer removed only from an object being deleted), as long as
the write would be accepted at all. `Copies` is what
makes a final return on an empty cache safe for `Memory`, and `Branch` what `Finalizers`
and `Statuses` need of a write. `StorePreserves` and `ReturnPreserves` say what a write
and the end of a reconcile change; one lemma per kind of step follows, and
`NextInv` puts them together. For the refinement `StoreTakes` and `StoreStutters` say what a write
means for the phases; `UserLives`, `FinalizerLives`, `StatusLives` and `DeleteLives`
treat the writers. Assumed is `ControllerAssumption` only.

`HotReload_proofs` proves, for any loops, callbacks, contents and bounds, of manager, watcher and
`main` together:

- `TypeCorrect`: the types, among them that a manager with a configuration has the options to
  reload it;
- `CloseIsFinal`: after `Close` the manager stays clear until a load that ran then installs
  something;
- `KeepingUp`: a callback whose last change was alone on its way ends with the current
  configuration;
- `Refinement`: every step is a step of `ConfigStore` or leaves its variables alone.

`IInv` adds three facts to the types. `Fresh`: what a load has read is something the
sources said since it began, which is what makes `Install` a `Finish` of the store.
`OnlyStragglers`: a closed manager has no load options and only stragglers load, so that a
cancelled loop's tick cannot bring the configuration back. `Informed`: whatever is
on its way to a callback with `sole` is the current configuration, and it was told that one if
nothing is on its way. `BagAdd` and its neighbours say what spawning and running do to the bag of
calls. Assumed is `ConfigAssumption` only.

`SLOManager_proofs` proves, for any sequence of distinct windows and any bound that leaves
each its first calculation:

- `TypeCorrect`: the types, among them that `doneCh` is closed exactly when the loop has
  ended;
- `ValuesFirst`: no window has an error budget without values;
- `StopIsFinal`: no calculation is started once `Stop` has returned.

`IInv` adds `Room` (the bound leaves room for the calculations that are due), `Stored` (a calculation
in its second critical section has stored its values) and `Stopped` (a `Stop` that has
returned leaves no loop behind). Assumed are the named `ASSUME`s of `SLOManager`.

`FeatureFlags_proofs` proves, of loading and of the flags handed out afterwards, for
sources that say any number of things and any number of holders:

- `PriorityHolds`: a scalar of a loaded configuration is what the highest source says of
  it, or the default;
- `SafeProduction`: a loaded production configuration satisfies the production rules;
- `RecordIsLast`: the source on record for a field is none that a higher one overruled;
- `StoredFlagsKept`: no holder changes the flags of the stored configuration;
- `OverridesKept`: a manager overridden for production keeps experimental features off, and
  what it lists as enabled is enabled.

`IInv` has a part for each half. Loading (`LInv`): sources still to be read have said
nothing, so that `ByPriority` and `Recorded`, which state the first and third theorem of the sources
read so far, are preserved by merging the next; and what is loaded was validated. Flags (`FInv`): a
manager points to a struct of its own or to none, never to the stored one, and the stored
struct is the loaded one. Assumed are `LoaderAssumption` and `HoldersAssumption`
(the stored configuration is nobody's own).

`ErrorBudget_proofs` proves, for any callers, reports, limit, target and clock:

- `TypeCorrect`: the types;
- `LatestKept`: the history is the latest `MaxSnapshots` of all that was recorded;
- `QuietAgreement`: a report contradicts itself only if something was recorded meanwhile;
- `Statistical`: a report's statistics are those of the copy its current state is from.

`IInv` adds `Copies` to the first three: a report's current state is that of the last snapshot of its
copy, and the copy is the history while nothing is recorded, which ties the burn rate,
computed from the history, to it. `Statistical` is about the loop of
`calculateStatistics`, the recursive function `RunningStatistics`. That the function exists, and what it
is at each snapshot, is shown by least counterexample (`Follows` and its neighbours, `SumsThrough`), with the
loop invariant `Sums`: smallest and largest so far, number of violations so far, start of the
violation in progress, longest one ended. Assumed is `BudgetAssumption` only.

Only model-checked: all liveness (fairness and ENABLED are outside the prover). Not
proved either is `TypeOK` of `Reliability`: the type of its delays needs facts about
exponentiation that the provers lack. The findings are TLC's counterexamples. The library's
induction theorems take an operator, which the provers cannot instantiate; where an
argument is inductive (`GreatestExists`, `SumsThrough`) it is made by a least element of a
well-founded order instead.

## 6. Not modelled

- Logging, tracing, metrics, generated code and API types have no state that decides
  anything; the SLI calculator returns constants; SLO configuration is defaults and range
  checks; health checks are stateless handlers.
- Graceful shutdown: a list of callbacks run last in, first out, that no part of the
  operator creates; `main` uses controller-runtime's signal handler.
- In the modelled parts: `OnStateChange` and `OnRateLimited`, the custom `ReadyToTrip`, the numbers
  inside the SLO manager's budgets, burn-rate alerts (logged only), parsing of individual
  keys, `validateCrossFields`, `updateConfig` (only tests call it), the performance
  settings the reconciler reads once in its constructor, YAML and CRD output of the rules.
- An SLO target of 100%, which leaves no budget to divide by.

The hazards in `PROJECT.json` without a property, and why: a state change callback that
calls the breaker waits for a lock its own goroutine holds (there is no such callback to model);
after a failed initial load the watcher's channels are closed and `main`'s select sees them at
once, for ever (steps that change nothing, which TLA+ does not tell from rest); the SLO manager's
estimate of the time to exhaustion overflows (its numbers are left out).

## 7. Plan

Done: breaker, limiter, composition with retry, controller and its abstract life cycle,
configuration manager with watcher, `main` and callbacks and its abstract store, loader and
feature flags, SLO manager, error budgets, and the proofs of all of them; recording rules.

Next:

1. An abstract limiter (grants within a budget of time) that `TokenBucket` implements, so that
   `Reliability` can be composed with it the way it is with the breaker, and `LimitHolds`
   carried into the composition.
2. Theorems of what the liveness properties rest on: that a waiting caller's delay
   suffices for a token, that an open breaker's next request is a probe.
3. Graceful shutdown, once a part of the operator creates it.
