# OctoFlux in TLA+

OctoFlux is an OpenAI-compatible gateway. A client asks for a model, an alias or
`auto`; the gateway chooses a provider, a model and an API key, calls the
upstream, and on failure moves on to the next choice. This directory holds a
formal model of it: TLA+ modules translated from the Python source, TLC runs that
check them on small instances, and TLAPS proofs of the properties that should
hold for every configuration and any number of requests. Paths below are relative
to the repository (`src/` in `PROJECT.json`).

## 1. The system

Everything runs on one asyncio event loop in one process. Code between two
`await`s is atomic; concurrency means that many request tasks, the flusher, the
health monitor, discovery tasks and admin calls interleave at their awaits.

| Component | State | Operations | Modelled in |
|---|---|---|---|
| Error policy `app/core/errors.py` | none | classify a status or exception; decision table | `ErrorPolicy` |
| Health `app/core/health.py` | per provider, key, model: failure count, cooldown, last reason | failure, cooldown, success, rate-limit info, check results | `Health` |
| Local limits `app/core/limits.py` | per provider, key: calls in flight, sliding-window counters | check, start, end, reconfigure, dump and load | `Router` (counters), `Limits` (edits), `SlidingWindow`, `SkewedWindow` (the ring, its dump and load) |
| Router `app/core/router.py` | round-robin cursors | `resolve`, `resolve_dynamic`, key order, eviction | `Router`, `KeySelection`, `Discovery` |
| Scheduler `app/core/retry.py` | per request: attempted set, skipped sets, trace, last error | the failover loop, `apply_failure`, streams | `Scheduler` |
| Rate-limit headers `app/core/ratelimit_headers.py` | none | parse to remaining and reset time | effect only, in `Scheduler` |
| Usage `app/core/usage.py` | counters per provider, model, key; SQLite file | record, flush, load, close | counters in `Scheduler`, the file in `Persistence` |
| Provider adapter `app/providers/openai_compatible.py` | HTTP client; discovered models and their age | calls, stream, discovery with cache, check | answers in `Scheduler`; `Discovery` |
| Provider registry `app/providers/registry.py` | adapters by provider | build, close | `Reload` |
| AppState, reload `app/core/app_state.py`, `app/admin/status.py` | the live configuration and registries | build, replace, flush, reload | the swap in `ConfigStore`; `Reload`, `Persistence` |
| Config store and API `app/core/config_store.py`, `app/admin/config_api.py` | YAML file, backups, save lock | read, save, restore, key create and revoke | `ConfigStore`, `SecretMask` |
| Health monitor `app/core/provider_checks.py` | one task | periodic checks, start, stop | `Reload` |
| Statistics `model_stats.py`, `timeseries.py`, `request_log.py` | rings of stamped buckets, histogram, deque | record, read, dump, load | the minute series in `Persistence` |
| Config schema, HTTP routes, auth, dashboard | none of their own | parsing, translation, views | not modelled |

Interactions. A request handler calls the scheduler; the scheduler asks the router
for candidates, which reads health and limits; the scheduler charges the limits,
calls the adapter, and writes health, limits and usage with the answer. All
requests share the health, limits and usage registries: they are how one request
influences another. An admin reload replaces configuration, adapters and scheduler
but keeps the registries.

What makes it hard:

* *Check and charge.* Limits are read when the candidate list is built and charged
  at every attempt.
* *Stale candidates.* The list is built once; health moves under it.
* *Late answers.* Health marks are applied in the order answers arrive, not the order
  calls were sent.
* *Scopes.* A failure rules out a target, a model at a provider, or a whole
  provider, and the last depends on marks other requests left.
* *Partial failures* between taking a slot and giving it back; streams that hold one
  long after the request was answered.
* *Shared refreshes.* Many requests wait for one upstream call, with bounds of their own.
* *Restarts* that lose everything since the last flush, *reloads* under requests in
  flight, *wall-clock* windows.

Correctness, per component: limits and usage agree with the calls really in flight;
a request calls no target twice, stays within its budget, stops on a decisive answer,
does not give up while somebody could still answer, and ends; a provider is paused
only for a reason; a window counter is exactly the calls of its window, across edits,
reloads and restarts; a model list is fetched once for all who want it and kept exactly
as long as it may be; no key is starved or flooded; replaced clients outlive the grace period of
every request that uses them and are closed in the end.

`PROJECT.json` lists every hazard at its line, with the property that covers it.

## 2. Modules

| Module | Models | Variables |
|---|---|---|
| `ErrorPolicy` | `errors.py`: categories, decision table, classification | - |
| `Health` | `health.py`: the record and its four updates, the cooldown of a model | - |
| `Router` | shared routing state, `LimitState`, resolution | `providerHealth` `keyHealth` `modelHealth` `providerLoad` `keyLoad` |
| `Scheduler` | `retry.py`: the failover loop of many requests | the above, `req` `usage` `fallbacks` |
| `Failover` | what the gateway promises one request (abstract) | `task` |
| `SchedulerProofs` | theorems about `Scheduler`: types, calls, outcomes, charges, concurrency, `Failover` | - |
| `CallWindow` | what a rate-limit window promises (abstract) | `recent` `durable` |
| `SlidingWindow` | `limits.py`: the ring of buckets, dump and load | `now` `ring` `saved` |
| `SkewedWindow` | the ring beside `CallWindow` on a clock that may be set back | both |
| `SumTheorems` | what a sum over a finite set is, for the proofs about counters | - |
| `ConfigStore` | `config_api.py`, `config_store.py`, reload: the file, its backups, what runs | `file` `backups` `live` `session` `second` `issued` `edited` |
| `SecretMask` | `config_store.py`: masking and unmasking one group of keys | `named` `stored` `sent` `meant` `result` |
| `ConfigStoreProofs` | theorems about `ConfigStore` and `SecretMask` | - |
| `Limits` | `limits.py`: `LimitState` and `_sync`, with the charges and releases of `retry.py` | `config` `edits` `limits` `stray` `request` |
| `LimitsProofs` | theorems about `Limits`, `SlidingWindow` and `SkewedWindow` | - |
| `Discovery` | `openai_compatible.py`: the model list, its lock and its background refresh; what `resolve_dynamic` makes of it | `list` `listAge` `failAge` `task` `queue` `request` `closed` |
| `DiscoveryProofs` | theorems about `Discovery` | - |
| `Reload` | `status.py`, `app_state.py`, `provider_checks.py`, `registry.py`: generations of configurations | `gen` `client` `monitor` `asks` `retiring` `grace` `request` |
| `ReloadProofs` | theorems about `Reload` | - |
| `Persistence` | `app_state.py`, `usage.py`, `timeseries.py`, `main.py`: flush, flusher, shutdown, restart | `now` `charged` `usage` `series` `inFlight` `disk` `flush` `flusher` `process` |
| `PersistenceProofs` | theorems about `Persistence` | - |
| `KeySelection` | `router.py`: the order of keys | the setting (`policy` `models` `headers` `disturbed` `limit` `budget` `arrivals`), `cursor` `charged` `tokens` `used` `remaining` `top` `blocked` `skipped` `headed` `request` |
| `KeySelectionProofs` | theorems about `KeySelection` | - |
| `MCScheduler` `MCConfigStore` `MCSecretMask` `MCLimits` `MCDiscovery` `MCReload` `MCKeySelection` | instances for TLC | - |

`Scheduler` EXTENDS `Router` EXTENDS `Health` EXTENDS `ErrorPolicy`. `SkewedWindow`
EXTENDS `SlidingWindow`, which implements `CallWindow` (`ImplementsWindow`, with the
refinement mapping `View`). So does the minute series of `Persistence` (`SeriesIsWindow`):
one abstract window, two rings, one cleaned lazily and one stamped. `Scheduler` implements
`Failover` (`ImplementsFailover`, with the refinement mapping `TaskOf`): the stage of a
request is read off its phase, status and trace, what is open to it is `Eligible`. Health,
limits and the ends of streams are hidden by the mapping; that an answer and the next call
are one step in the code is why `Retry` of `Failover` goes on in the same step.
`LimitsProofs` extends both `Limits` and `SkewedWindow`, so the initial predicate, the
next-state relation and the specification of `Limits` are `LimitsInit`, `LimitsNext` and
`LimitsSpec`.

**Actions of `Scheduler`.** Each is everything one request does between two awaits.

| Action | Code |
|---|---|
| `Start(r)` | resolution (which awaits discovery first and nothing after) and the first turn of the loop: reject with 404/400/503, or launch |
| `Launch`, `GiveUp`, `TryNext` (parts of the actions) | the head of the loop: skip rules, budget, charging both limits; the code after the loop |
| `Succeed(r, reset)` | the success branch; a stream keeps its slots |
| `StreamEnd(r)` | the `finally` of `_end_when_done`, for a finished, broken or abandoned stream |
| `Fail(r, failure)` | the failure branch with `apply_failure` and `_record_rate_limit`; ends in an error, a sleep, or the next launch |
| `BackoffElapsed(r)` | the end of the sleep and the next turn of the loop |
| `Garble(r)` | a 2xx whose body does not parse: the exception passes through the loop |
| `Tick` | one second passes: every cooldown runs down |

**Actions of `SlidingWindow`.** `Admit` is `has_request_budget` with the
charge that follows it, `Look` the same without a charge, `Charge` is `record` without a question (tokens, the attempts of
a failover), `Flush` and `Restart` are `dump` and `load` through `limit_counters`, and
`Pass` is time, by less than a window or a whole one. `_advance` is not an action: the
code cleans the ring only when it is asked, and so does the model. `View` reads a ring
the way the next operation would clean it; `CallWindow` is stated on that.

**Actions of `ConfigStore`.** A session is one admin's: `Read` (GET, or the head of the
client-key handlers), `Submit` (the request arrives with the version it was made from),
`Restore` (a save that expects no version), `Abandon` (any refusal). A save is
`Begin` (lock, version check, validation), `Backup`, `Prune`, `WriteTmp`, `Replace`,
`Swap`, and `Finish` when the old monitor has been awaited. Between `Begin` and `Swap`
the code has no await, so no other handler moves (`LoopFree`); the steps are separate
because `Crash` and `Edit`, which do not ask the event loop, come between them. `Reload`
takes no lock. `Swap` may fail: it builds the adapters of a configuration the file already
holds. A configuration stands for its bytes, and its version, a hash of them, for itself;
which of them parse, pass `validate_raw` and can be built from are three sets (`Parsable`,
`Valid`, `Startable`). Backups are named by the wall clock, which `SetClock` moves either
way; `issued` counts the names given since it moved. `raced` and `edited` record hand edits
and `latest` whether a copy has the latest name, for the properties only.

**Actions of `SecretMask`.** `RemoveKey`, `AddKey` and `RenameKey` are what the admin does
to the group the browser shows; `meant` keeps what is meant by it; `Send` is
`unmask_secrets`. A group with names is the keys of a provider or the admin keys, one
without is the client keys, whose identity is their position.

**Actions of `Limits`.** `Edit` replaces the configuration and touches nothing else; a
request takes the configuration it finds (`Arrive`) and keeps it. Every look at the
limits is `Sync`, with the configuration of whoever looks. `Launch` is resolution and the
first attempt, `Failover` a later one, which asks nothing; `Answer` and `Fail` release.
A `LimitState` is an object of which a request may hold a replaced one; the model keeps
the state in force, all counters ever made, and for a request whether its state is the
one in force (`current`) and where its counters are (`place`).

**Actions of `Discovery`.** A task (the shared refresh, or an admin's call) enters
`discover_models` (`Enter`), may queue for the lock, is `Granted` it, and calls: `Answer`
or `Fail`. A request asks (`Ask`): it is given what is cached, starts the refresh if that
is old, and waits only if nothing is cached, until the refresh returns or `TimeOut`.
Between that and `Resolve` it awaits the discovery of other providers, while this list may
change. `Close` is the end of the provider's adapter, which requests of the replaced
configuration may still ask afterwards.

**Actions of `Reload`.** `ApplyConfig` is `apply_config` up to its await, `Stopped` the
return or raise of the old monitor's `stop`, `Close` the delayed close. `Checked`,
`CheckRaises` and `NextRound` are a monitor, whose checks are gathered and answered one by
one. A request is where it is, its generation, and its age up to a grace period; how long it
stays anywhere has no bound. `Tick` is time, before which every timer that is due runs.

**Actions of `Persistence`.** `Leave` charges the limits, `ComeBack` counts usage and the
minute. `Wake` begins a flush, three transactions (`SaveLimits`, `SaveSeries`,
`SaveUsage`) of which each may fail (`FlushFails`) or be the last thing the process does
(`Crash`). `StopFlusher`, `Close` and `CloseSkipped` are the shutdown, `Start` builds the
state from the file.

**Actions of `KeySelection`.** `Arrive` and `Refuse` are `resolve`, which orders the keys
anew for every model that is not passed over, with and without a candidate; `Answer` and
`Fail` come back, with the budget the headers announce, and move key, model and provider in
and out of cooldown; `Failover` tries the next candidate the failure has left; `Reset` is the
end of an upstream's window. `Disturb` is everything else that rules keys and models out or
in: time, failures under other names, stale lists, `concurrent_requests`, `total_limits`.
Each key has its own request and token window or none (`limit`, `budget`). `headed` counts,
for the properties only, which key came first. Both orders, that of the keys under a sort and that
of the candidates by model and then key, are `InOrder` of a set of distinct tuples: a tuple
stands where as many are in front of it as come before it, which is what a stable sort
does, for the position is part of the tuple. Fractions of a window, floats in the code, are
counted in units of which there are `Unit` in a whole. `Unit` is a multiple of every window
and budget, so that they are exact and compare as the code's do.

**Conventions.** A cooldown is the number of seconds left instead of an absolute
instant: the code only compares the instant with the clock. A request's position in
the code is `req[r].pc`; between `calling` and the answer nothing of the request
changes. Operators whose name ends in `Mutant` are faulty variants used to test the
properties; nothing refers to them.

**Abstractions and what they cost.**

* `Route[r]`, the (provider, model) pairs a name stands for, is a constant: it depends
  on the configuration and the discovered models, neither of which changes during a
  run of this model. A pair discovered *and* configured may appear twice, once marked
  dynamic; the code adds the dynamic one only when the configured one was excluded, and
  when it was not the duplicate has the same keys, all attempted or skipped by the
  time the loop reaches it.
* Key order within a pair is left open (`NextCandidates` is a set), so the properties
  hold for every key-selection policy. The order itself is `KeySelection`.
* The request window of a limit is longer than a run: `sent` never falls. Sliding is a
  separate question, asked of `SlidingWindow`. Token budgets are left out: they add a second
  guard of the same kind to resolution.
* Message bodies are the set of patterns they match. Headers are the two values the
  code takes from them. Jitter and the length of a backoff are dropped: the sleep ends
  at some time.
* The statistics registries, the request log and logging never feed back into the
  loop, except model statistics through the ranking of discovered models, which is
  part of `Route`.
* Usage is kept per provider; the model and key breakdowns are incremented by the same
  calls.
* The windows of `Limits` and `KeySelection` do not slide: a behaviour of theirs falls
  into one window. `Limits` has one request and one token window of the seven.
  `KeySelection` has the tightest of each kind, which without sliding stands for all.
* `KeySelection` is one provider and one model name, which lists its models in the order of
  their priorities (an alias may list them otherwise, and the candidates are sorted
  afterwards), asked for with the same token estimate every time. Requests under other names
  of the provider, and models that discovery adds, would move the same cursor; a reload makes
  a new `Router`, whose cursors begin at 0.
* `Route` of the scheduler has a configured pair wherever it has any: `auto` without a
  configured model of the capability is refused with 400 before its candidates are looked at
  (`retry.py:326`), also when discovery found some.
* `SecretMask` has distinct names in a group. The schema sees to that for the keys of a
  provider (`provider.py:140`), not for the admin keys; of two that share a name
  `unmask_secrets` knows the last only (`config_store.py:105`). With distinct masks the save is
  then refused; with equal ones the first takes the secret of the last.
* `Discovery` keeps ages instead of instants, up to `Cap`, beyond every comparison the
  code makes. A list that was never fetched is the empty list: the code distinguishes the
  two only in `known_model_ids`, which trusts neither.
* `Reload` has the longest of the providers' timeouts, from which the grace period is made,
  and the clients of a generation are one: the code closes them one after the other at its
  end. Nothing bounds a request.
* `Persistence` has one provider and one counter for all windows; that they slide, also
  over a restart, is `SlidingWindow`.

## 3. Runs

The runs of the scheduler use `MCScheduler`; deadlock checking is off because the system
stops when every request has been answered, and in the window runs because the clock
stops at `Horizon`. The runs of `ConfigStore` and `SecretMask` stop at the bound on
backups and when the group has been sent.

| Run | Instance | Question | Result |
|---|---|---|---|
| `failover` | 2 providers (2 keys and 1), an alias with 4 entries, one of them listed twice, 3 attempts, 9 kinds of failure; a second request for an unknown model | one request against everything an upstream can do | holds: `TypeOK` `NoTargetTwice` `AttemptBudget` `DecisiveOutcomeEnds` `EveryRequestAnswered` `ImplementsFailover` |
| `concurrent` | 1 provider, 2 keys, at most 2 calls in flight and 1 on the first key; 2 plain requests and a stream; refused, throttled and network failures, unparsable bodies | do the counters agree with reality under every interleaving? | holds: `InFlightAccounted` `ChargesReconcile` `FirstAttemptsWithinLimit` |
| `auto` | 2 providers, configured and discovered models, 2 concurrent requests; refused keys, missing models, server errors | do marks left by one request mislead another? | holds: `MissingModelNotAskedAgain` `ProviderCooldownEarned` `NoPrematureGiveUp` |
| `window` | 3 buckets, limit 2, unasked charges of 1 and 2, 8 slots of time | is the lazily cleaned ring the window of the last slots, across pauses, saves and restarts? | holds: `TypeOK` `ImplementsWindow` |
| `clock_set_back` | 3 buckets, limit 1, the clock set back by 1 to 6 slots any number of times | can the ring forget a call less than a window old? | holds: `NeverUndercounts` |
| `config_store` | 2 admins; a configuration that can be saved and run, one that can only be saved, one that can only be run; hand edits, crashes, 1 backup kept and at most 2 there, a clock of 2 seconds that is moved either way | is an update lost, the file torn, something else running than the file says, or something overwritten that is in no backup? | holds: `TypeOK` `NoLostUpdate` `FileStartable` `LiveIsFile` `BackupKept` |
| `masks` | up to 3 keys, named or client keys; 3 literal secrets, two with the same mask, and a reference | does every masked value come back as the secret that was meant? | holds: `DistinctMasksExact` `NeverAnotherSecret` |
| `limit_edit` | 3 requests of up to 2 attempts, 3 configurations of a key's limits, 2 edits | do edits under requests of older configurations make counters drift? | holds: `InFlightCarriedOver` `KeptWindowKeepsCharges` `OneConfigurationInForce` |
| `discovery` | 2 requests, an admin, 2 models, lists with 0, 1 and 2 of them, an upstream that may also fail or hang | is one call made for all, is a list kept as long as it may be and no longer, does everybody get an answer? | holds: `TypeOK` `OneCallServesAll` `SteadyModelOffered` `ListLifetime` `EveryAskAnswered` |
| `reload` | 3 generations, a request of any number of attempts or a stream, a monitor with 2 keys that may die | are old clients closed under a request younger than the grace period, or never? does an old monitor go on? | holds: `NotCutShort` `RetiredMonitorSilent` `OldClientsClosed` |
| `persistence` | 3 calls, 2 at once, a ring of 3 minutes, 6 minutes, crashes and failing writes at every point | what is lost, and can a limit forget what usage remembers? | holds: `LimitsKnowWhatUsageKnows` `OrderlyEndSavesAll` `SeriesIsWindow` `CountsReachDisk` |
| `key_order` | 3 keys, 2 requests at a time of up to 2 attempts, 56 settings: every policy with names of 1 to 3 models over keys without windows, with equal and with mixed ones of requests and tokens (6 requests); budgets announced by the upstream (5); calls that fail, keys and models ruled out (4, or 2) | is every key offered, and how evenly are calls spread? | holds: `EveryKeyOffered` `RoundRobinEven` `SpreadBounded` |

**Bounds.** Cooldowns are 1 or 2 seconds, so that one can outlast another and both can run
out between two steps; thresholds are 1 and 2, so that a single failure does and does not
pause a target. Three attempts against five targets make the budget end a request before
its list does; shorter routes make the list end first. Two keys are enough for "another
key of the same provider", two providers for "another provider", two models for "another
model with the same key". Two requests are enough for a mark left by another request;
three for a slot taken by a third while the first sleeps. `concurrent` and `auto` use
symmetry in the interchangeable plain requests; `failover` checks liveness and does not.
In the window runs three buckets tell a slot from its neighbours and from its own next
lap; `Horizon` leaves room for two laps, so that a bucket is reused after a partial and
after a whole cleaning; `MaxCount` caps a bucket. In the configuration runs two valid
contents tell a save from what it replaces: one of them cannot be built from, and a third,
without admin keys, can only be edited in. `Keep` is 1 instead of 20, and with two seconds
and two backups in the folder more than `Keep + 1` names of a second are given, names of
pruned copies come back, and the clock falls behind the name of an older copy; then no
name counts as the latest, and the copies that are lost are the ones section 4 describes.
Three keys are a removed one, an added one and one that must not change. In `limit_edit`
the three configurations differ in which windows they have and in their limits, so that an
edit adds, removes, changes and keeps a window; two edits put an old configuration back;
the window every configuration has there is `tokens_per_minute`. In `discovery` a list is
fresh for 2 ticks, may be used for 3, and a failure is remembered for 1, so that a list
may survive a failure and fall to a later one. In `reload` two replacements make a
generation that is both new and old; a grace period of 3 ticks lets a request begin, wait,
retry and stream within it, and outlive it. In `persistence` the ring is reused after 3 of
6 minutes. In `key_order` the number of models is a divisor of the number of keys, or has
none in common with it; four arrivals go once round and one further, six go round twice,
and windows of 3 let one key get ahead by 3. `arrivals` caps the requests of a setting,
and with them `charged`, `tokens` and `used`. `Unit` is 6, a common multiple of all
windows and budgets up to 3. No counter of the scheduler needs a cap: a request makes at
most `MaxAttempts` calls, and a cooldown only runs while it is positive.

**Fairness.** `FairSpec` assumes weak fairness of `Answer(r)` and `BackoffElapsed(r)`.
Every HTTP client is built with connect and read timeouts (`openai_compatible.py`,
constructor), so a call returns or raises; `asyncio.sleep` returns. Nothing is assumed
of clients (`Start`), of the clock (`Tick`) or of streams (`StreamEnd`): a stream may
stay open as long as the upstream keeps sending.

`Discovery` assumes of the event loop that it runs what is ready (`Enter`, `Granted`,
`Resolve`), of the clock that it runs (`Tick`, `TimeOut`), and nothing of the upstream:
`EveryAskAnswered` holds although a call may hang for ever. `Reload` assumes that timers and
cancelled tasks run (`Stopped`, `Close`, `Tick`); nothing of requests, streams, the upstream
or the monitor. `Persistence` assumes only that a minute passes and a flush goes on.

**Mutants.** For every property of a passing run `PROJECT.json` names a plausible bug
(a dropped guard, `<=` for `<`, a scope too wide, a release forgotten) under which the
run finds the property violated.

## 4. Where text and code differ

The models have the following behaviour because the code has it, though a document,
comment or test of the repository says otherwise or nobody can have meant it. The
properties of section 3 are stated so that they hold of the code: each is the promise that
is kept.

1. *Limits are exceeded by failover.* Only the first attempt of a request is checked;
   the retry after a backoff is charged without a look (`retry.py:375`), though limits
   "are enforced before an upstream request is sent" (README.md:728). Kept:
   `FirstAttemptsWithinLimit`.
2. *A slot leaks* when a 2xx body does not parse (`openai_compatible.py:97`): the
   exception skips `record_request_end`, and with `concurrent_requests` set the key is
   lost until a restart (compare tests/test_streaming_and_api.py:236). Kept:
   `InFlightAccounted`, which counts exactly these requests as still holding a slot.
3. *A paused provider is called* through a discovered model (`router.py:306`, against
   README.md:780): `PairOpen` asks the provider's cooldown of configured models only.
4. *A backup is lost* in the save that made it, against README.md:917, when its name is not
   the latest. Names are made from the wall clock (`config_store.py:174`): set back, it names
   a copy that sorts as the oldest and is pruned at once if there are `KEEP_BACKUPS` others.
   So it is with more than `KEEP_BACKUPS` + 1 copies in one second, where pruned numbers are
   used again (`config_store.py:176`). And a hand edit between the copy and the rename is
   overwritten and in no backup (`config_store.py:179`, `:187`). Kept: `BackupKept`, which is
   about copies with the latest name and saves during which nobody edits.
5. *A removed client key comes back* in place of another with the same mask, when one is
   removed and one added in the same request (`config_store.py:99`, against the comment
   above it). Kept: `NeverAnotherSecret`, which excepts a position that has moved.
6. *A reload cuts requests short.* The grace period, meant as "time to finish", is the
   longest request timeout and 5 seconds (`status.py:232`). A request may take longer,
   even to the end of its first call: it awaits the models of one dynamic provider after the
   other, up to 5 seconds each (`router.py:287`), connect and read have a timeout each
   (`openai_compatible.py:40`), the latter anew with every byte; then come failovers, pauses
   and streams. What is under way then meets a closed client and blames a healthy upstream.
   Kept: `NotCutShort`, which gives every request the grace period from its arrival.
7. *A dead monitor makes a reload fail half way.* An answer of `/models` that
   `health_check` cannot read ends the monitor (`provider_checks.py:88`); at the next
   reload its exception is raised out of `stop` after the swap (`status.py:231`), the admin
   sees an error for a configuration that is live, and the old clients are never closed.
   Kept: `OldClientsClosed`, `RetiredMonitorSilent`.
8. *One failed write ends persistence.* The flusher has no try block (`app_state.py:74`):
   after a full disk or a locked database nothing is written any more, and the final flush
   of the shutdown is skipped too, because awaiting the dead task raises. Kept:
   `CountsReachDisk`, `OrderlyEndSavesAll`.
9. *An edit of the limits loses slots.* `_sync` copies the number of requests in flight to
   the new state (`limits.py:167`), but they release the old one: `in_flight` stays too high
   by the requests that were under way, until a restart (`stray`). Kept:
   `InFlightCarriedOver`, which counts them.
10. *An old request puts old limits in force.* `_sync` follows whoever looks last, so
    while a request of an older configuration fails over, limits flip between the two, and
    a window that only the newer one has is emptied (`limits.py:173`, against
    ARCHITECTURE.md:60). Kept: `KeptWindowKeepsCharges`, `OneConfigurationInForce`.
11. *Round robin need not alternate.* The cursor moves on once for every model of the
    name that is not passed over: with two keys and a name that stands for two models
    the first key is always first (`router.py:138`; tests/test_routing.py:38 has one
    model), until one of the models is in cooldown (`router.py:219`), when the second
    key has its turns. Kept: `RoundRobinEven`, which speaks of several models only while
    none is passed over. *Smart selection* is the same rotation for keys without
    windows, the default, where no headers come (`router.py:122`), with the same keys
    never first; and between a key that has a window and one that has none it takes the
    latter once the former was used. A window of tokens counts a call only when it has
    come back, so that with one a herd may go to one key. Kept: `SpreadBounded`, which
    compares shares of request windows and leaves out token windows.
12. A late success clears the cooldown a 429 has just set on the same key
    (`RecordSuccess`; `health.py:77`, ARCHITECTURE.md:154); a key refused with a 401 stays
    eligible with other models of its provider (`Eligible`; `retry.py:353`, README.md:805),
    and the request goes on to the other keys of the provider, which README.md:805 and
    tests/test_failover.py:71 want and the table of ARCHITECTURE.md:136 denies;
    a request that exhausts its candidates passes on the last upstream status instead of a
    502 (`FinalStatus`; `retry.py:461`, ARCHITECTURE.md:91).
13. *A save can leave a file nothing can be built from.* `validate_raw` accepts every
    `base_url` that begins with `http://` or `https://` (`provider.py:125`); of
    `http://host:80a` no client can be made (`openai_compatible.py:44`). `apply_config` builds
    the clients after the file has been replaced (`config_api.py:42`): the admin sees an error,
    the old configuration runs on, and the next start fails, though malformed URLs are to be
    caught (ARCHITECTURE.md:212) and a save is to apply immediately (README.md:917). Conversely
    a configuration without admin keys can be started from but not saved. Kept:
    `FileStartable` and `LiveIsFile`, which except such files, and no others.
14. *A model list outlives its window* until the next failure: it is dropped only by one
    (`openai_compatible.py:225`), where ARCHITECTURE.md:182 reads as plain expiry. Kept:
    `ListLifetime`, which says what a failure leaves and takes. And `auto` does ask the list
    of OpenRouter (`router.py:282`, README.md:700), which ARCHITECTURE.md:185 and README.md:118
    deny.

## 5. Proofs

Each theorem holds for all values of the constants that satisfy the named assumptions
of its module, which TLC evaluates on every run. Every invariant was checked by TLC on the
instances of section 3 before it was proved.

**`SchedulerProofs`**, from `FiniteRequests`, `ConfigTypes`, `RouteType` and
`SchedulerConstants`: any number of requests, providers, keys and models, any answers.

| Theorem | States | Argument |
|---|---|---|
| `TypeCorrect` | `Spec => []TypeOK` | `TypeOK` is not inductive: the fields of `current` are read in phases where it must be a candidate. `TypeInv` adds `CurrentOK` (the current candidate is one while a call, a stream or a crashed call holds it) |
| `ProviderCooldownIsEarned` | `Spec => []ProviderCooldownEarned` | inductive given `TypeInv`; the step needs that the reason of a key, once a refusal, stays one: successes keep it, throttles do not write it |
| `TargetsDistinct` | `Spec => []NoTargetTwice` | via `CallsOK`: between calls the attempted set contains every target of the trace, during a call also the current one, which is not in the trace; the trace is never longer than `attempts`, which never exceeds the budget |
| `BudgetRespected` | `Spec => []AttemptBudget` | from the same invariant |
| `InFlightIsAccounted` | `Spec => []InFlightAccounted` | every counter is the cardinality of a set of requests; a step changes one request, and every counter changes by what that request newly holds less what it held (`Reaccounted`) |
| `OutcomeDecides` | `Spec => []DecisiveOutcomeEnds` | `HistoryOK`, below |
| `GivesUpLast` | `Spec => []NoPrematureGiveUp` | `HistoryOK`: what is not eligible was attempted, and so answered, or ruled out by an answer in the trace |
| `MissingModelsLeftAlone` | `Spec => []MissingModelNotAskedAgain` | `HistoryOK` |
| `ChargesAreReported` | `Spec => []ChargesReconcile` | per provider, with the same bookkeeping of sets as `InFlightIsAccounted` |
| `FirstAttemptsAreLimited` | `Spec => []FirstAttemptsWithinLimit` | the requests on their first attempt are among those in flight, which resolution has compared with the limit in the same atomic step |
| `FailoverIsImplemented` | `Spec => ImplementsFailover` | step simulation under `TaskOf`, below |

A step of a request goes through several operators of the loop, so the proofs about
histories do not look at actions. `StepMoves` shows once that every step moves the record
of every request in one of eight ways (`RequestMoves`: left alone, rejected, opened,
succeeded, garbled, stream ended, resumed, failed); `HistoryOK` is then proved of those.
It ties the fields of a request to its trace: a request that has ended has the status
of its last answer (`Conclusion`), the models it skips are those the trace reports
missing (`MissingModels`), every attempt but the one that is out has an answer
(`AttemptsAnswered`), every provider it skips has refused it all its keys
(`SkipsExplained`), and a request that ended on a retryable error had nothing left
(`Exhausted`).

`FailoverIsImplemented` goes through the same eight moves. A rejected and an opened request
`Begin` (with nothing and with what was resolved), a success and a garbled body `Conclude`,
the end of a stream is a stutter, a backoff that has elapsed `Resume`s, and a failure
concludes, pauses or goes on (`FailureMovesOn`), having closed nothing, the model or the
provider it is about (`OpenAfterFailure`). The head of the loop, common to three moves, is
`Onward` (`GoesOnward`): the next call is a preferred one of those open, and the end is
`exhausted` only with nothing open or no call left. `HistoryOK` of the next state is needed
to tell the ends apart: a request that gives up has no decisive answer in its trace. TLC
checks the refinement in `failover`; with several requests at once (`concurrent`, `auto`) the
runs would exceed their time, and the theorem covers them.

**`LimitsProofs`**, from `LimitsConstants` (any number of requests, configurations, edits)
and `RingConstants` (rings of any size, any limit). The last three are about `SlidingWindow`
and `SkewedWindow`.

| Theorem | States | Argument |
|---|---|---|
| `SlotsCarriedOver` | `LimitsSpec => []InFlightCarriedOver` | `IInv` is `LimitsTypeOK`, `Progress` (a request between two attempts has one left) and the two properties. An attempt adds one request and one slot (`AttemptKeeps`), a release removes a request, and with it a slot or, from a replaced state, adds a stray one (`ReleaseKeeps`); a release of the current state never meets `in_flight = 0`, so the `max(0, ...)` of the code never acts there |
| `LimitsOfOneConfiguration` | `LimitsSpec => []OneConfigurationInForce` | strengthened by the range of each counter's place (`OneConfiguration`), kept by `_sync` (`SyncOK`), `record_request_start` (`StartOK`) and `record_request_end` (`EndOK`) |
| `ChargesKept` | `LimitsSpec => []KeptWindowKeepsCharges` | `Charges` adds what makes a late release land in the right counter: a request under way holds, be its state replaced or not, the counter in force of every window that is kept. A step either charges one request (`Charging`) or none (`Quiet`) |
| `WindowTypeCorrect` | `Spec => []TypeOK` | with `now >= Epoch` the invariant is inductive |
| `RingIsTheWindow` | `Spec => ImplementsWindow` | step simulation under `View`. Slots less than `Size` apart have different remainders (`ResiduesDiffer`), so cleaning removes exactly what has slid out (`AdvanceKeepsView`), a charge shows at age 0 only (`RecordedShows`), time shifts the view (`PassAges`), and the sum of the buckets is the sum of the window, so that a request is let through in the ring exactly when it is in `CallWindow` |
| `NeverForgets` | `SkewedSpec => []NeverUndercounts` | `SkewedInv`. `NeverUndercounts` speaks of one moment, and an invariant must foresee all later ones: the charges no older than `age` will be asked for in another `Size - 1 - age` slots, and by then the buckets that still last (`Lasting`) must hold at least as much (`Covers`), for every age. A clock set back only lets buckets last longer |

**`SumTheorems`**. The models add up with the folds of the community modules, which take
the elements in an order nobody specifies. `TotalIsWeight` shows that such a fold is the
number of units under the function, a cardinality, of which the library knows much. The
induction it needs is a smallest set for which the fold and the number would differ.

**`ConfigStoreProofs`**, from `StoreConstants` and `MaskConstants`: any number of admins,
configurations, backups and keys.

| Theorem | States | Argument |
|---|---|---|
| `NoUpdateLost` | `Spec => []NoLostUpdate` | `Inv`: one session at a time is inside a save, none while the process is down, and what it saves has passed `validate_raw`; between rename and swap the file is what is to run, at any other time what runs or, if it can be built from, would |
| `FileStaysStartable` | `Spec => []FileStartable` | from the same invariant |
| `LiveFollowsFile` | `Spec => []LiveIsFile` | from the same invariant |
| `TypeCorrect` | `Spec => []TypeOK` | `BackupsOK`: the free number of a name exists because the names are finitely many; a save that has pruned has left at most `Keep` of them |
| `BackupsAreKept` | `Spec => []BackupKept` | `NamesOK`: while `issued` is at most `Keep`, no backup is named later than this second, and those of this second have the numbers below `issued`, all of them while there is room, so the next name is the latest; `CopyIsNewest`: such a copy sorts last, so pruning, which takes the oldest, spares it. That a copy has the latest name is what the property asks, and what a clock set back or a busy second takes away (section 4, item 4). `Keep` is 20 in the code |
| `EditsAreExact` | `MaskSpec => []DistinctMasksExact` | `MaskInv`: at every position the browser holds the key that is meant, or its mask and then the key is a stored one (`StandsFor`); the candidates of a masked key are stored literals with that mask (`CandidatesOf`) |
| `SecretsStayApart` | `MaskSpec => []NeverAnotherSecret` | from the same invariant: a candidate of the same name or position can differ from what is meant only if that identity has moved |

**`ReloadProofs`**, from `ReloadConstants`: any number of requests, keys and generations,
any timeouts.

| Theorem | States | Argument |
|---|---|---|
| `RetiredMonitorsAreSilent` | `Spec => []RetiredMonitorSilent` | `MonitorFollows`: a monitor runs or sleeps only in the generation that is current, and one that sleeps or was stopped has no check out |
| `RequestsHaveTheirGrace` | `Spec => []NotCutShort` | `GraceCovers`: what is left of the grace period of a generation and the age of a request that uses it add up to at least a grace period; once the clients are closed every such request has that age. `RequestFollows`: its generation was built |

**`PersistenceProofs`**, from `PersistenceConstants`: any number of calls, crashes and
failing writes, rings of any size.

| Theorem | States | Argument |
|---|---|---|
| `LimitsNeverBehind` | `Spec => []LimitsKnowWhatUsageKnows` | `LimitsAhead`: in memory the limits have counted what usage has and what is out; on disk they are saved first. `FlushAgrees`: nothing is counted between the parts of a flush |
| `OrderlyEndLosesNothing` | `Spec => []OrderlyEndSavesAll` | from the same invariant: the final flush starts when nothing is out |
| `SeriesRemembersTheMinutes` | `Spec => SeriesIsWindow` | step simulation into `CallWindow`: minutes less than `Slots` apart use different buckets (`BucketsDiffer`), and no stamp is ahead of the clock (`StampsPast`), so a stamp tells a minute from its earlier laps |

**`DiscoveryProofs`**, from `DiscoveryConstants`: any number of requests and admin calls,
models, answers and periods.

| Theorem | States | Argument |
|---|---|---|
| `TypeCorrect` | `Spec => []TypeOK` | `QueueOK`: the queue of the lock holds each waiting task once, when one joins, is granted the lock, or is cancelled in the middle (`Joins`, `LeavesFront`, `LeavesMiddle`) |
| `OneCallForAll` | `Spec => []OneCallServesAll` | `OneCaller`: whoever was granted the lock looked at the cache after the last call had returned |
| `SteadyModelsOffered` | `Spec => []SteadyModelOffered` | `ListFromAnswer`: what is cached was an answer of the upstream |
| `ListLivesItsTime` | `Spec => ListLifetime`, an action property | `ListYoung`: a list is not older than the last failure allows |

**`KeySelectionProofs`**, from `KeySelectionConstants`: any number of keys, models and
concurrent requests, request and token windows of any sizes, different and missing ones
included.

| Theorem | States | Argument |
|---|---|---|
| `TypeCorrect` | `Spec => []TypeOK` | `TypeInv` adds that a request under way has made an attempt and one that waits has one left |
| `KeysOffered` | `Spec => []EveryKeyOffered` | every policy gives an order of all keys: rotated (`RotatedIsOrder`) or sorted (`SortedIsOrder`), a permutation; so each offer is in the list once (`ResolutionLists`). `Undisturbed`: where nothing disturbs, no key is blocked and no model passed over; rooms only shrink (`RoomShrinks`), so what a list left out has no room later |
| `RoundRobinAlternates` | `Spec => []RoundRobinEven` | after `i` arrivals the cursor is at `Place(i)`, `(i * models) % N`. With the smallest positive `p` for which `Place(p) = 0` (`PeriodExists`, at most `N`), the first `p` places are distinct (`PlacesApart`) and repeat (`PlacesRepeat`). `RoundInv`: some `s < p` of these keys have had their turn in the current round, and been first once more than the others (`Turns`). With one model a request moves the cursor by one or, if the model is passed over, not at all and puts no key first; with several the invariant asks that none is passed over. Smart selection is a rotation where all headrooms are whole (`HeadroomOfNone`), since a stable sort keeps the order of equals |
| `CallsAreSpread` | `Spec => []SpreadBounded` | `Counted`: while nothing is ruled out and nothing announced, the window of a key counts what usage has seen and the calls under way. The key that is called heads the order of the first model that has a key left (`FirstChoice`); under smart selection without token windows it has the largest headroom, so no other key has used a smaller share of its window (`HeadroomOfWindow`, which needs that fractions are exact), under least_used the fewest answers, so at most as many charges more than another as there are calls under way |

`InOrderLists` carries these: a finite set of tuples of which no two are level, put in the
order of how many come before each, is a sequence that is sorted and holds each once. That
every place is taken is a counting argument (`PlacesFilled`): the numbers of tuples before
each are distinct, below the size of the set, and as many.

**What stays with TLC.** Liveness: `EveryRequestAnswered`, `EveryAskAnswered`,
`OldClientsClosed` and `CountsReachDisk` rest on fairness, which is out of the proof
system's reach. Every invariant and every other action or refinement property of the runs
is the statement of a theorem.

## 6. Plan

Nothing of the plan is open. What a further step could take up: the `:free` ranking of
discovered models, which would need `model_stats.py`; token budgets beside the request
windows of `Scheduler`; and `Failover` with liveness, once fairness can be reasoned about.

## 7. Not modelled

* *Configuration loading and schema, HTTP routes, authentication, dashboard, logging,
  benchmark*: conversions and views without state of their own.
* *Ranking of discovered models* (`model_stats.py`, `rank_free_models`): it orders the
  candidates, and every order is allowed by `Scheduler`. Its ring of statistics is stamped
  like the minute series.
* *Latency histogram and request log*: write-only counters and a bounded deque.
* *Results of health checks* (`record_check`): no decision reads them.
* *`drop_idle_models`*: it forgets records that no cooldown holds.
* *Widths of windows*: a rate below one request a second is a longer window of limit 1, and
  an edit between two such rates changes the width of a counter that `_sync` keeps
  (`limits.py:94`, `limits.py:171`).
