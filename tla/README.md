# Verification of llm-cost-governor

TLA+ models of the parts of `llm-cost-governor` (`src/src/llm_cost_governor/`)
that keep state, the TLC runs that check them on small instances, and proofs,
checked by TLAPS, of what matters most for instances of every size. Paths below
are relative to `src/src/llm_cost_governor/`.

## The system

An application wraps its LLM calls in `guarded_call()`. A chain of hooks runs
before the call (and may refuse it) and after it (to account for it). The hooks
keep their totals in in-memory counters and budgets; a counter is saved to a blob
by a background thread.

```
 request threads ──> guarded_call / record_usage (wrapper.py)
                        │ pre: may raise            │ post: failures swallowed
                        ▼                           ▼
      RequirePricedModelHook ──reads──> MODEL_PRICING, RATES (pricing.py)
      ScopeBudgetHook ──────> ScopeBudget (budget.py, no lock)
      WindowedCapHook ──────> CostCounter (counters.py, one lock) ──> alert()
      ProviderTotalsHook ───> ProviderTotals (provider_totals.py, one lock)
      OTelSpanHook, LangSmithMetadataHook ──> spans (otel/) ──> scrubbing exporter
      EventLogHook ─────────> event lines (events.py)
      application ──────────> RollingWeekCounter (counters.py, one lock)
      FastAPI dependency ───> IPRateLimiter (ratelimit.py, one lock)
                                     │ _schedule_write: Event _dirty
                                     ▼
                        GcsBackedCounter's writer thread (persistence.py)
                                     ▼
                        StateBackend: GcsBackend, LocalFileBackend (state.py)
```

### Inventory

| Component | State | Operations | Interaction | What makes it correct |
|---|---|---|---|---|
| `CostCounter` (`counters.py:123-518`) | totals per hour, day, ISO week; a weekly tally per identity; the latch of alerts | `enforce`, `record`, `_trim`, `_collect_alerts`, `_latch`, `to_dict`, `from_dict` | called by `WindowedCapHook` from request threads; sends alerts after its lock; saved by `GcsBackedCounter` | what `enforce` compares is exact; overshoot is bounded; every trip point is latched, every alert sent once; a tally is only reset forward |
| `RollingWeekCounter` (`counters.py:590-959`) | one table of tallies per dimension, bounded by `max_keys` | `enforce`, `record`, eviction, serialization | called by the application before and after its work | tables stay bounded; a tally overshoots its cap by a bounded amount |
| `GcsBackedCounter` (`persistence.py`) | Events `_dirty` and `_stop`, the writer thread, the blob | `load`, `_schedule_write`, writer loop, `flush`, `shutdown` | base class of the counters; its lock is theirs | no lost wake-up; saved calls stay saved; recorded calls reach the blob; `shutdown` ends the writer |
| `StateBackend` (`state.py`) | the named blob and, for a local file, its temporary file | `read`, `write` | called by `flush` on two threads | a read returns the whole of one written text |
| Call pipeline (`wrapper.py`) | the context of each call | `guarded_call`, `record_usage`, `HookChain` | runs every hook | every answered call reaches every post-hook, refused ones none |
| `ScopeBudget` and hooks (`budget.py`) | `_spent` | `would_exceed`, `record` | hooks of the chain | the ceiling holds; nothing is charged twice |
| Pricing (`pricing.py`) | `MODEL_PRICING`, `RATES`, `_overridden`; the names reported as unpriced | `register_rates`, `load_rates`, `reset_overrides`, `_rates_for`, `is_priced`, `usd_for_usage`, `server_tool_cost`, `catalog` | read by budgets, counters and the gate | the tables, the gate, the calculator and the catalogue agree; overrides can be undone; nothing is charged $0 unreported |
| `IPRateLimiter` (`ratelimit.py`) | a window and a count per client | `check`, `reset` | called by the FastAPI dependency from its threadpool | windows do not overlap and serve at most `limit`; bursts are bounded; a refusal tells the truth |
| `ProviderTotals` (`provider_totals.py`) | totals per provider | `record`, `load`, `flush` | persisted as the counters are | totals are exact and saved |
| Provider adapters (`providers/`) | none | `extract_usage`, `truncated`, `default_estimate` | called by `guarded_call` | each token of the vendor's count is charged once |
| Request spans and OTel hooks (`otel/`) | the active context of each thread; the span in the context of a call; the ended spans | `request_span`, `pre`/`post` of two hooks, the stamping processor, the scrubbing exporter | the application's requests, the hooks of the calls in them, the tracing pipeline | a span has its own request's mode; content leaves only with consent; an answered call's span is complete |
| Events, alerts (`events.py`, `alerts.py`) | none of their own | `emit_llm_call`, `alert` | called by hooks, counters and pricing | failures never reach the caller, and each answered call is reported once |
| FastAPI adapter (`fastapi_ext.py`) | none | `client_ip`, the dependency | feeds `IPRateLimiter` | requests of one client are counted together |
| Schemas; `scripts/check_pricing_drift.py` | none | records; a scheduled comparison of price pages | — | — |

### What is hard

* **Check and act are apart.** `enforce()`/`would_exceed()` run before the provider
  call, `record()` after it, so admitted calls overlap.
* **Time is read before the lock.** `CostCounter.record` and `RollingWeekCounter.record`
  read the clock and then wait for the lock, so a call can be credited to a window
  that is over.
* **Two threads save.** The writer and `shutdown()` snapshot under the lock and write
  outside it, to one file name.
* **Failures half way.** A post-hook raises, a write fails, a registration raises
  between two tables, the process dies in a write.
* **Lock-free state.** `ScopeBudget._spent += …` is a read and a write; the sets of
  names already reported as unpriced are checked, then extended.
* **Crashes.** The process dies between a record and the write of its snapshot; the latch
  of alerts is not saved; a blob may load half way.
* **Reused threads.** The telemetry mode lives on the active context of a pool thread, which
  serves one request after another, and calls that are aborted leave their spans open.

`PROJECT.json` lists each hazard at its line with the properties that cover it.

## Modules

| Module | Models | Extends / uses |
|---|---|---|
| `CostCounter` | `CostCounter` under `WindowedCapHook`, `record_usage` | |
| `AdmissionGate` | abstract: what a cap promises when check and charge are apart | |
| `CostCounterProofs` | theorems on `CostCounter`, its refinement of the gate among them, on the gate itself, and on `CounterRestart` | `CounterRestart`, `AdmissionGate` (INSTANCE), TLAPS |
| `CounterRestart` | `CostCounter` with its writer and its blob, across crashes | `CostCounter` |
| `RollingWeekCounter` | `RollingWeekCounter` | |
| `RollingWeekCounterProofs` | theorems on it | `RollingWeekCounter`, TLAPS |
| `GcsBackedCounter` | life cycle of persistence | |
| `GcsBackedCounterProofs` | theorems on it | `GcsBackedCounter`, TLAPS |
| `AtomicBlob` | abstract: what a `StateBackend` promises | |
| `LocalFileBackend` | `LocalFileBackend.write` | refines `AtomicBlob` (INSTANCE) |
| `LocalFileBackendProofs` | theorems on it, the refinement among them | `LocalFileBackend`, TLAPS |
| `GuardedCall` | `guarded_call`, `record_usage`, `HookChain`, `ScopeBudget`, `ProviderTotals` and the hooks | |
| `GuardedCallProofs` | theorems on it | `GuardedCall`, TLAPS |
| `Pricing` | the tables and their overrides | |
| `Metering` | the adapters' usage, the price of one call, unpriced names | `Pricing` |
| `MeteringProofs` | theorems on both | `Metering`, TLAPS |
| `IPRateLimiter` | `check` and the dependency that calls it | |
| `IPRateLimiterProofs` | theorems on it | `IPRateLimiter`, TLAPS |
| `Telemetry` | request spans, the span, identity and event hooks, stamping, scrubbing | |
| `TelemetryProofs` | theorems on it: modes, spans, event lines | `Telemetry`, TLAPS |
| `MC*` | instances and definitions the configurations use | the module they name |

Operators marked *Fault* are plausible mistakes in the definition after them. No
specification uses them; putting one in the place of its definition makes a
property fail, which shows that the property depends on it.

### CostCounter

`total[w]` is `_hourly`, `_daily`, `_weekly`; `stat` is `_per_token`; `alerted` is
`_alerted`. Each request thread is at a `pc`: `calling` (between `enforce` and
`record`), `recording` (the clock has been read, `counters.py:271`, and the lock not yet taken),
`delivering` (alerts collected under the lock are being sent). `Enforce`, `Refuse`
and `RecordLocked` are one step each, since the code holds its lock throughout; in
`Record` the three buckets are of instants between the thread's start and now, in
order, as `_this_hour()`, `_today()` and `_week_of()` are three readings of the
clock. The second branch of a call, `BeginRecordUsage`, records without `enforce`.
`Bucket` is the calendar: any monotone map of instants to hours, days and weeks.

Abstractions: the clock does not go back; money is an integer; which of two
exceeded caps an exception names, and the order in which one call's alerts are sent,
are left out, and an alert sink that raises is the same as one that does not (it is
swallowed); the identity is the same in `pre` and `post`; `enforce()` reads the clock
once, for the three readings its lock protects can differ only across a boundary
and then compare a bucket that is over; `first_seen`, `last_seen` and `call_count`
are left out.

`TallyLostOnlyByStraggler` says what the code gives where `counters.py:114` promises a
tally that "resets to zero when `week_of` rolls over": it resets forward, and also
backward, when a `record()` that read the old week takes the lock after one of the new
week (`counters.py:271`; `RollingWeekCounter` does the same at 827).

### AdmissionGate

A pot of money, a cap on it, and callers who are admitted while it is below its cap and
charged later. `CostCounter` implements one gate for each bucket of each window
(`ImplementsGate`): `spent` is what admitted calls were credited there (the history
`guarded`), `inflight` the admitted threads that may still be credited to it. One step of
the counter passes many gates, so the gate's next-state relation says what each pot may do.

### CounterRestart

`CostCounter` EXTENDed by the writer's loop (`persistence.py:167-176`: wait and clear,
debounce and snapshot, write), a blob that is replaced atomically, and a crash with the load that
follows. `FromDict` replaces the four parts in the code's order, and a malformed row may stop it
after any of them (`LoadFirst`); no part read is also what a failed read of the blob gives. The
latch is not part of a blob. `missing`, `snapMissing` and `blobMissing` are
histories: which recorded USD the memory, the writer's snapshot and the blob do not hold.
A process that has loaded part of a blob logs "malformed state blob; starting empty"
(`persistence.py:128`) and keeps that part.

### RollingWeekCounter

`table[d]` maps a key to its tally, week, `last_seen` and `rank`, its place in the
dictionary, which decides between records of the same age when `_trim_table`
evicts. `enabled` and `strict` are variables that `Init` chooses. An event reads the
week, enforces, works, reads the week again and records. One amount is used in
`enforce` and in `record`.

### GcsBackedCounter

The state of a counter is the set of calls it has recorded, so a snapshot and the
blob are sets of calls. The writer loop (`persistence.py:167-176`) is a step for each
point where another thread can come in: the loop test, `wait`, the second test,
`clear`, the snapshot (under the counter's lock) and the write (outside it). `shutdown()` runs the same
`flush()` on its own thread, then sets `_stop` and `_dirty`. `Record` and
`ScheduleWrite` are apart because `record()` releases its lock before it calls
`_schedule_write`. A read or a write may fail; the process may die at any step and
start again with an empty memory.

`UnsavedIsDue` asks of every unsaved call that a writer be there to save it: the dirty flag counts
only while `_stop` is clear and the loop still runs. What `shutdown()` may leave unsaved is then exactly
`BehindFinalFlush`: a call recorded after the final flush took its snapshot. Its `_schedule_write` sets the
flag, but the writer leaves its loop at `persistence.py:171-172` without reading it, so the call is lost with the
process. The docstring at `persistence.py:133` says "final synchronous flush (best effort)"; an application
has to stop recording before it calls `shutdown()`.

A write that fails is not retried (`persistence.py:145`): its calls are in `missed`, and `RecordedIsSaved` says
that the next record's write saves them, unless that fails too. A process that could not read its blob starts
empty and overwrites it (`persistence.py:115`), which `SavedStaysSaved` therefore excludes; what is lost in either
way is what `LossIsUnsaved` of `CounterRestart` measures.

Not modelled: an application that calls `flush()` itself or `load()` twice, blobs
that do not parse, and a disabled counter in the middle of a run. A write to the
blob is atomic here; `LocalFileBackend` is about that.

### AtomicBlob and LocalFileBackend

A directory entry names an inode, and an open file stays the same inode when it is
renamed. `write_text` is opening with truncation and two writes of half a text, so
that a crash or another writer can come between; opening, writing and renaming may each raise
(`WriteFails`). `ImplementsAtomicBlob` is the
refinement: `blob` is what `read()` would return, a torn file being a text nobody wrote.

### GuardedCall

Threads run calls through one shared chain. `pc` is `pre`, `post` or `store` (a
budget's read of `_spent` is done and its assignment is not), `at` is the place
in the chain. `Answer` is the provider's response or an injected one, with any
token cost (none for a model without a rate row) and perhaps the cost of
server-side tools. A hook of kind `other` may raise in `pre` (the call is aborted) and in
`post` (swallowed). `CallFails` is a provider that raises, and also one whose answer
`extract_usage` cannot read (a raw stream has no `usage`) or `usd_for_usage` cannot price
(`wrapper.py:239-240`): the call may then have been paid for, but no post-hook runs, so nothing accounts for it;
`EveryAnswerReachesEveryHook` is about answers whose usage was read. A truncated response becomes an exception only in `Return`, after
the post-hooks. `sequential`, chosen by `Init`, says whether the application makes its calls
one after the other. A `cap` hook is a `CostCounter` within one window;
`CostCounter` models it in full. A `totals` hook is `ProviderTotals` with one provider; it
is handed `cost_usd`, so unlike the others it sees the server-side tools. What an `other`
hook does is not modelled.

### Pricing and Metering

A row has flat rates or tiers. `Invalid` is `_validate_row`. A registration applies its rows in
order until one raises the `KeyError` at `pricing.py:490`, which leaves that row in the registry:
`Entered` are the rows that reach `MODEL_PRICING`, `Completed` those that reach `RATES` and
`_overridden` as well. The rows of one registration are of different models (they are the items of a
mapping), so what each is merged with is what the registry held before the loop, and the loop is written in
closed form, without a fold. `RatesFor` and `IsPriced` are the two readers, `Listed` what
`catalog()` shows. Only the rates, the thresholds and
whether the descriptive fields are complete are kept of a row; the caller's rows have no tiers.

`Metering` adds the two adapters (`OpenAIUsage`, `AnthropicUsage`), `UsdForUsage`, and
the warn-once sets: `Unwarned`, `Add` and `Alert` are the steps of `_warn_unpriced` and
`_warn_unpriced_tool` where another thread can come in. `free` is the history of names some
call was charged $0 for. Rates are registered only between calls, as `pricing.py:462` requires.
Calls name a model (the empty name is charged $0 silently by design, `pricing.py:698`).

Observed while modelling: two threads may both report a name ("warn once per process",
`pricing.py:624`), so `FreeIsReported` bounds the alerts by the number of threads; a tiered
model with a complete override is billed at the override and listed at its shipped entry
tier, so `TablesAgree` speaks of models that are not overridden; the band of an OpenAI
prompt is chosen by its uncached part (`pricing.py:660` says so), and by the whole of it if
the vendor leaves the cached count out. The OpenAI adapter never reports tokens written to the cache
(`openai.py:72`), which are part of the prompt: `OpenAIReports` counts them in it, and they are charged as fresh ones
(see the disagreements below).

### IPRateLimiter

`windows` is `_windows`. A request arrives (the dependency, `client_ip`, the clock read at
`ratelimit.py:95`) and is served or refused in a later step, under the lock, with the
time it brought. Time is in ticks, of which `TicksPerSecond` make a second, so that the
rounding of `retry_after` has fractions to round. `counted` is the history of requests
served per window, `servedBy` of those up to each instant, so that a `Burst`, the requests of a span, is the
difference of two counts and not a sum. `reset()` starts the histories over.

`ratelimit.py:18` expects "up to 2×limit across a window boundary". A thread may wait for
the lock with a time from before the span one looks at, so what holds of any span of one
window is `BurstBounded`: twice the limit and one request more for every other thread.

### Telemetry

`context[th]` is the active context of a thread, `requests[th]` its open `request_span`s with their
tokens, `call[th]` the call it makes and the span in `ctx.state`. A request enters with a mode, attaches the
baggage and starts its span; leaving it, by return or exception, ends the span and detaches. The
hooks of a call run in the order of `chain`; a pre-hook or the provider may raise, or the usage of the
answer be unreadable (`CallFails`, `wrapper.py:239-240`), which abandons
the call with its span open and writes no event line. `NewSpan` is `start_span` with the stamping
processor's `on_start`; `asked` is history, the mode of the request the thread was working
for. `Sampled`, the provider's own instrumentation and the batching are OpenTelemetry's,
external: a span of mode "off" is not recorded, and `Export` takes every ended span.

`ChainAssumption` says that each of the library's own hooks is registered at most once, as in the
chain of `docs/integration.md:222`; `OwnSpan` relates a call to the one span it then has.

A span without a mode passes whole (`scrubbing.py:131`); that is so for calls made in a thread that has no
request, and `ContentNeedsConsent` names it. Left out: two `OTelSpanHook`s in one
chain (the second overwrites `ctx.state["otel_span"]` and the first span is never ended), values of attributes, and
hooks that run on another thread than their call's.

## Runs

| Run | Shows | States |
|---|---|---|
| `counter_safety` | totals exact, overshoot bounded, trip points latched, alerts sent once, tallies lost only to stragglers; the counter implements `AdmissionGate`; the inductive invariant `SpendInv` | 511 000 |
| `restart` | what a crash or a partial load loses is what was not saved or read; caps bind across it; trips are latched or inherited; the inductive invariant `RestartInv` | 1 370 000 |
| `persistence` | no lost wake-up, nothing unsaved at shutdown but what came behind the final flush, saved stays saved, recorded is saved (also after a failed write), the writer ends | 41 000 |
| `persistence_finalflush` | **violation**: the writer's older snapshot replaces the final one | |
| `localfile_one` | with one writer the backend is an atomic blob, whatever step the process dies in; the inductive invariant `BlobInv` | 3 400 |
| `localfile_two` | **violation**: two writers share `<name>.tmp`, a crash leaves a torn blob | |
| `week` | tables bounded, tallies bounded, strict and lenient, and the least recently seen key is the one evicted; the inductive invariant `WeekInv` | 1 750 000 |
| `guarded` | every answer reaches every hook, meters never overcharge, ceilings hold for sequential calls; the inductive invariant `MeterInv` | 883 000 |
| `guarded_tools` | **violation**: server-tool spend reaches no budget and no cap | |
| `pricing` | tables, gate, calculator and catalogue agree, shipped billing is restored, each token is charged once, at the rate its report allows, nothing is charged $0 unreported; the inductive invariant `MeteringInv` | 152 000 |
| `ratelimit` | windows apart and within the limit, bursts bounded, refusals honest; the inductive invariant `BurstInv` | 3 020 000 |
| `telemetry` | each span has its request's mode, content leaves as consented, spans nest and are complete, answers are reported; the inductive invariant `TraceInv` | 4 821 000 |

The three violations are disagreements of the code with its own documentation;
`findings` in `PROJECT.json` quotes the lines. Four more have no run of their own, since a
passing property states what holds instead:

* `counters.py:114`, the backward reset of a tally: `TallyLostOnlyByStraggler`;
* `counters.py:675` says a strict cap has "no overshoot", and `counters.py:199` accepts "a one-call
  overshoot"; the checks reserve nothing, and `TallyBounded` and `GuardedSpendBounded` state
  what the code gives: less than one call for each event or thread in flight;
* `pricing.py:471` says "Nothing is applied if any row is bad"; a partial override of a
  tiered model raises at `pricing.py:490` after the registry was changed. `TablesAgree`
  and `GateMatchesCost` show that prices are unharmed by it;
* `pricing.py:33-35` and `test_pricing.py:338-347` have OpenAI models with a cache-write fee ("a zero would undercount
  every cached call"; in `pricing.json` it is 1.25 times the input rate), while `openai.py:55` says that there is "no
  separate creation step to account for" and `openai.py:72` reports none. The fee is never applied:
  `EveryTokenChargedOnce` states that a written token is charged once, at the input rate.

### Bounds

* `MaxClock` is the last instant, `MaxCalls`/`MaxEvents` bound the calls begun: two
  threads and three calls let two calls overlap while a third comes before or after.
  `counter_safety` has three hours in two days and two weeks, with room for two hours,
  one day and one week, so that trimming happens and late records arrive in
  trimmed buckets.
* Caps of 1 or 2 with costs of 0 and 1 reach, meet and cross each cap;
  `guarded` has costs up to 2, so that an estimate may be too low by one or two.
* `week` has two dimensions, each with room for one of two keys, so each event
  may evict.
* `MaxWriteFailures` is 2 in `persistence`, so that the write after a failed one may fail too. The reads that fail
  and the crashes are 1: the properties speak of what a
  single one may do, and the proofs are for any number of them.
* `localfile_one` has three texts (one being replaced, one written, one
  after a crash) and one inode more than the writers can hold open beside the two names.
* `pricing` has a flat model, a tiered one with two bands and a new one, the four rate keys,
  a negative and a changed rate for one, two or all of them, one or two rows in a registration, prompts on both sides
  of the threshold, two threads, and a tool with a rate and one without, each used twice or without a
  count. Token counts are 0 or 2. Its state space is closed: nothing is cut off.
* `restart` has one crash, which may come in any step and be followed by every kind of load,
  two hours that are also two days, of one week, and room for one bucket of each.
* `ratelimit` has one client, since clients share nothing but the lock (the theorems
  hold for any number of them), three threads and limits of one and two. Windows of
  three ticks are no whole number of seconds; in seven instants they roll over twice and a thread can
  bring a time from two windows before. Seven requests can exceed the bound of a burst, six, and six
  meet it (a strict bound is violated).
* `telemetry` has two threads, two requests that nest, follow one another or run beside each other, two calls,
  and three chains of hooks: the order that makes spans complete, one where the identity comes too early, and one
  without identity and event log.

`Symmetry` permutes threads only, and only in runs without liveness properties; no definition
tells two threads apart.

`CHECK_DEADLOCK FALSE` is set where the bounds or a shutdown stop the system.

### Fairness

Only `persistence` checks liveness. `Fairness` says that the writer thread, a
request thread between `record()` and `_schedule_write()` and `shutdown()` once
called keep running: they are threads of a preemptive scheduler and block only on
`_dirty.wait()`, whose action is disabled while the event is clear. No call, load,
shutdown, crash or success of a write is assumed to happen.

## Proofs

Each invariant that a theorem states was first checked by a run; the ones that had to be strengthened
say why.

`CostCounterProofs`, for all finite sets of threads, all identities, caps, calendars
and bounds that satisfy the three named assumptions of `CostCounter`:

* `TypeCorrect`: `TypeOK`. The work is in `_trim`: `NewestBounded` shows that at most
  `n` elements have fewer than `n` above them.
* `SpendInvariant`: `SpendInv`, from which `TotalsExact` and `OvershootBound` follow.
  *Why the strengthening.* `GuardedSpendBounded` alone is not inductive: a state just
  under the bound with every thread in flight could go over. `ReservedSpendBounded` sets the
  largest cost aside for every admitted call that may still be credited to a bucket
  or an earlier one. `Enforce` needs exact totals to conclude that the bucket is
  under its cap (`AdmissionUnderCap`), so `CurrentTotalsExact` is part of it; that needs
  `FutureEmpty`, so that a bucket is empty when time reaches it, and that `_trim`
  keeps the current bucket, which is the newest (`CreditCurrent`). A tick takes threads out of
  `MayCredit`, and a record takes the thread's own reservation and adds at most its cost.
* `AlertsOnce`: `AlertsDeliveredOnce`, with the fact that only a delivering thread
  holds alerts.
* `TripsLatched`: `EveryTripLatched`: only the key a record has changed can have newly
  reached its trip point, and `Trips` contains it.

* `TallyKept`: `TallyLostOnlyByStraggler`, by the only step that touches a tally.
* `GateImplemented`: `ImplementsGate`. Every step maps to a step of the gates: `SpendInv` gives that an
  admitted call found each current bucket below its cap, and that a record is charged by an
  admitted thread to the buckets it may still be credited to.

Its second part is about `AdmissionGate` itself, for all pots and caps (`AnyGate`): `GateReserves`
(`Reserved`, money set aside for each caller in flight, is inductive) and `GateBound`, what a gate that
reserves nothing is overshot by. With `GateImplemented` the bound is one of every implementation.

Its last part is about `CounterRestart`, for any number of crashes and loads, whole or partial:

* `RestartInvariant`: `RestartInv`, from which `LossIsExact` (`LossIsUnsaved`) and
  `OvershootAcrossRestarts` (`SpendBoundedAcrossRestarts`) follow. *Why the strengthening.* A write puts the
  snapshot in the place of the blob and a load puts the blob in the place of the memory, so what a
  snapshot lacks is part of it (`SnapshotLoss`), and the blob must keep the present bucket when the
  load trims it. Totals are not exact after a crash: what `enforce()` compares falls short
  by `missing`, so `ReservedAcrossRestarts` takes `peak`, the most any process was missing, in the place of
  zero, and `MissingBounded` says that a bucket time has not reached lacks nothing.
  The reservation lemmas speak of any shortfall, so that `SpendInvariant` uses the same ones with zero.
* `TripsAcrossRestarts`: `TripLatchedOrInherited`, by the argument of `TripsLatched`; a load makes everything
  it finds tripped inherited.

`RollingWeekCounterProofs`, for every number of threads, all dimensions and keys, caps, calendars and amounts:

* `WeekInvariant`: `WeekInv`, from which `TalliesBounded` (`TallyBounded`) follows. *Why the strengthening.* The
  money of every thread that may yet add to a tally uncompared is set aside (`ReservedTally`).
  A thread is compared with one week's tally and may be recorded in a later one, so `MayAdd` follows it
  through the weeks it may still come to, and `AdmittedAlone` says that its event fits an empty tally.
  In strict mode one thread may have been compared with the tally as it stands, amount included, and
  then counts with its own amount and not with the largest (`Room`): that is where the bound is one event less
  than the lenient one.
* `LeastRecentEvicted`: `EvictsLeastRecent`. `RankedInOrder` makes the order of `_trim_table` strict, so
  that the records it drops are well defined, and keeps a place in it for the key of each event begun.

`MeteringProofs`, for every table that `_load_table` accepts, any rows a caller may pass and any number of threads:

* `MeteringInvariant`: `MeteringInv`, from which `GateAlwaysMatches` (`GateMatchesCost`), `TablesAlwaysAgree`
  (`TablesAgree`), `BillingRestored` (`ShippedBillingRestored`) and `FreeAlwaysReported` (`FreeIsReported`)
  follow. *Why the strengthening.* A registration that raised half way leaves a tiered model with stray flat rates
  in the registry and none in `RATES`; `RatesAreMerged` and `RowsAreShipped` say that this is all it leaves, and
  that tiers are never touched. A shipped schedule ascends, so the first tier that
  holds a prompt is the cheapest that does. Two threads may find the same name unreported, so `ReportInv` counts
  the alerts sent together with the threads on their way to send one.
* `TokensChargedOnce`: `EveryTokenChargedOnce`, for any counts, any set of tools and any rates of theirs. It includes
  the tokens an OpenAI model has written to its cache, as charged at the input rate. A listed
  model has a rate for each way of serving a token at every prompt size (`ListedIsBilled`, from the same
  invariant), and the adapters put each count where its rate is. What a vendor's tools cost is a fold over
  the tools that have a count *and* a rate, and the property sums over all that have a rate. That the two agree
  is not a matter of unfolding: `RightExists` and `RightUnique` give the function of the subsets that the
  fold is, `SumRemove` says that a sum can be taken apart at any element, and `SumPart` that
  elements that add nothing may be left out, each by a smallest counterexample.

`IPRateLimiterProofs`, for every number of threads and clients, every limit, window and
rounding:

* `WindowInvariant`: `WindowInv`. *Why the strengthening.* That windows do not overlap
  (`WindowsApart`) is a fact about history; that the stored window is the newest and its count
  is what it has served (`CountIsServed`) ties it to the state, and `TimesArePast` is needed for a
  window that opens. A thread whose time is older than the stored window is counted in that window, since
  a negative age is less than `Window`: it never opens one that overlaps.
* `BurstInvariant`: `BurstInv`, from which `BurstsAreBounded` (`BurstBounded`) follows. *Why the strengthening.*
  A span of one window's length meets two windows, of which each serves at most the limit, but a thread that
  read its time before the span may still be served in it, in a window that ended before. `SpanBound` therefore
  says what was served in the span by where the stored window lies: if it ended before the span, only the
  threads that are no longer late were served; if it reaches into the span, what it has counted and fewer than the threads;
  if it starts in the span, a full window more. `LateLeaves` is why this is kept: a thread that is
  served in a span leaves `Late`, and none enters it, since time does not turn back.
* `RetryIsHonest`: `RetryHonest`, from the division lemma on whole seconds.

`LocalFileBackendProofs`, for every set of writers and texts, any number of inodes that satisfies
`SpaceAssumption`, and crashes and failures in any step:

* `TypeCorrect`: `TypeOK`, for writers that overlap as they like.
* `BlobInvariant`, `NeverTruncated`, `BlobImplemented`: as long as calls of `write()` do not overlap (`Serial`),
  `BlobInv` holds, no reader finds a truncated blob (`NoTruncatedBlob`) and every step is one of `AtomicBlob`, or none
  (`ImplementsAtomicBlob`). *Why the hypothesis.* The code does not keep calls apart, and `localfile_two`
  shows what two that overlap do; the counters have one writer thread, except in `shutdown()`. The theorems
  say that overlap is the only way to tear a blob: no crash and no failed write does. *Why the strengthening.*
  A rename publishes what is in the temporary file, so `BlobInv` follows the file through the writes: the writer in
  `write()` has it open, and each half it has written is there.

`TelemetryProofs`, for every set of threads, every chain of hooks and depth of nesting:

* `TelemetryInvariant`: `TelemetryInv`, from which `ModeCorrect` and `ConsentCorrect` follow.
  *Why the strengthening.* A span takes its mode from the context, so `ContextOfRequest` says
  that each thread's context has the mode of its innermost request, and that each token holds that of
  the request around it, which detaching brings back; `ExportedIsScrubbed` says of the exporter what
  `ContentNeedsConsent` needs of the mode.
* `TraceInvariant`: `TraceInv`, from which `RequestSpansOutlive` (`RequestOutlivesCalls`) and `CallsTraced`
  (`CallSpansComplete`) follow. *Why the strengthening.* That a request's span has no open child when it ends
  needs two facts of ownership: each open span of a request is on one stack, once (`RequestSpansOpen`,
  with `SpanOfRequest` for what detaching brings back), and each open call's span belongs to one call, of
  the thread whose current span is its parent (`CallOwnsSpan`). `OwnSpan` also says how far the
  hooks have come with the span, so that it is complete when the span hook closes it.
* `AnswersReported`: `EveryAnswerReported`, by counting the answered calls whose event has still to be written.

`GuardedCallProofs`, for every finite set of threads, every set of hooks in any order, all
ceilings and costs:

* `TypeCorrect`, and `MeterInvariant` for `MeterInv`, from which `Faithful` (`MetersFaithful`) and
  `Ceiling` (`CeilingHolds`) follow. *Why the strengthening.* A store adds to a value
  that was read earlier, so `LoadedFaithful` bounds that value by what was recorded
  since; it can only have grown. A ceiling is checked at one place of the chain and
  charged later, so `Reserved` keeps room for the estimate in each budget that the
  running call has passed and has not been recorded in, and `OneAtATime` says that no
  other call takes that room.
* `Accounted`: `EveryAnswerReachesEveryHook`. The calls a hook has seen and the threads that
  have yet to reach it (`Waiting`) make up the answers; a step moves one thread past one hook.

`GcsBackedCounterProofs`, for every set of calls and every number of failures and
restarts:

* `TypeCorrect`; `NoLostWakeup`: `UnsavedIsDue`, by what each step of the writer does
  to the reason a call is due. *Why the strengthening.* A dirty flag is worth nothing without a writer, so
  `ShutdownInv` says that a loaded process has one, which ends only when `_stop` is set, and that
  whatever the final flush had in its snapshot is accounted for from its write on;
* `SavedIsKept`: `SavedStaysSaved`, from the invariant `Growing`: while serving, the blob is
  within the memory, and within the writer's snapshot when it is writing.

Only model-checked: the liveness properties `RecordedIsSaved` and `WriterStops` (TLAPS does not reason about
fairness here). Every other property of a passing run is a theorem. Nothing is
assumed beyond the named `ASSUME`s and, for the blob, `Serial`.

## Not modelled, and why

* How `ProviderTotals` splits its sum and rounds it when saved, and `RollingWeekCounter`'s
  serialization: the conversions are `CostCounter`'s, which `CounterRestart` models.
* An application that calls `load()` after `shutdown()`, or `flush()` itself.
* Floating-point money: sums of costs are exact here. Rounding cannot exceed a
  part in 10^15 of a total; no property depends on a smaller difference.
* Growth of `_per_token`, `_alerted` and the limiter's windows, which nothing bounds.
* GCS itself: one library call replaces an object, taken to be atomic.
* Keys of a caller's row beside the documented ones: `_validate_row` (`pricing.py:412-437`) lets `tiers`
  through unchecked, so such a row may put a schedule of its own in the place of a shipped one and raise at
  `pricing.py:490` after that. `CallerRow` has no such row, and the pricing theorems do not speak of it.
* The snapshots for display, the age of the rates and the catalogue's filter: readers
  without an effect. A falsy injected response makes `guarded_call` call the provider (`wrapper.py:235`);
  to the hooks, which is all `GuardedCall` follows, both are answers.
* `truncated` and `default_estimate` of the adapters: any answer may be truncated and any
  estimate made in `GuardedCall`.
* Vendors' counts that contradict themselves (more cached tokens than the prompt has);
  `max(…, 0)` in `OpenAIUsage` is kept, and no property speaks of it.
* Schemas, alert transports, the wording of events and logs.
* `scripts/check_pricing_drift.py`: it parses vendors' web pages and shares no state with the library.

## Plan

1. Done: all the modules above; proofs about `CostCounter` with its gate and its restarts, `RollingWeekCounter`,
   `GcsBackedCounter`, `LocalFileBackend`, `GuardedCall`, `Pricing` and `Metering`, `IPRateLimiter` and
   `Telemetry`.
2. Next modules: an admission gate for `RollingWeekCounter`'s weekly tallies; `Metering` under
   `GuardedCall`.
