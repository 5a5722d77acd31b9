# LLM Serving Guardian: a formal model

This directory holds TLA+ specifications of the guardian (the Go program in
`cmd/guardian` and `internal/guardian`), the TLC configurations that check them
on small instances, and machine-checked proofs of the properties that hold for
every configuration. Paths below are relative to the repository root.

## The system

The guardian is one process in front of a fixed list of inference workers.

| Component | State it keeps | Operations | Interacts with |
|---|---|---|---|
| Worker pool (`internal/guardian/pool.go`) | per worker: health flag, consecutive failures, circuit deadline; one round-robin cursor; all under one mutex | `Next`, `ProbeCandidates`, `ReportSuccess`, `ReportFailure`, `HealthyCount`, `Snapshot` | called by every handler goroutine, the health checker and the admin routes |
| Retrying proxy (`proxy.go`) | per request: attempted set, attempt number, last failure, request context | `ServeHTTP` (attempt loop, commit, stream copy, error code) | pool, workers, client, rate limiter |
| Health checker (`health.go`) | the snapshot a round iterates over | `Run`, `CheckOnce`, `probe` | pool, workers, telemetry gauge, process context |
| Process (`cmd/guardian/main.go`) | signal context, server, shutdown timeout | start, signal, `server.Shutdown`, exit | launches the checker and the server |
| Rate limiter (`limiter.go`) | token bucket per client address, last cleanup | `Allow` | proxy |
| HTTP boundary (`server.go`) | none (a status recorder per request) | routes, request ids | proxy, pool, telemetry |
| Telemetry (`internal/telemetry`) | Prometheus counters and the `worker_healthy` gauge | `Observe*` | checker, proxy, boundary; alert rules in `deploy/prometheus` |
| Mock worker (`internal/mockworker`) | failing flag | `/health`, `/v1/chat/completions`, `/admin/failure` | probed and called by the guardian |
| Load benchmark, availability benchmark (`internal/benchmark`) | shared request index, samples, observations | `Run`, `RunAvailability`, reports | clients of the guardian and its admin API |
| Configuration (`internal/config`) | none | strict load and validation | gives all constants |
| Failover benchmark (`cmd/failover-benchmark`) | the fault marker file | runs the benchmark, then reads the marker, validates it and writes the report | the script that stops a worker |

What is hard here: the pool is the only thing handlers and checker share, and
every result is applied to it after the fact. A request or probe starts when
the pool is in one state and reports when it is in another: its worker may have
been tripped, have recovered, or have been tripped again meanwhile. The deadline
of the request, the client leaving, a stalled client, the cancellation of the
process and the dialer's own timeout all reach the same two calls,
`ReportSuccess` and `ReportFailure`. Probes are serial and can each hang. One
cursor serves fresh requests and retries that exclude different workers.
`PROJECT.json` lists these hazards with the line where each bites.

What makes each part correct:

- pool: its fields agree, what it shows is what it routes, it implements the
  documented circuit, and it is fair to workers that stay in rotation;
- proxy: no worker twice, a bounded number of attempts, a retry that covers the
  faulty workers, an answer for every request, truthful error codes;
- checker: no traffic before a good probe, no probe in a cooldown, restored
  workers come back, dead ones leave;
- process: a signal ends it, and the drain does no harm;
- limiter: no client gets more than a burst and the rate, whatever is refilled
  lazily or deleted;
- response stream: one worker's events in order, no retry after the commit, a cut
  stream is charged and is not counted as a success;
- benchmarks: no request lost, doubled or beyond the budget, errors that name the
  cause, reports that are true of the circuit;
- configuration: what is accepted suits everything that is built from it.

## Modules

| Module | Models | State and actions |
|---|---|---|
| `WorkerPool` | `pool.go` | `healthy`, `failures`, `openFor`, `next` are the fields of `workerState` and `Pool`; one action per method, since each runs under the lock; `Elapse` is the clock |
| `CircuitBreaker` | abstract specification of one worker's circuit (`docs/ARCHITECTURE.md`, "Worker state machine", with the edge from OPEN to CLOSED that the text under the diagram allows) | `Close`, `Trip`, `Expire` |
| `TimedPool` | `pool.go` once more, on its real fields: `states[i]` with the deadline as an instant and an uncapped count, the scan of `Next` by offsets and remainders, the clock; implements `WorkerPool` | `Select`, `Succeed`, `Charge`, `Tick`; `Candidates` and `Shown` are the two views that read the clock |
| `RoundRobin` | the cursor of `Pool.Next` with a history variable `passed` | every call of `Next`, every report |
| `Upstream` | what the guardian can see of workers | `mode`: `serving`, `failing` (the mock's flag), `sick` (good `/health`, failing `/v1`), `down`, `hung` |
| `Proxy` | `Proxy.ServeHTTP` | `req[r]` holds the locals of handler `r`; one action per pool call, start and end of `client.Do` and of the body copy, deadline and client |
| `Exchange` | abstract specification of one request: workers asked one after the other, none twice, one committed to, an error that tells whether any was asked; implemented by `Proxy` and `ResponseStream` | `Open`, `Refuse`, `Fail`, `Commit`, `End`, `GiveUp` |
| `HealthChecker` | `health.go` and `Metrics.ObserveHealth` | `phase`, `todo` (the rest of the snapshot), `verdict`, `gauge`, `stopping` |
| `Guardian` | `cmd/guardian/main.go`, composing all of the above | `life` of the process, `vetted` (history: workers that passed a probe) |
| `TokenBucket` | abstract specification of the rate limiter: one bucket per client, refilled steadily, never forgotten | `Grant`, `Deny`, `Refill` |
| `Limiter` | `limiter.go` | `buckets` (tokens and the time since `lastSeen`), `sinceCleanup`; `Allow` with its lazy refill and its cleanup of idle buckets, `Tick` |
| `TimedLimiter` | `limiter.go` once more, on its real fields: the instants `lastSeen` and `lastCleanup`, and the cleanup after the bucket is stored; implements `Limiter` | `Allowed`, `Passes` |
| `RateWindow` | the limiter with the tokens granted since a moment that may be chosen anew at any time | `Restart`, counted calls and ticks |
| `WorkShare` | abstract specification of a fixed number of requests shared out among goroutines; implemented by `BenchmarkRun` and `AvailabilityRun` | `Draw`, `Finish`, `Lose`, `Break` |
| `BenchmarkRun` | `internal/benchmark/run.go` under the interrupt of `cmd/benchmark` | `worker[g]` holds the locals of a goroutine; the shared index `taken`, the written slots `sampled`, `firstErr` |
| `AvailabilityReport` | the scan of `availability_report.go` | the loop's `next`, `detectedAt`, `recoveredAt`; one `Scan` per observation; its reference definition (`ScanMeetsDefinition`) |
| `AvailabilityRun` | `availability_run.go` and `cmd/failover-benchmark`: the goroutines and their budget, the poller of the admin API, the marker, the report; extends `AvailabilityReport` | `worker[g]`, `taken`, `attempts`, `poller`, `observations`, `marker`; `lastDown` and `lastUp` are histories of the circuit, which moves as `CircuitBreaker` lets it |
| `ResponseStream` | one streamed answer: the attempt loop, `copyStreaming`, the `statusRecorder`, the write buffer of `net/http`, and `Request` of the benchmark's client | events are in `upstream`, `held`, `buffer`, `delivered`, or seen by `client`; `message` is the response as the connection shows it |
| `Configuration` | `config.Load` and the checks of `NewPool` | no state: `Loads`, `NewPoolAccepts` over decoded files |
| `Percentiles` | `latencyStats` and `percentileMilliseconds` of `stats.go` | no state: `Lower`, `Upper`, `Percentile` of sorted durations |
| `LatencySummary` | `Summarize` and `latencyStats` over the samples of a run | `left`, the lists `ttft`, `tpot`, `e2e`, the `summary`; `Visit` is a turn of the loop |
| `WorkerPoolProofs`, `PoolDetailProofs`, `HealthCheckerProofs`, `GuardianProofs`, `LimiterProofs`, `BenchmarkRunProofs`, `AvailabilityRunProofs`, `ResponseStreamProofs` | theorems, see Proofs | |
| `MCWorkerPool`, `MCHealthChecker`, `MCGuardian`, `MCLimiter`, `MCBenchmarkRun`, `MCAvailabilityRun`, `MCResponseStream` | what TLC needs: the module a configuration is run with and the symmetry of the handlers. `MCWorkerPool` and `MCLimiter` have the behaviours of two levels, the one the other modules use and the one on the fields of the code; `MCBenchmarkRun` lets the summary follow the run. `MCWorkerPool` also has the small configuration files for which TLC evaluates what `ConfigurationFits` proves | |

`Guardian` extends `Proxy` and `HealthChecker`, which both extend `Upstream`,
which extends `WorkerPool`. An action of a part leaves the variables of the
other parts alone; `Guardian` adds that conjunct and the condition that the
process still runs. The modules that implement another one by a refinement mapping
(`INSTANCE ... WITH`) are `WorkerPool` (`CircuitBreaker`, once for each worker),
`TimedPool` (`WorkerPool`), `Proxy` and `ResponseStream` (`Exchange`), `Limiter`
(`TokenBucket`), `TimedLimiter` (`Limiter`), and `BenchmarkRun` and
`AvailabilityRun` (`WorkShare`). `ResponseStream` is the same handler seen from the bytes:
alone, without the pool, but with what lies between it and its client.

Operators whose name says what is wrong with them and whose comment starts with
"Mutant" are deliberate errors: each passing property has one that it catches,
named in `PROJECT.json`. No specification uses them.

### Abstractions

- **Time.** The pool stores the instant `circuitOpenUntil` and only asks whether
  it is zero and whether it has passed; `openFor` stores the remaining time, with
  `Unset` for zero and 0 for "passed". That this loses nothing is checked and proved:
  `TimedPool` keeps instants and a clock. Probe interval,
  timeouts and deadlines are actions that may happen at any time, so every
  relation between the configured durations is covered.
- **Counting.** `consecutiveFailures` is only compared with the threshold and
  saturates at `FailureCap >= FailureThreshold`; `TimedPool` counts on.
- **Workers** are indices: `NewPool` rejects duplicate names, so `find` returns
  exactly one.
- **Workers starting to misbehave** (`ChangeMode`) may happen between any two
  steps. A mode says what the *next* answer is; an answer under way may end
  either as it began or as the new mode has it.
- **5xx bodies** are read and thrown away before the worker is charged; a handler
  stays at `returned` for as long as that takes.
- **Tokens** of the limiter are whole fractions of a token, so the rounding of
  `float64` is left out; instants are kept as ages, counted up to `AgeCap`, from
  which on a bucket is due for deletion and would be full; `TimedLimiter` keeps the
  instants. A limiter with rate 0
  is disabled and does nothing.
- **Samples** of the benchmark are slots that have been written or not; what a
  sample holds is left out.
- **Attempts** of the availability benchmark are their two instants. The clock is
  a small range of instants; observations, requests and the fault are stamped with
  it, and any number of steps may share an instant.
- **The circuit** that the poller sees may open and close at any time, as the
  pool's does under traffic; an observation is stamped before the snapshot is
  taken, as `observeWorkers` does it. It shows the target healthy or unhealthy, does
  not list it, or is missing because the admin API did not answer.
- **Events** of a stream are named by their worker and number: tokens, then the
  usage, then `[DONE]`. A read returns any number of those that have arrived. The
  server may send its buffer at any time, has to when it is flushed or the handler
  has returned, and frames the response by the copied `Content-Length` or in
  chunks. Left out is one corner of `net/http`: a response that the guardian's
  transport decompresses unasked loses its `Content-Length`. It asks for compression
  only when the client sent no `Accept-Encoding`; the benchmark's client always
  sends it. For a client that does not, a cut of such a response is like one in
  chunks, and `TruncationVisible` does not speak of it.
- **Configuration files** are what decoding makes of them; a duration that does
  not parse is 0, as both are refused alike.
- **Sorting.** `Summarize` appends to its lists and sorts each at the end; in
  `LatencySummary` a duration is put at its place when it is appended.
- **Percentiles** are taken of whole durations at a quantile in hundredths and kept
  a hundredfold; the rounding of `float64` is left out.
- **Refusals** before the attempt loop (rate limit, size, unreadable body)
  change nothing the rest depends on and are one action.
- A **canceled context** makes `client.Do` return at once without contacting the
  worker; the code of `net/http` is outside this repository and is modelled from
  how the guardian uses it, as is the dialer's timeout error, which matches
  `context.DeadlineExceeded`.

## Runs

| Run | Instance | Question |
|---|---|---|
| `pool` | 3 workers, threshold 2, cooldown 2; as `WorkerPool` has them, or on the fields of the code with counts to 4 and the clock to 6 | fields agree (`CircuitConsistent`); admin view and readiness tell what routing does (`SnapshotShowsRouting`); the circuit breaker is implemented; round-robin is fair (`FairShare`); `TimedPool` implements `WorkerPool`, and its two comparisons with a deadline agree with it at every instant (`ViewsAgree`) |
| `quiet_guardian` | 2 workers, all modes, no traffic | probes respect cooldowns; the gauge lags by one report; the rotation settles (liveness) |
| `failover` | 2 workers (one sound, one in any mode but `failing`, which answers requests like `sick`), 2 concurrent requests, 2 attempts, stalled clients | no traffic before a good probe, sound workers never blamed, no request fails while a sound worker is eligible |
| `progress` | 2 workers, threshold 2, 1 request, leaving clients, deadlines, hung workers | every request answered, and nearer to its answer with each step of its handler (`RequestsAdvance`); the handler implements `Exchange`; restored workers return; dead ones leave |
| `shutdown` | 2 workers (one sound, one that serves, hangs or is down), 1 request, leaving and stalled clients, deadlines, a signal at any point, server failure | the process exits; the type invariant of the whole process, its drain included; a timeout or a cancellation that an attempt returns is that of its own request, or a timeout is that of a dial (`TimeoutHasCause`); a sound worker is charged only by its own requests whose context has ended, or by a probe that the stop has cut off (`SoundChargedForCause`) |
| `limiter` | 2 clients, a burst of 2 tokens, half a token per tick; with ages, or on the fields of the code with an hour of 4 ticks and the clock to 14 | the limiter implements `TokenBucket`; no client gets more than a burst and the rate in any stretch of up to 5 ticks; buckets of clients that are gone are dropped; `TimedLimiter` implements `Limiter` |
| `benchmark` | 3 goroutines, 3 requests, 1 warmup request; then up to 3 samples with 3 durations and 2 token counts | no slot is measured twice, the error returned is genuine, a run without interrupt is complete, `Run` returns; the summary reads no element its lists do not have (`NeighboursInside`) |
| `availability` | 2 goroutines, a budget of 2, 2 instants, 2 observations | the goroutines implement `WorkShare`, so that the budget is conserved; the report is about a fault of this run; the scan meets its definition; the report is true of the circuit; the benchmark ends |
| `stream` | 2 workers, 2 tokens, both framings | one worker's stream in order; a cut stream is charged, and visible if its length was declared; the benchmark's client counts no cut stream as a success; events do not wait in a buffer |
| `client_leaves`, `dial_timeout` | 2 workers, 1 request | each shows a disagreement between the code and its documentation, below |
| `silent_truncation` | 1 worker, 1 token | the same, of the response stream |

Why the bounds are enough: with two workers a round has a probe that can be
stale and a request has a worker to retry on; threshold 2 separates "a failure"
from "trips"; a cooldown of 1 (2 in `pool`, where circuits opened at different
ticks must expire at different ticks) has the two phases the code distinguishes.
Handlers interact only through the pool, so two of them and the checker give
every overlap of three reporters. `Requests`, `Modes`, `Sound`, `Interruptions`
(what may befall a request) and `Stops` (what may end the process) name what an
instance allows; `failover` allows no leaving client, no deadline and no signal
because with them `SoundNeverCharged` is false, as `client_leaves` shows for a
client that leaves. What holds with all of them is `SoundChargedForCause`, which
`shutdown` checks: there every interruption and every stop may happen, and the other
worker may hang or be unreachable, so that deadlines, dials that time out and probes
cut off by the stop compete for the blame. `quiet_guardian` has no requests: what it
says of cooldowns, of the gauge and of the rotation is said of a guardian without
traffic (with traffic the gauge does not follow the circuits that requests change,
and a round may probe a worker in its cooldown); `progress` has both reporters. In `limiter` the idle limit is exactly what refills a bucket,
the tightest case in which deletion is harmless, and cleanups are rarer than
ticks, so that buckets outlive the limit. In `benchmark` one goroutine can fail,
one be canceled by it and one be between two requests, and the index overshoots
the slice. In `availability` both goroutines have a request under way and both
find the budget used up, the second instant lies past the time to stop, and two
observations can see the target fail and recover; `MaxObservations` and `Horizon`
are bounds of that model only, the proofs are for any. In `stream` one worker can
fail before the other is committed to, and a stream can break between two tokens,
before the usage, and before `[DONE]`. On the fields of the code, a circuit of `pool`
can open, be charged once more, run out and open again before the clock stops, and in
`limiter` two cleanups and a deletion happen; `MostFailures` and the two
`LastInstant` are bounds of those models only, the proofs are for any. In `benchmark`
each list of the summary can have any length from none to three, so that a percentile
falls on an element, between two, and beside the last. Deadlock is not checked in the runs of
`Guardian`, `BenchmarkRun`, `AvailabilityRun` and `ResponseStream`
because a process, a run or an answer that has ended does nothing more.

### Fairness

`Guardian!Fairness` assumes weak fairness of each handler's own steps and of the
checker (goroutines are scheduled), of the answer of a worker that has one to
give, of each request's deadline (`context.WithTimeout`), of the passing of
cooldowns, and of `main` including its shutdown timeout. The ticker and the probe
timeout make the checker's steps always come. Nothing is assumed of clients, of
workers changing mode, or of signals arriving; a hung worker never answers.

`BenchmarkRun!BenchSpec` assumes weak fairness of every goroutine, whose requests
end because `cmd/benchmark` gives its client a timeout, and of `Run` itself.

`AvailabilityRun!AvailabilitySpec` assumes weak fairness of the goroutines, of
both halves of an observation (their client has a timeout) and of the main
goroutine, and strong fairness of one thing: that the poller takes the branch
`<-stopPolling` of its `select`. Go picks at random among branches that are ready,
so a poller that always finds the ticker ready too still stops in the end; weak
fairness would not say that. Nothing is assumed of the clock, the circuit, the
marker or an interrupt.

`ResponseStream!StreamSpec` assumes weak fairness of the handler, of the server
finishing a response whose handler has returned, and of the client reading. A
worker may stall at any event for ever, and the write buffer need never be sent
unasked: that is what makes `EventsArrive` a property of the flush.

## Findings

Each is a violation run on the unmodified model; the quoted lines are in
`PROJECT.json`.

1. `client_leaves`: a client that cancels charges the worker it waited for.
2. `dial_timeout`: a dialer timeout is reported to the client as the request's
   deadline.
3. `silent_truncation`: when a stream breaks after the response was committed, the
   handler returns normally, so a chunked response is terminated as if it were
   complete and the connection stays open, where the documentation says that it
   ends. The benchmark's own client notices, by the missing usage
   (`SuccessMeansWhole`); other clients need not. `TruncationVisible` shows that
   an answer of declared length is not affected.

Seen while modelling, without a run:

- a response in flight when the circuit opened closes it during the cooldown
  (`pool.go:112`): the diagram of `docs/ARCHITECTURE.md` has no such edge, the text
  under it ("any successful health check or upstream response resets consecutive failures") allows
  it, and `CircuitBreaker` has it;
- a worker with a good `/health` and failing `/v1/*` stays in rotation when probes
  come often enough, because each good probe resets its count (`pool.go:114`);
- an interrupt between two requests of the load benchmark, with none under way,
  yields a report with slots that were never measured, as samples of zero length
  (`run.go:56`); `CompleteUnlessInterrupted` is what holds;
- with traffic, `CheckOnce` contacts workers that are in their cooldown, since it
  works from the snapshot at the start of the round; without traffic it never
  does (`ProbesRespectCooldown` of `quiet_guardian`);
- the attempt loop goes on choosing, and charging, workers after the context of
  the request has ended (`proxy.go:89`);
- after a signal the rest of the probe round fails without contacting anybody
  and is charged to workers that draining requests still use (`health.go:54`);
- `docs/ARCHITECTURE.md:21` has a failed probe open the circuit, while the code
  needs as many failures as the threshold, so a worker that has never been up
  stays PROBING meanwhile;
- the configuration allows a burst that an hour does not refill; then a client
  that pauses for an hour gets a full bucket before it has earned it
  (`RefillsWhileIdle` is what excludes that).

## Proofs

All theorems hold for every number of workers, threshold, cooldown and attempt
limit allowed by the ASSUMEs (what `config.Load` and `NewPool` enforce).

- `WorkerPoolProofs`: `PoolInv` (types and `CircuitConsistent`) is inductive, one
  lemma per pool method. The type invariant is needed to compare the counter with
  the threshold; the agreement of deadline, counter and health flag is needed for
  the refinement, since only a worker *without* health may pass from OPEN to
  PROBING when its deadline passes. `PoolImplementsBreaker` maps every pool step
  to a step of `CircuitBreaker` or a stutter.
- `PoolDetailProofs`: `FairShare` is not inductive; `CursorApproaches` (calls that
  passed a worker over plus its distance from the cursor stay below the number of
  workers) is. `ScanDecides`: the scan meets every worker at exactly one offset, so
  among those that may be used there is a first, by the least element of a set of
  numbers. `TimedPoolImplements` maps an instant to the time that remains, a count to
  its minimum with the threshold, and an offset to the worker it meets; it needs that
  no deadline lies further ahead than a cooldown and that the clock never shows zero.
  With it what is proved of `WorkerPool`, and through `GuardianUsesPool` of the
  process, holds of the fields the code has. `DeadlineViewsAgree`: both comparisons
  of the clock put the very instant of the deadline on the same side.
- `ConfigurationFits`, in `WorkerPoolProofs`: for every file that `Load` accepts,
  `NewPool` does not refuse it, the assumptions above hold of what it holds, and
  `find` returns the worker a report is about, which is why workers are indices in
  all modules. (`RefillsWhileIdle` is the one assumption it does not give.)
- `LimiterProofs`: `IdleBucketsDropped` is inductive with the types: until a cleanup
  is due, every age grows with the time since the last one. The refinement mapping takes the level of a client's bucket to
  be what it would be refilled to now, and full if there is none. A deletion maps
  to a stutter only if the bucket was full, which is where `RefillsWhileIdle` (an
  hour refills a bucket; not enforced by the configuration) is assumed. The rate
  bound is not inductive: it is strengthened to "spent plus what is left is at
  most a burst and what the rate has yielded".
  `TimedLimiterImplements` maps instants to ages that stop at `Oldest`; the code
  stores a bucket, looks at all of them and deletes some, which is one map of the
  kept ones in `Limiter`, since the one just stored is never idle. What `Limiter`
  assumes of `AgeCap` is proved of `Oldest` (`OldestFits`).
- `GuardianProofs`: `RequestsOK` says of each handler what its place in
  `ServeHTTP` implies; the attempt counter and the size of the attempted set bound
  each other, so types and `AttemptsAreWorkers` are one invariant. With the types
  of the checker it gives that every step of the process is a step of `WorkerPool`
  or leaves the pool alone (`GuardianUsesPool`), through which the theorems about
  the pool apply to the process: `ProcessBreaks` and `ProcessConsistent` are the
  circuit breaker and the honest views under the real mix of handlers and checker.
  `PromiseKept` maps the locals of a handler to `Exchange`; the attempted set without
  the worker under way is the set that has failed. `RequestsDescend` is the measure on
  which `EveryRequestAnswered` rests: each step of a handler takes it to a later place
  of the same attempt or to an attempt less to go. With weak fairness of those steps
  the liveness follows, but that last step is for TLC. `TimeoutExplained` ties what an
  attempt returned to the context of its own request; `ReachableMeansDeadline` draws
  from it that 504 means the deadline wherever no worker is `down`, so that the finding
  `dial_timeout` is the only way to break it. `NoTrafficBeforeProbe` and "only vetted workers
  have health" need each other: health comes from a good probe or from a response
  of a worker that was chosen. `FailoverCovers` rests on `Blameless`: a handler
  stays with a sound worker to the end, so one that is still choosing has tried
  none; if the workers it may try outnumber the faulty ones it has not run out of
  attempts. It holds of every request whose context lives, whatever becomes of the
  others. `SoundPaysForItsOwn` adds that probes of sound workers are good as long as
  the process is not stopped, and assumes nothing either. Only `SoundKeptClean`
  assumes `Interruptions \subseteq {"stalled"}` (no client leaves, no deadline
  fires) and that no signal comes, which takes both causes away; `client_leaves`
  shows that the assumption is needed.

- `HealthCheckerProofs`: without traffic only the worker just reported on can be in
  a cooldown although it is still in the snapshot (`SnapshotFresh`), so no other
  is probed in one; and between a report and the update of the gauge exactly that
  worker's gauge may be off (`VerdictsFollow`).
- `BenchmarkRunProofs`: the shared index overshoots by at most the goroutines that
  are done, since each of them took one index too many. Every index handed out is
  carried by a goroutine or its slot is written (`Carries`), as long as the context
  is not done; a cancellation is only ever somebody's cause after an interrupt or
  an earlier error (`ErrorInv`). `PercentileInside`: for any number of sorted
  durations both neighbours of a percentile exist (no index past the slice) and it
  lies between them; `PercentilesOrdered`: P50 <= P95 <= P99, by cases on whether
  two quantiles fall between the same neighbours. For the summary as a whole,
  `FirstTokenFirst` needs that the sorted times to the first token lie below the
  sorted durations place by place (`Below`), and that putting a pair into the two
  lists, each at its own place, keeps it so (`InsertedBelow`). `MeasurementsShared`:
  every step of the goroutines is one of `WorkShare`; a slot that was written is new,
  so the count of the slots is the count of the measurements.
- `AvailabilityRunProofs`: the same argument gives the budget, and `BudgetShared` the same refinement, in which
  nothing is ever lost. `ReportIsTrue` needs
  that an observation was stamped before its snapshot, so that what it says was
  true at some moment since, and that the histories only grow. The scan is proved
  against its definition by induction over its own steps: at `next` it has found
  what the definition says of the observations before `next`.
- `ResponseStreamProofs`: `Flow` says that delivered, buffered and held events are,
  in this order and without a gap, the first `taken` events of the committed worker;
  `Stages` what the handler's place says of the response (nothing is held while it
  reads; if it has returned without a charge, everything was taken); `ClientKnows`
  that the client's flags are about events it has seen. All the safety properties
  follow from the three together. `StreamKeepsPromise` maps the handler to the same
  `Exchange` as that of `Proxy`.

Only model-checked: every liveness property (`RotationSettles`,
`EveryRequestAnswered`, `RestoredWorkerReturns`, `DeadWorkerLeaves`,
`ShutdownCompletes`, `RunReturns`, `AvailabilityReturns`, `EventsArrive`; fairness and
ENABLED are out of the prover's reach), and the properties of the violation runs, of
which `TimeoutMeansDeadline` is proved under the condition that excludes the
counterexample and `SoundNeverCharged` likewise. Every invariant, action property and
refinement of the passing runs is proved.

Some invariants are proved but no longer run, since a run would add nothing to
the proof and to what the other properties show: the type invariants of the parts
(`GuardianTypeOK` is that of the whole process), `CursorApproaches`, `NextDecides`,
`AttemptsAreWorkers` (which `ImplementsExchange` contains), `BudgetConserved` (in
`ImplementsWorkShare`), `SummaryOrdered`, `FirstTokenFirst`, and the second users of the two
abstract specifications (`StreamKeepsPromise`, `MeasurementsShared`). TLC found them to
hold before they were proved.

Induction over data is out of the provers' reach, but for what follows from the least element of a set of numbers; so lists are built
by the steps of a module (`AvailabilityReport`, `LatencySummary`) rather than by
recursion, and the induction is the one over its steps.

## Not modelled

- Rewriting of headers other than those that frame the body, logging, counters and
  histograms (`telemetry`): nothing depends on them. The alert on the gauge is
  evaluated by Prometheus, outside this repository.
- Routing by path and request identifiers (`server.go`): a pure dispatch.
- HTTP connection pooling and the dialer: external; their effects are modes of the
  workers and errors of `client.Do`.
- Times, sums and rates in samples and reports, and the files written: functions
  of finished data.
- The mock worker's command, the scripts and the recorded results. The fault that
  `run-s3-failover.sh` injects is an action of `AvailabilityRun`.
- Interruptions of the process other than a signal or a failing server: the
  guardian persists nothing, so a restart is a new behaviour of `Guardian`.

## Plan

The plan of modules is done: pool, handlers, checker, process, limiter, both
benchmarks, the response stream and the configuration are modelled, checked, and
their safety properties proved. `Proxy` and `ResponseStream` implement one abstract
request, pool and limiter are tied to the fields of the code. What is left would be

1. measures like that of `RequestsDescend` for the other liveness properties: the
   round of the checker, the drain, the goroutines of the benchmarks;
2. the alert on the gauge against what clients experience.
