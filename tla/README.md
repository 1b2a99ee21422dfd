# GodZilla: TLA+ specifications

These modules model the parts of GodZilla whose correctness depends on the order
in which things happen: the durable event journal, the application lifecycle, the
market state router, the recovery of a market-data stream, its bars on their way to
canonical bars, and the chain of decisions from features over five alphas and their
health to the ensemble and the allocation. TLC checks them on small instances; TLAPS proves the theorems of
`JournalProofs`, `MarketStateProofs`, `LifecycleProofs`, `MarketDataProofs`, `AlphaProofs`,
`AllocationProofs`, `DeskProofs` and `DecisionProofs` for every value of the constants.

    tlc -workers 2 -config JournalWriters.cfg MCJournal
    tlapm JournalProofs.tla

Source paths below are relative to `src/src/godzilla/`, documents to `src/docs/`.

## 1. The system and its components

GodZilla is a phased trading research platform: data arrives as bars and quotes,
becomes features, a market state, alpha intents, an ensemble of them and a
portfolio plan. Nothing trades yet. Every consequential decision is published
as an event through one durable journal; everything that is decided from is pure
or single-threaded. Concurrency is at the edges: several threads and processes
publish to one PostgreSQL database, signals interrupt the main thread, streams
drop and reconnect.

| Component | State it keeps | Operations | What is hard | What makes it correct |
|---|---|---|---|---|
| Event journal and store (`core/events/journal.py`, `storage/postgres.py`) | `_blocked`, `_validated` in memory; tables `audit_events`, projection tables, `system_state`, `instrument_versions`; an advisory lock | `publish`/`append`, `save_instruments`/`save_master`, readers, `health` | concurrent writers, crashes, a commit whose answer is lost, redelivery, a consumer that fails after the commit | one unbroken hash chain in receipt order, no identity twice, tables that say what the log says, dispatch after commit and at most once, no loss that nobody reports |
| Application lifecycle (`app/lifecycle.py`, `app/cli.py`) | `_state`, a `threading.Event`, signal handlers | `mark_ready`, `request_stop`, `mark_stopped`, `handle_signal`, `_run` | handlers that run between any two steps, and on top of each other | only allowed transitions; a signal leads to STOPPING, STOPPED and an exit |
| Market state router (`market_state/router.py`, `rules.py`) | `_last`, `_pending`, `_count`, `_feature_time` | `route`, `classify`, `permissions`, `publish_state` | repeated and reordered snapshots, gaps, session changes, a transition that is pending while evidence turns | a tradable state is confirmed by distinct observations and dwell in this session; vetoes act at once; a pending transition grants less, never more |
| Stream recovery (`market_data/reconnect.py`, `freshness.py`) | tracker `_quotes`, `_invalid`; controller `state`, `attempts`, `connected_at` | `update`, `quality`, `disconnected`, `next_retry_at`, `connected`, `validate_recovery` | quotes of a former connection, a flapping stream, the wall clock | recovery only on new, fresh quotes; bounded retries |
| Alpha health (`ensemble/health.py`) | the chain of snapshots the caller keeps | `measure_health` | outcomes that are late, repeated, conflicting or left out | slow, paid-for increases; immediate and lasting cuts |
| Market data ingestion (`market_data/service.py`, `aggregation.py`, `quality.py`, `storage.py`, `replay.py`) | `_bars`, `_seen`, `_reported_missing`, quote and bar stores | `ingest_bar`, `ingest_quote`, `load_history`, `window_health`, `aggregate`, replay subscription | late, duplicate and conflicting bars; a batch that fails in the middle | no look-ahead, duplicates counted once, corrections quarantined |
| Feature engine (`features/engine.py`, `series.py`) | `_events`, every event ever received | `on_event`, `snapshot`, `batch_snapshot`, `publish_snapshot` | late, repeated and corrected events, equal receipt times, holes in sessions | a replay makes the snapshot again; a series that was invalid stays so; averages rest on consecutive sessions |
| Universe (`universe/builder.py`) | none | `build` | rules of several days over one instrument | every exclusion applies; the gates of the alphas repeat it |
| Momentum (`alphas/cross_sectional_momentum.py`) | none | `evaluate` | ties at the tail and at the cap, rejections after the cap | equal cards stand or fall together; no replacements; long and short are mirror images |
| Breakout (`alphas/momentum_breakout.py`, `breakout_scoring.py`) | none; accepted signals are in the journal | `evaluate`, `observe_failed_breakout` | a trigger that is evaluated again, levels older than the bar, bars in any order | one signal per trigger, only new breaks, statuses in the order of the bars |
| VWAP reversion (`alphas/vwap_mean_reversion.py`, `features/vwap_reversion.py`) | none | `evaluate`, `observe_vwap_exit` | late bars, stale bars at an exit, the end of the session | no hindsight, exits by later bars only |
| Pairs (`alphas/pairs_engine.py`, `pairs_data.py`, `pairs_statistics.py`) | none; the caller keeps the `PairPosition` | `evaluate` | a rolling fit under an open position, holes in the training, inputs that fail while a position is open | the exit undoes the entry, an open pair is watched, an entry is not an exit at once |
| Relative value (`alphas/sector_relative_value.py`, `relative_value_*.py`) | none; an inventory of reserved securities is an input | `evaluate`, `stat_arb_inventory` | inventories that age, tokens that change hands, late bars | overlaps are at most as old as the inventory, baskets are coherent |
| Ensemble (`ensemble/normalize.py`) | none | `normalize_intents` | overlapping and opposed bundles in any order | survivors do not contradict; a loser lost to a survivor; the refused do not interfere |
| Allocation (`portfolio/allocator.py`, `publication.py`) | none; existing and pending commitments are inputs | `totals`, `within_caps`, `allocate`, `publish_decision`, `publish_health` | caps on rounded legs, bundles that must stay whole, plans approved in part | caps hold exactly and budgets up to the rounding of legs, no leg alone, no second group for a security |
| Calendar, instruments (`market_data/calendar.py`, `instruments.py`) | loaded tables | `session_on`, `state_at`, `active_on` | special sessions, days that are not covered | unknown days trade nothing |
| Replay (`core/events/replay.py`, `core/clock.py`) | replay clock | `run`, `advance_to` | order of equal times, chain validation | the consumer sees the log, in order, once |
| Statistics and research (`alphas/*_research.py`, `market_state/research.py`) | none | offline calculations | numerics | outside TLC's reach |
| Compliance, configuration, logging, identifiers | none | look-up, parsing, formatting | | nothing to model |

Interactions. `features/service.py`, `market_state/service.py` and
`portfolio/publication.py` each publish through `EventJournal.publish`; a `False`
answer (redelivery) is not dispatched again. The journal's `emit` is the callback into
the next component. `MarketStateRouter` reads feature snapshots and a
`RoutingHealth`; `ReconnectController.validate_recovery` reads the quote tracker;
`measure_health` feeds the ensemble, which feeds the allocator. `EventReplay` reads
`audit_events` back and feeds the same consumers.

PROJECT.json lists every component with its sources, and under `hazards` each
place where this code is hard to test, with the property that covers it.

## 2. The modules

| Module | Stands for | Extends |
|---|---|---|
| `EventLog` | what the store promises: one growing log, at-most-once delivery of what is in it | |
| `Journal` | `EventJournal` over `PostgresRepository`, statement by statement | instantiates `EventLog` |
| `JournalInvariant` | the inductive invariant of `Journal` | `Journal` |
| `JournalProofs` | proofs: types, the chain, order, uniqueness, tables, dispatch, refinement of `EventLog` | `JournalInvariant`, TLAPS |
| `MCJournal` | submissions and topologies for TLC | `JournalInvariant` |
| `Lifecycle` | `_run`, `LifecycleController`, signal handlers, the Event | |
| `LifecycleProofs` | proofs about shutdown | `Lifecycle`, TLAPS |
| `MarketStateRouter`, `MCMarketStateRouter` | `route`, `classify`, `permissions` | |
| `MarketStateProofs` | proofs about the router | `MarketStateRouter`, TLAPS |
| `StreamRecovery`, `MCStreamRecovery` | `ReconnectController` and `QuoteFreshnessTracker` | |
| `BarPipeline`, `MCBarPipeline` | `MarketDataService`, `BarQualityChecker`, `FiveMinuteAggregator` | |
| `MarketData` | both together | `BarPipeline`, `StreamRecovery` |
| `MarketDataProofs` | proofs about canonical bars and about recovery | `MarketData`, TLAPS |
| `AlphaHealth`, `MCAlphaHealth` | `measure_health` along chains of snapshots | |
| `MCMarketData` | bars and quotes in one run | `MarketData`, `MCBarPipeline`, `MCStreamRecovery` |
| `Calendar` | `NseExchangeCalendar`, `session_bounds` | |
| `UniverseBuilder` | `UniverseBuilder.build`, and the gates every alpha repeats | `Calendar` |
| `FeatureEngine`, `MCFeatureEngine` | `CausalFeatureEngine` and `series_features` | `UniverseBuilder` |
| `Momentum`, `MCMomentum` | `CrossSectionalMomentum` | `UniverseBuilder` |
| `Breakout`, `MCBreakout` | `MomentumBreakout`, `measure_breakout`, `observe_failed_breakout` | `UniverseBuilder` |
| `VwapReversion`, `MCVwap` | `reversion_features`, `VwapMeanReversion`, `observe_vwap_exit` | `UniverseBuilder` |
| `Pairs`, `MCPairs` | `select_window`, `liquid`, `PairsEngine` | `UniverseBuilder` |
| `RelativeValue`, `MCRelativeValue` | `stat_arb_inventory`, `estimate_beta`, `neutral_weights`, `SectorRelativeValue` | `UniverseBuilder` |
| `AlphaProofs` | proofs about relative value, pairs, the multiplier, breakout and vwap reversion | the alpha engines but momentum, `AllocationProofs` |
| `Ensemble` | `normalize_intents` | `UniverseBuilder` |
| `Allocator` | `allocate` | `Ensemble` |
| `AllocationProofs` | sums over sets, the limits of a candidate, the loop of `allocate` | `Allocator`, TLAPS |
| `Desk`, `MCDesk` | the composition: router, ensemble, allocator, journal, positions | `Allocator` |
| `DeskProofs` | proofs about normalization, plans and approvals | `Desk`, `AllocationProofs` |
| `Decisions` | features, health, alphas and desk together | all of them |
| `DecisionProofs` | proofs about features, momentum, baskets, and all decisions together | `Decisions`, `AlphaProofs`, `DeskProofs` |
| `MCDecisions` | features, health, alphas and desk in one run | `Decisions`, the MC modules of its parts |

An operator whose name ends in an underscore and a word (`AcquireLock_Shared`) and
whose comment starts with "mutant:" is a plausible bug in the operator of the same
name. No specification uses it; substituted for the original it breaks the property
PROJECT.json pairs it with, which shows that the property is sensitive to the code.

### Journal

State. `audit` holds the committed rows of `audit_events` in the order of commit,
with `nextSequence` for the identity column (which never rolls back), `projections`
for the unique keys of all projection tables, `systemState` and `masters` for the
two remaining tables. `holder` is the owner of `pg_advisory_xact_lock(471104)`;
`Abandoned` means a server session whose client is gone, and `orphan` what that
session may still commit. `up`, `life`, `blocked`, `validated` are the process and
its `EventJournal`; `pc`, `call`, `tail`, `staged` are each thread's place and locals.

Actions. A call is `Publish` or `SaveInstruments`, then one action per SQL
statement: `AcquireLock`, the lookup (`LookupMiss`, `Redelivered`,
`LookupConflict`; `MasterMiss`, `MasterKnown`, `MasterConflict`), `ReadTail` or
`ReceiptRegression`, `InsertRow` or `InsertConflict`, the commit (`CommitAndEmit`,
`CommitAndReturn`), and `Emit` or `EmitFails`. `PublishMalformed` and `CallRefused`
are the early exits. `LoseConnection` may strike at any statement, `Crash` and
`Restart` at any time; `OrphanCommits` and `OrphanAborts` are the server's end of a
session whose client is gone. A connection lost at the commit label covers both
"COMMIT never arrived" and "COMMIT happened, the answer was lost".

Abstractions. SHA-256 is taken to be collision free: a chain hash is the sequence
of submissions it covers. An envelope is one value, so the JSONB encoding of floats
is not modelled. READ COMMITTED needs no snapshots here, because the only reads are
made behind the lock. An `emit` that calls `publish` of the same journal again is
not modelled. `make_engine` sets no statement or lock timeout, so a wait for the
lock ends only with the lock or the connection.

### Lifecycle

The main thread is a stack of frames, `frames`, whose top frame runs. CPython runs a
signal handler on the main thread between two bytecodes, so `Deliver` pushes a
handler frame at any label; `Check` and `Assign` are the two steps of
`transition`. `eventLock` is the non-reentrant lock inside `threading.Event`
(external): `wait` takes it, releases it while asleep and takes it again to look at
the flag, `set` takes it to raise the flag. `exit` is how the process ends:
returned, raised (`InvalidStateTransition`, which `main` does not list), or killed
by the default action before the handlers are installed.

### MarketStateRouter

`Route` is one call of `route` that gets past the identity and time checks;
`RouteNothing` is one that returns the previous decision or raises there.
`Candidate`, `Classify`, `Families`, `Sides`, `Multiplier`, `Count`, `Moves` and
`Decide` follow the code's order. Threshold comparisons are reduced to their
outcomes (`Reading`). The history variables `support` (feature timestamps behind
the current candidate) and `firstInSession` are kept from the inputs alone, so
that the properties do not rest on the router's own counter.

### StreamRecovery

`Update` is `QuoteFreshnessTracker.update`; the other actions are the operations
of `ReconnectController`. Time is the wall clock: `WallTicks` and `ClockStepsBack`;
`steady` remembers whether it was ever set back. The clock moves before a disconnect is reported, because
the last quote of a connection was received before the connection broke.

### BarPipeline

`bars` is `MarketDataService._bars`: each raw bar with the flags it got on arrival; the
keys of `_seen` are those of its elements. `IngestBar` is `ingest_bar`, `LoadHistory` is
`load_history` with any batch a provider may return, stopped by the first bar out of scope
or by a failing store; the bars before it stay. `Ingested` is the loop of both in closed form: every
bar is stored, with flags that depend on what came before it in the log or the batch, one of them for
a key that was seen (`ArrivalFlags`). `Aggregate` computes all canonical bars
for a cutoff: `Group` is a bucket, `CheckedAt` repeats the quality check in receipt order,
`FirstOf` keeps the first received bar of each minute; of several received at one instant the one
whose JSON comes first. The flags precede the prices there, so they decide before the contents do
(`WrittenBefore`, then `id`). `issued` remembers each bar that ever was strategy ready. One `level`
stands for the four prices, `marks` for the flags a bar brings along and for those of prices out of
order; metrics and the memory stores are left out.

### AlphaHealth

`measure_health` is pure; the model is the chain of snapshots a caller builds with
it, any selection of reported outcomes at any time, from the last snapshot or
anew. `MeasureRefused` is every call that raises. Multipliers and returns are integers
in units of their own; the additive curve, its drawdown and the window
are computed as the code does.

### FeatureEngine

`featureLog` is `_events`, `OnFeatureEvent` is `on_event`. `FeatureSnapshot` is `snapshot`, from
the selection of events (`SelectedEvents`) over the series of the session (`SeriesOf`) and the
prior sessions (`PriorSessions`) to the features. A feature is a value or the reason why it is
missing. Ratios are pairs of numerator and denominator; moving averages, slopes, ATR
and covariances are left out, because nothing they do depends on order. In the code a raised
`ValueError` of a series becomes a missing reason of all features that rest on it; in the
model the series is that reason.

### The alphas

Each of the five `evaluate` functions is one operator (`RankMomentum`, `FindBreakouts`,
`FindReversion`, `FindPair`, `FindBaskets`) whose CASE is the code's sequence of early
returns. Around it stands a small machine of the caller: a feed that closes bars in time,
late or not at all, a clock, and what the caller keeps (accepted signals, a `PairPosition`, an
inventory). Scores, returns and betas are integers; a weighted score that is compared with one threshold is
one number. What a regression or a stationarity test yields is a choice (`Fits`). `Rank` is
`percentiles`, doubled so that the mean rank of a tie is an integer.

### Ensemble, Allocator and Desk

`NormalizeIntents` and `Allocate` are the two functions; `Consider` is one turn of the
allocation loop. The greedy selection and that loop are functions of how many candidates were
looked at, so that their states in between can be reasoned about; `ByStrength` is the sorted
list: at place n stands the candidate with n - 1 stronger ones. Correlations are
the magnitudes that `allocate` takes of them.

A Decimal, and a float that is made one, is a number of parts of 1 (`One`). Fixed places stand for
the 28 significant digits of the code's context: every product and every quotient is rounded to the
nearest part, ties to even, where the code takes it and in the order in which it does (`Times`,
`Over`), and sums are exact. Amounts are rounded down to a `Quantum`, the 1e-12 of the code's
`quantize`, which is also the tolerance with which the weights of a candidate must add up to 1
(`UnitGross`; an intent whose weights do not is refused).

`Desk` is a caller: it
routes the market state, normalizes a batch of intents, takes portfolio snapshots, proposes,
publishes both decisions and lets the groups of a plan be approved in the plan's order or
closed. A decision keeps the inputs its digest covers as its `identity`; publishing two
different decisions of one identity halts the journal, as `Journal` shows.

## 3. The runs

| Run | Instance and bounds | Shows |
|---|---|---|
| `journal_writers` | two processes with a thread each, no crashes (`MaxLife` 0), connections may be lost; two good submissions and one for each conflict | order, uniqueness and agreement of tables under races and lost commits |
| `journal_threads` | two threads of one process that may crash once, two submissions, two masters under one id, fairness | types, `NoSilentLoss`, unique masters, every call ends |
| `journal_crashes` | two processes, each may crash once, two submissions | the chain, the order of dispatch, refinement of `EventLog` |
| `lifecycle` | up to 4 signals | clean return, final STOPPED |
| `lifecycle_exit`, `lifecycle_table`, `lifecycle_hang` | 1 signal | three disagreements with the documents, section 6 |
| `market_state` | two days of six ticks and a night, all times, four readings | the router's properties |
| `market_data` | bars: nine raw bars of two sources, two of them received at one instant for one minute, loads of up to three, two windows of two minutes, five ticks, up to four bars ingested; quotes: two instruments, four ticks, the clock may be set back | ready bars are final, no look-ahead, the verdicts on a window agree; the retry budget, recovery on new and fresh quotes |
| `stream_rollback` | one instrument, five ticks | the disagreement of section 6 |
| `decisions` | one subject at a time, table below | features, alphas, ensemble and allocation |
| `desk_identity` | the desk of `decisions` | the disagreement of section 6 |

`market_data` and `decisions` check several components in one run. `FeedSpec` of `MarketData` lets bars
and quotes take turns; `DecisionsSpec` of `Decisions` is the conjunction of the specifications of its
parts, since what one hands to the next is an input there. The parts share no variable, so that in the
runs each behaviour chooses its `feed` or `subject` at the start and the others rest in an initial
state: a property of one part sees the same states, and those of the others hold at rest and cost
nothing. The theorems are about `FeedSpec` and `DecisionsSpec`, where all parts move.

| Subject of `decisions` | Instance and bounds | Properties |
|---|---|---|
| features | three sessions of three bars and a holiday; yesterday's session whole or with a hole; today's events late, unsound, corrected, doubled, at one instant; times 65 to 67 | `SnapshotsReplay`, `HistoriesAreSound` |
| health | five reports of four trades, one id with two contents, seven ticks | `MultiplierIsEarned` |
| momentum | five securities, one without short route; every cross-section of five profiles up to symmetry, and broken ones; two days, four rules of the universe | `RankingIsFair` |
| breakout | four bars of two ticks, closes around the opening range, a swing or none, features as of any earlier bar | `SignalsAreNew`, `StatusesFollowTheBars` |
| vwap | a session of seven bars, the first given, closes that fall, slow down and turn; one bar late within the lag or beyond | `ReplayDecidesTheSame`, `ExitsFollowTheTape` |
| pairs | two short sessions with a night between, a training of two bars, one row missing or late, fits that hold, drift, are rejected or fail | `RoundTripsClose`, `OpenPairsAreWatched`, `HistoriesAreSound` |
| relative value | two days, between which two securities exchange tokens; a sector of six and one of one; up to two pairs held | `OverlapIsRecent`, `BasketsAreCoherent`, `HistoriesAreSound` |
| desk | three listings in two sectors, 100 parts and a quantum of 10, eleven intents of four alphas in batches of up to three, among them a basket whose rounded legs exceed a cap, four market states, seven supplies, four instants on a special and a regular day | `SelectionIsFair`, `PlanIsSound`, `ClippingSuffices`, `ApprovalKeepsCaps` |

A property of these two runs that gathers one subject of a module is a conjunction of named parts,
each stated and commented on its own in the module:

| Property | Module | Parts |
|---|---|---|
| `VerdictsAgree` | `BarPipeline` | `FlagsAreReproducible`, `HealthyWindowIsReady` |
| `MultiplierIsEarned` | `AlphaHealth` | `ClimbIsSlow`, `EachRaiseHasItsTrade`, `CutsAreEarnedBack` |
| `RankingIsFair` | `Momentum` | `TiesStandTogether`, `RejectionsLeaveGaps`, `SidesMirrorEachOther` |
| `SignalsAreNew` | `Breakout` | `OneSignalPerTrigger`, `BreaksAreNew` |
| `RoundTripsClose` | `Pairs` | `ExitUndoesEntry`, `EntriesAreHeld` |
| `SelectionIsFair` | `Desk` | `CandidatesDoNotContradict`, `LosersLostToAWinner`, `RejectedDoNotInterfere` |
| `PlanIsSound` | `Desk` | `PlanWithinCaps`, `BudgetsHold`, `BundlesStayWhole`, `EntriesOnlyWhileOpen`, `OneGroupPerSecurity` |
| `HistoriesAreSound` | `Decisions` | `BaselinesHaveNoHoles` and `InvalidStaysInvalid` of `FeatureEngine`, `TrainingHasNoHoles` of `Pairs`, `TradesNeedPromptBars` of `RelativeValue` |
| `FeedTypeOK` | `MarketData` | the types of `BarPipeline` and `StreamRecovery` |
| `DecisionTypeOK` | `Decisions` | the types of `AlphaHealth`, `Breakout` and `Desk` |

Why the bounds are enough to be interesting. Two writers suffice for each race over one
lock, because a third would only wait; two submissions give a tail, a receipt order and a
redelivery, and the four hostile ones are one for each comparison in `append`. One
restart per process separates the incarnations. Four signals nest three handlers deep
over each label of `_run`. The router's second day is long enough to confirm a trend
anew after a state was carried over night; pauses within one day longer than
`MaxGap + 1` act like `MaxGap + 1` and are left out (`MCTime`). Snapshots and
quotes far from the clock act like nearer ones (`MCSnapshot`, `Near`). The
outcomes of the health part include a late report, two trades closing together, a
loss and an id with two contents, and the ceiling can be reached. In `decisions` a training or a
baseline is as short as the settings allow, so that a session can be too short, whole, or have a
hole; one input at a time deviates from the regular ones, because every gate rejects on its own,
except where two must deviate to matter (a late bar and a tie in time). The desk's caps are chosen so
that each of them binds for some book, and one basket (legs of 1, -1 and 4) has weights of 17, 17 and
67 parts and, for an amount of 40, legs of 7, 7 and 27, so that rounding alone takes it over the cap of 40;
from an evaluation that makes no intent nothing follows
that does not without it, so the MC modules end there. Four bars in
`market_data` are a whole window with a bar before it and a repetition or correction; a
window of two minutes has a first, a last and a missing minute as one of five has.
The session is a whole number of windows: at the end of one that is not,
`window_health` would count only the minutes in session and the aggregator all of them.

The bounds of the modules stand in guards: `MaxSignals`, `MaxTime`, `MaxLife` and `MaxBars`
(the proofs hold for all of their values), `FeatureEnd`, `SessionBars`, `VwapBars`, `LastSlot`,
`MaxPairs`, `MaxBatch` and the sets of instants `MomentumAt`, `RvInstants` and `Instant`.

`DispatchInLogOrder` is checked with one publishing thread per process. With two threads on one
journal it does not hold: both release the lock before they emit. Nothing in
the repository promises it for that case.

`FlagsAreReproducible` and `HealthyWindowIsReady` are about bars ingested in the order of
their receipt. Then the bars that are ready for strategies agree always, and all canonical bars agree if no two
different bars of one minute were received at one instant (`NoTies`). With such a tie the live
service has stored the second bar as DUPLICATE, and in JSON `["DUPLICATE"]` comes before `[]`: it takes the
values of the second, a replay of the raw bars those of the bar whose contents come first. Both
call their bar a duplicate, so neither is ready. Without the order of receipt both properties fail:
let a load bring minute 3 after the stream brought minute 4, which jumps from it.
On arrival minute 4 had nothing before it and got no flag, so `window_health` calls the window validated; aggregation, in receipt order, flags the
jump. The canonical bar is the stricter verdict, so a consumer of both is safe.

`OneSignalPerTrigger` holds because the second evaluation of a trigger has the same signal
id: if its contents differ, the journal halts instead of taking a second signal.

`OverlapIsRecent` is what the code guarantees, not that there is no overlap: the inventory is
read, nothing is reserved, and a pair opened after it was taken may share a security with
a basket until the inventory is older than its maximum age.

`ApprovalKeepsCaps` is about approvals in the order of the plan, on the book the plan was made
from. Net exposure is a difference: a later group may have been admitted because an earlier one
offsets it, so approving it alone can exceed the cap.

Deadlock checking is off for `Lifecycle` (the process ends), the router, `market_data`,
`decisions` and `desk_identity` (their clocks are bounded and a last decision may have no later time).

### Fairness

`Journal!FairSpec`: weak fairness of `Proceed`, as the server answers a statement or the
connection breaks (both are the thread's next step); strong fairness of
`AcquireLock`, because PostgreSQL queues the waiters of an advisory lock and
serves them in turn; weak fairness of `OrphanAborts`, because the server notices a dead
client and ends its session. No fairness for calls, crashes, restarts or lost
connections. `Lifecycle!FairSpec`: the operating system keeps scheduling the
process; signals are not fair. Nothing else claims progress.

## 4. What is proved

Each theorem holds for every value of the constants that meets the module's named
assumptions (constants are typed, settings are as the settings classes validate them,
stand-ins such as `None` are not data). Hypotheses of a single theorem are named below.

| Theorem | Module | Property |
|---|---|---|
| `TypeCorrect` | `JournalProofs` | `TypeOK` |
| `ChainAlwaysValid` | `JournalProofs` | `ChainIntact` |
| `LogStaysInOrder` | `JournalProofs` | `AuditInOrder` |
| `NoIdentityTwice` | `JournalProofs` | `IdentitiesUnique` |
| `MastersStayUnique` | `JournalProofs` | `MastersUnique` |
| `TablesAgree` | `JournalProofs` | `TablesMatchAudit` |
| `NothingLostSilently` | `JournalProofs` | `NoSilentLoss` |
| `DispatchFollowsTheLog` | `JournalProofs` | `DispatchInLogOrder` |
| `JournalRefinesEventLog` | `JournalProofs` | `ImplementsEventLog` |
| `RouterTypes` | `MarketStateProofs` | `TypeOK` |
| `OrdinaryMovesConfirmed` | `MarketStateProofs` | `OrdinaryMovesAreConfirmed` |
| `NoInheritedState` | `MarketStateProofs` | `SessionsStartClosed` |
| `BlockingBlocks` | `MarketStateProofs` | `BlockingEvidenceBlocks` |
| `PendingNeverWidens` | `MarketStateProofs` | `PendingGrantsLess` |
| `ReturnsAreClean` | `LifecycleProofs` | `CleanReturn` |
| `StoppedStays` | `LifecycleProofs` | `StoppedIsFinal` |
| `ReadyStaysFinal` | `MarketDataProofs` | `ReadyIsFinal` |
| `PastStays` | `MarketDataProofs` | `FutureChangesNothing` |
| `VerdictsDoAgree` | `MarketDataProofs` | `VerdictsAgree` |
| `BarTypes` | `MarketDataProofs` | `BarPipeline!TypeOK`, a part of `FeedTypeOK` |
| `StreamTypes` | `MarketDataProofs` | `StreamTypeOK`, a part of `FeedTypeOK` |
| `FeedTypes` | `MarketDataProofs` | `FeedTypeOK` |
| `RetryBudgetHolds` | `MarketDataProofs` | `RetriesAreBounded` |
| `RecoveryIsNew` | `MarketDataProofs` | `RecoveryHasNewSnapshots` |
| `MultiplierEarned` | `AlphaProofs` | `MultiplierIsEarned` |
| `OverlapsAreRecent` | `AlphaProofs` | `OverlapIsRecent` |
| `OpenPairsStayWatched` | `AlphaProofs` | `OpenPairsAreWatched` |
| `TripsClose` | `AlphaProofs` | `RoundTripsClose` |
| `TrainingsAreWhole` | `AlphaProofs` | `TrainingHasNoHoles`, a part of `HistoriesAreSound` |
| `BreaksStayNew` | `AlphaProofs` | `SignalsAreNew` |
| `ObservationsFollow` | `AlphaProofs` | `StatusesFollowTheBars` |
| `SignalsAreTimely` | `AlphaProofs` | `BreakoutTypeOK`, a part of `DecisionTypeOK` |
| `LaterBarsAreUnseen` | `AlphaProofs` | `ReplayDecidesTheSame` |
| `ExitsFollow` | `AlphaProofs` | `ExitsFollowTheTape` |
| `SelectionsAreFair` | `DeskProofs` | `SelectionIsFair` |
| `PlansAreSound` | `DeskProofs` | `PlanIsSound` |
| `LimitsSuffice` | `DeskProofs` | `ClippingSuffices` |
| `ApprovalsKeepCaps` | `DeskProofs` | `ApprovalKeepsCaps` |
| `DeskInvariant` | `DeskProofs` | the invariant under the four |
| `ReplaysGiveTheSnapshot` | `DecisionProofs` | `SnapshotsReplay` |
| `BaselinesAreWhole` | `DecisionProofs` | `BaselinesHaveNoHoles`, a part of `HistoriesAreSound` |
| `NothingClearsInvalid` | `DecisionProofs` | `InvalidStaysInvalid`, a part of `HistoriesAreSound` |
| `BasketsCohere` | `DecisionProofs` | `BasketsAreCoherent`, and `TradesNeedPromptBars`, a part of `HistoriesAreSound` |
| `RanksAreFair` | `DecisionProofs` | `RankingIsFair` |
| `HistoriesStaySound` | `DecisionProofs` | `HistoriesAreSound` |
| `DecisionTypes` | `DecisionProofs` | `DecisionTypeOK` |

The log. None of the audit properties is inductive, since a commit appends a row
that was built several statements earlier. The inductive invariant `SafeInv` adds what
is known meanwhile: `LockHeld` (a session inside the locked section is the
holder of the lock, and an orphan is there exactly while the lock is abandoned), `Locals`
(which locals are set at which label), and `TransactionFits` (the row that the holder, or the
orphan, has flushed can still be appended to the log as it stands: fresh identities,
the last row's chain hash, a higher sequence number, a receipt time that is not earlier). Only the
holder changes the log, so `TransactionFits` of everybody else is vacuous, and a commit
appends a row that fits. `ChainedIsIntact` turns the chain by position into the chain
by sequence number that `read_events` verifies.

Tables and dispatch. `TablesAgree` adds to `SafeInv` that each table row is explained by
the last log row that concerns it. `NoSilentLoss` says that a row nobody dispatches is a
row somebody was told about, and a row outlives the call that wrote it; so the
invariant `DispatchInv` records who wrote which row, in which life of the process and
meant to emit (`Provenance`), that what an orphan may still commit belongs to a call
that already failed, and that at most one thread is about to dispatch an event, once
and only if it is in the log (`Dispatching`). `DispatchFollowsTheLog` assumes, as the run does,
that each process publishes from one thread (`OnePublisherEach`). What that thread is about to
dispatch is then later in the log than everything dispatched of its process (`EmitsLatest`),
because a row just appended was never dispatched. The refinement maps the log to the
submissions of `audit` and `dispatched` to itself: a commit of a row is `Accept`, an emit
is `Deliver`, every other step stutters.

The router. Its counter is not trusted: `RouterInv` says that the pending candidate is that of
the last decision, that every timestamp in `support` is at most `_feature_time`, and that
`_count` is at most the number of those timestamps (`EvidenceIsKnown`). A fresh
observation is later than all of them, so it adds one to both. `EnteredInSession` says a
state was entered after the session's first decision and, unless it is immediate,
`MinDuration` after it. `StartingPoint` then rules out that a call which moves nowhere looks
like an entry: in a new session it starts from RISK_OFF, else from an earlier time.

Recovery. `BudgetInv` bounds the retry times handed out by `attempts`, which only a validated
recovery resets. `StampsInv` holds as long as the clock was never set back: the
quote of an instrument that sent nothing since the connection is earlier than it.

Shutdown. `StopInv` describes the stack, however deep signals nest: `_run` is at its bottom and only
handlers are above it (`Stack`); `_run` leaves its wait only after some handler ran to its end
(`EventIsSet`); and the state is STOPPED exactly when `_run` has nothing left to do, at which point no
handler is past the check of `transition` (`Settled`). The last part is what makes `StoppedIsFinal`
inductive: a handler that had passed the check could still assign STOPPING.

The multiplier. `MultiplierIsEarned` is a statement about a chain and not inductive, since it forgets
when the last increase was and what paid for it. `HealthInv` adds that `raises` intervals fit between
the start and the last increase and that each lifted by `MaxIncrease` at most (`ClimbIsPaced`), and
that the newest trade a snapshot knows bounds all close times credited so far (`CreditIsKnown`), so
that the later close an increase asks for is a new one. The window, its curve and the verdict
`Deteriorated` stay opaque: the proof holds whatever they say.

Bars. `ReadyIsFinal` compares a bar that was issued once with what is computed now, and says
nothing about why it is still computed. `BarInv` adds `Lasting` for every issued bar: the raw
bars it was made of are still in the log, make the same bar, and their group already has a bar
for every minute of the bucket, so that whatever else the group gets repeats a minute. The two
outcomes of that are an invalid bar or a bar with the same contents; a third, a ready bar with
others, would need a minute without its first bar. `PastStays` needs no invariant but
types: a bar that was not known at a cutoff is in no group of it, and the quality check of
another bar looks back only. `VerdictsDoAgree` rests on `FlagsReproduce`: while
bars came in receipt order, the order in which `aggregate` sorts is the order of the log, and its
flags are those of arrival (`FlagsOnArrival`); so the ready bars are the same, which have no minute
twice, and all canonical bars are where no tie is left for the flags to break. It has one
hypothesis on the data, `WholeBuckets`: the session is a whole number of buckets. The calendar file accepts other special sessions; in one
`window_health` can validate a last window whose canonical bar is never complete.

Relative value. `OverlapIsRecent` compares a basket with the pairs that are held now, the inventory
with the pairs that were held then. `RvInv` relates the two: a held pair keeps the entities its tokens
had on the day it was opened (`HeldAsEntered`), and a complete inventory reserves all entities of the
pairs opened before it was taken (`InventoryReserves`), because a pair that is opened later bears a later time.
An `evaluate` that returns a basket had a complete inventory of at most `inventoryAge`
(`BasketsAreUnreserved`). It rests on masters that are each of the day they are filed under
(`RvMastersAreDaily`), as tokens change hands overnight.

Pairs. An exit can come many bars after its entry, when the fit has rolled on; `PairTypes`
therefore keeps that the legs of an open position are those of an entry with the fit the position
stores. `RowsSound` says that the provider has one row for a bar and none from the future,
`VerdictIsCurrent` that the last verdict is what `evaluate` answers on the rows as they still are. The
properties then follow from one evaluation: `OpenPairsStayWatched` goes through the reasons of
`evaluate_exit` and shows that none applies where nothing is asked for, `TripsClose` that the legs
of an exit are those of the entry on the other side and that an entry's deviation lies between the
limits of exit and stop.

Breakout. `SignalsAreNew` and `StatusesFollowTheBars` speak of the bars around a trigger, so `BreakoutInv`
ties every accepted signal to its bar: it came of the k-th bar of a session without a hole, with a level
as of an earlier bar, and the bar before had closed on the other side of the level (`SignalSound`). An
`evaluate` that returns a signal found the first bar beyond a level (`SignalsAreConfirmed`), and all it
returns at one instant is one signal of the last bar (`EvaluationFindsOne`). The end of a
bar grows with its number (`GridInOrder`), which makes the window of observations an interval of at
most `observationBars` bars. `BreakoutInputsTyped` and `VwapInputsTyped`
say what the feed guarantees: positive prices, a session on the day.

Vwap reversion. `LaterBarsAreUnseen` needs no invariant: `reversion_features` selects by receipt time
before it computes anything. `ExitsFollowTheTape` needs one: `VwapInv` says of each signal that no price is past both
of its lines (`ExitsApart`). An intent has a positive range, and a stretch within its limits, hence
a volume (`IntentsAreStretched`); then the line of the way back lies on the vwap's side of
the price and the adverse line on the other (`LinesAreApart`). The figures are integers because sums
of integers are and because every place of the sorted history is taken (`KnownBarsListed`,
`PlacesAreTaken`). `ExitsFollow` has one hypothesis on the settings: `max_bar_lag_seconds` is less than a bar. The
default is 30 of 300 seconds, but `VwapSettings` sets no upper bound; with a longer lag a bar
can still be observed when its successor is due.

Allocation. Caps are sums over sets of positions, and the library defines such a sum by picking a
member again and again. `AllocationProofs` first shows what a sum does not depend on, by a smallest
set for which it would (`SumWithout`, `SumOfBoth`, `SumsCompare`): this is induction
over a set in the one form the provers can do. `RoomSuffices` is the heart: an amount below the six limits
of `_amount` exceeds no cap and no budget of the alpha by a quantum or more (`WithinSlack`). Every leg is rounded
twice, its weight and its notional, by half a part each (`RoundingIsNear`), a quantum has more parts than
an intent has legs, and the amount was rounded down to a quantum. So the final check of the loop refuses
only what rounding takes beyond a cap, and it is this check that keeps the caps exact. `Decided` is the
invariant of the loop, for the turns so far: the records are of their turns, and after each of them the targets are within the
caps, one group to a security, held and proposed apart, each proposing alpha less than a quantum beyond its
budget at most (`Holds`). It must be stated for every prefix, because a group is approved together with the
groups before it, not with those after it.

The desk. `DeskInv` says that each book has committed positions of one group per security, and that
the ensemble and the plan are what `normalize_intents` and `allocate` make of the inputs they recorded.
`PlansAreSound` and `LimitsSuffice` follow for the prefixes of `Decided`; that a bundle keeps the
proportion of its legs up to a part each follows from weights that are in proportion but for half a
part (`WeightsInProportion`), of which an amount of at most 1 makes notionals that are again
(`NotionalInProportion`, `ProportionKept`). For `ApprovalsKeepCaps`, the book after an approval is
the plan's positions after the turn of that group (`ApprovalReserves`), hence within the caps by
the invariant of that prefix. `SelectionsAreFair` rests on the run of the greedy selection over the list
by strength: what it keeps shares nothing, whatever it drops shares a security with a stronger one that it
kept (`RunSurvivors`), and a list without a dropped member runs to the same end (`RunWithout`).
Rejected intents are compared with a whole second normalization, so the proof also shows that neither the order,
the conflicts nor the strengths of the others change (`NoInterference`).

What the decision chain assumes is named in `Ensemble`, `Allocator` and `Desk`: `CapsAreConsistent` and
`RegistryLoads` are the bounds of `AllocatorSettings` and `AlphaRegistration`, `SuppliesAreTyped` those
of the fields of health, liquidity, estimates and correlations, `SnapshotsLoad` the order of session
times that the calendar checks when it loads. `RequestsAreTyped` says that an intent has legs, none of
weight 0, and fewer of them than a quantum has parts: of 28 digits sixteen are behind the quantum. No
weight, score or amount is assumed to divide evenly; the theorems hold with the rounding of each.

Features. What `snapshot` computes it computes of lists: events by time and id, bars by start, days. A list
that is sorted by a strict order has a place for every element, because no two have equally many
others ahead of them (`OrderLists`); the rest is about sets. `FeatureInv` says that an id is in the
log once, which `on_event` sees to. A replay has the same set of selectable events, whatever the order
of the calls, so it selects and lists the same (`SnapshotReadsSelected`, `SelectedAreListed`). A series is
there only if the starts of its bars fill its slots (`SeriesIsItsWindow`); in a whole session the last of
them ends at the close (`WholeSessionCloses`), which with `PriorSessionsClose` gives the baselines.
`NothingClearsInvalid` is monotone: with the time the log only grows, the endpoint moves on
(`EndpointsMoveOn`), and what made a series invalid is still in the larger window
(`MoreBarsStayInvalid`). `EventsAreStamped` and `FeatureDaysAreCovered` say what the models of events and
the loading of the calendar check: times are numbers, a bar ends after it starts, days are ordered.

Relative value, the legs. Weights of a basket are floats in the code and exact proportions here: its
rounding and the tolerances of `coherent_exposure`, which allow for it, are both left out. `OneSideAddsUp`
turns the sums of a side into multiples of the sums of its betas, `TailsAreApartOf` counts ranks to show that
leaders and laggards share no security and rank on their sides of the middle, and `BasketIsCoherent` puts
both together; a beta that makes a side negative or a net out of bounds is refused before. `RvScenesAreRecorded`
assumes that a history has one row per bar; the code raises for a training that has two. From the tests
of a training `TrainingEndsPromptly` derives that its last bar had arrived by the instant it closed.

Momentum. `RankedLast` says that the last result is what `evaluate` made of a cross-section in which every
token is there once. Ranks are numbers of elements, so they grow with the value (`RanksAreMonotone`): whoever is at
least as extreme as one of the tail is in the tail (`TailsReachOut`), and those at least as extreme as
a pick are at most the cap, from which ties and gaps follow (`PickedFairly`). In the mirror ranks run
from the other end (`RanksAreMirrored`); carried through the five returns, the confirmations and the score that
makes every card the mirrored card (`CardsMirror`) and every pick of one side a pick of the other
(`PicksMirror`). The third part has the hypotheses of its statement: equal tails, and the recent return
left in, because `without_recent` divides and is not symmetric. `TailsAreApart` and
`MomentumScenesAreTyped` are the ranges of `MomentumSettings` and of the features.

All together. A behaviour of `DecisionsSpec` is one of each part, so `DecisionTypes` and
`HistoriesStaySound` follow from the theorems about the parts; `FeedTypes` also needs that a step of bars
leaves the quotes alone and the other way round (`FeedsAreApart`).

Only model-checked: liveness, which TLAPS cannot do. `CallsReturn` holds in `journal_threads`, and
`lifecycle_hang` refutes `SignalsEndTheProcess` (section 6). Every other property of a passing run is the
statement of a theorem.

## 5. What is not modelled

Of the modelled components: metrics sinks that raise, the hashes and evidence inside
decisions, the order of rows inside `_project`, the readers of the store (they change
nothing; `ChainIntact` is the condition on which `read_events` accepts the log), the length of a
backoff delay, the rounding of floats and the tolerances for it (Decimals are rounded, to fixed places
instead of significant digits), moving averages, slopes and covariances, the regressions and
stationarity tests of pairs and betas (their outcome is a choice), the validation of settings
(assumed of the constants), and the reports of rejected candidates. `publish_snapshot`,
`publish_health`, `publish_pair_intent` and `publish_relative_value` each are one
`EventJournal.publish` under an identity of their own.

Of the system: `EventReplay` hands the rows `read_events` accepts to a callback one by one and has
no state beyond the clock; the recorded provider and the in-memory stores are test doubles;
the compliance service, the loaders of calendar, master and configuration, logging and
identifiers parse and format; the research modules are offline reports.

Known hazards that no property covers. `storage/postgres.py:118`: a float that JSONB stores in another
form would break the chain of a log nobody touched; the encoding is out of the model.
`market_state/router.py:121`: a metrics sink that raises after the counter moved makes a retry count
the same timestamp again; the sink in the repository does not raise. `market_data/reconnect.py:87`: a
validated recovery is not reconsidered while connected and covers only the instruments the caller named.
`market_data/freshness.py:31`: after a reconnect the snapshot of an illiquid instrument repeats the
stored exchange time and blocks it until the next trade, so progress depends on the market.
`market_data/replay.py:88`: an early-stamped bar makes `on_bar` raise inside `subscribe`, the rest is not
delivered; the provider is a test double. `features/engine.py:61`: a snapshot between two events of one
receipt instant has only the first, and `SnapshotsReplay` compares engines that have both.
`features/engine.py:273`: a delayed quote that is received last wins over a newer one; the result is
stale, which is the safe side. `alphas/pairs_engine.py:240`: the signal id does not name the action, so an
entry and an exit at one instant would collide in the journal; no caller makes both.
`alphas/cross_sectional_momentum.py:165`: with `exclude_surveillance` off the universe keeps an
instrument that `evaluate` refuses, and one of them refuses the cross-section of the day.
`portfolio/allocator.py:125`: a plan rests on a portfolio snapshot that may be as old as
`max_input_age`; what was approved since is not in it.

## 6. Disagreements between the code and its documents

- `lifecycle_exit` (`StopIsExplicit`): the handlers are installed before `mark_ready`. A
  signal in between sets STOPPING, `mark_ready` raises `InvalidStateTransition`, and the
  process ends in STOPPING with a traceback; `src/README.md:107` promises explicit
  STOPPING and STOPPED transitions.
- `lifecycle_table` (`OnlyAllowedTransitions`): a handler between `transition`'s check and
  its assignment sets STOPPING, and the interrupted `mark_ready` overwrites it with READY.
- `lifecycle_hang` (`SignalsEndTheProcess`): the handler calls `Event.set` on the thread whose
  `Event.wait` may hold the Event's non-reentrant lock; `set` then waits for ever.
- `stream_rollback` (`RecoveryHasNewSnapshotsAlways`): post-connect is decided by comparing two
  wall-clock stamps; if the clock is set back in between, a quote of the former
  connection passes. ADR-0003 asks for a new fresh snapshot.
- `desk_identity` (`IdentityIsReproducible`): the digest of `normalize_intents` leaves out the instant
  `at`, the decision does not. The same intents that are blocked at two instants give two
  decisions with one id and different contents; `append` calls that a conflict and the
  journal halts. `phase-12-allocation.md` says that input hashes identify the reproducible
  decision and duplicates are idempotent.

## 7. Plan

Done, in this order: A `EventLog`, B `Journal` with invariant, proofs and instances, C
`MarketStateRouter`, D `Lifecycle`, E `StreamRecovery`, F `AlphaHealth`, G `BarPipeline`, H `Calendar`,
`Ensemble`, `Allocator` and `Desk`, I `UniverseBuilder` and the five alphas, J `FeatureEngine`, K the
compositions `MarketData` and `Decisions`, L a theorem for every safety property of the passing runs.

What could follow, most important first:

1. A composition of `StreamRecovery`, the router and the entry gate: no entry on health that
   was validated for other instruments.
2. `Desk` over `Journal` instead of its own set of published decisions, with a crash between
   the publication of a plan and its approval.
3. A desk that approves plans of several cycles concurrently, once the code has reservations.
