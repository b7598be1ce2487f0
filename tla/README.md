# A verification development for FinOps AI

FinOps AI collects what AI workloads cost, attributes it to teams and projects, and warns
when a team's budget is used up. This directory holds TLA+ models of it, the TLC
configurations that check them on small instances, and TLAPS proofs about them for every
instance. All paths below are relative to the repository; `finopsai/` stands for
`src/src/finopsai/`.

- [1 The system](#1-the-system): components, their state, what is hard about them
- [2 What is modelled](#2-what-is-modelled): each module against its code
- [3 What is checked](#3-what-is-checked): runs, bounds, fairness
- [4 What is proved](#4-what-is-proved): theorems and the argument behind them
- [5 What the models disagree with](#5-where-code-and-documentation-disagree)
- [6 What is left out](#6-what-is-not-modelled-and-why), [7 Plan](#7-plan)

To repeat the work: `tlc -config <cfg> <module>` for a run, `tlapm <module>.tla` for the proofs.

## 1 The system

    LiteLLM proxy --(LiteLLM_SpendLogs)--> LiteLLMSpendCollector --+
    mock compute / vector workloads -----> mock collectors --------+--> cost_record, collector_watermark
                                                                   |            |
       finopsai.collectors: one worker process, one event loop ----+            +--> aggregation, forecast --> REST API
                            + scheduler --> BudgetEvaluator <--- budget table <----- budget API
                                              |        \
                                        Slack webhook    Redis (one mark per budget and period)

One worker process (`finopsai/collectors/__main__.py`) runs a task per collector and an
APScheduler job for the budget evaluator on one asyncio event loop, so within a process every
`await` is a point of interleaving and nothing else is. Between processes everything shared is
a database row or a Redis key. Nothing prevents a second worker; `state.py` names "multiple
workers" outright, and a restart can overlap with the process it replaces.

| Component | State | Operations | What is hard | What makes it correct |
|---|---|---|---|---|
| Collector framework, `collectors/base.py` | `cost_record`, `collector_watermark`, the locals of a cycle | `run_once`, `read_watermark`, `persist`, `_drop_duplicates`, `_store_watermark`, `run_forever` | four awaits and a commit per cycle, a second worker in between, a crash, a commit whose acknowledgement is lost | spend stored once; nothing behind the window missing; every log stored in the end |
| LiteLLM collector, `collectors/litellm_spend.py` | none of its own | `_fetch_rows`, `_map_row` | rows of equal start time around the batch limit; logs flushed late | the window may stop anywhere without losing a row |
| Mock collectors, `collectors/compute.py`, `vectordb.py`, `demo/simulation.py` | none of their own | hourly buckets from the mark to now | the boundary bucket is emitted every cycle; a gap is cut at 720 buckets | no hour is skipped, doubled or reported before it is over |
| Worker, `collectors/__main__.py`, `runner.py` | stop event, task group, scheduler | start, signal, shutdown | a signal while everybody waits for something else; an evaluation cut short | it ends, and what was committed stays |
| Budget evaluator, `alerting/evaluator.py` | locals of a cycle | `run_once`, `evaluate_budgets`, `evaluate_budget`, `crossed_threshold`, `top_drivers` | eight awaits: spend, budgets, month and broker change in between | a threshold is announced once per period, and every crossing that lasts is |
| Alert state, `alerting/state.py` | a mark per budget and period in Redis | `highest_fired`, `record_fired` | read and write apart; outages swallowed; a broker without persistence | the mark rises and follows what was announced |
| Notifiers, `alerting/alerts.py`, `slack.py` | none | `send` | delivery fails, the result is a Boolean | |
| Budget and team API, `api/routes/budgets.py`, `teams.py` | `team`, `budget` | create, patch, delete | check then insert; a row that changes between load, commit and refresh; null thresholds | one budget per team; untouched fields survive; the status tells what happened |
| Tags, `attribution/tags.py` | none | `parse_tag_list`, `resolve_attribution` | repeated, blank and malformed tags next to metadata and key alias | a later or weaker source never reattributes spend |
| Aggregation, `attribution/engine.py` | reads only | totals, groups, series, unattributed report | grouped by source and folded; several statements, each with its own snapshot | parts add up to the total |
| Allocation rules, `attribution/rules.py` | child rows of a shared `cost_record` | `split_amount`, `usage_weights`, `apply_allocation_rules` | rounding; flushes in the middle; two passes at once; a pass that raises | split whole or not at all, once, and spend counted once |
| Periods, forecast, `attribution/periods.py`, `forecast.py` | none | pure functions | edges of windows, the first hour of a month | windows meet; projection and breach date agree |
| Demo traffic, `demo/traffic.py` | spend so far | `run_traffic` | the ceiling is checked before the cost is known | overshoot is bounded |
| Routes, middleware, schemas, configuration, metrics, logging, migrations, dashboards | wiring | | | |

`PROJECT.json` lists all of them with what is modelled of each, and every hazard with its line.

## 2 What is modelled

### Ingestion.tla: the promise

The abstract specification: a set of logs, the subset of them in the warehouse, a *horizon*.
Logs are entered once, never removed, and behind the horizon nothing is missing; the source
never writes behind the horizon. There are no batches, workers, windows or transactions in it.

### Collector.tla: how the collector keeps it

`BaseCollector` with `LiteLLMSpendCollector`, for any number of workers. A spend log is a model
value with a start time; its `request_id` is the dedup key, so a row stands for its own key.
The `collector_watermarks` row is absent (`NoRow`), NULL (`NullMark`) or an instant.

| Action | Code |
|---|---|
| `LogSpend` | the proxy writes a log (external); with `LateLogs`, in any order |
| `ReadWatermark` | `read_watermark`, its session closed again |
| `FetchRows` | `_fetch_rows`: window including the boundary, oldest first, `LIMIT` |
| `DropDuplicates` | first statement of `persist`'s transaction |
| `LoadWatermark` | `session.get` in `_store_watermark` |
| `Commit` | flush, unique constraints, commit; `run_once` counts a success, or a failure when the connection breaks before the acknowledgement |
| `Conflict` | a unique constraint refuses the transaction, all of it is rolled back |
| `CycleFails` | any await raises, a deadlock between two workers' inserts included, or the process dies and is restarted |

Two details are easily missed. SQLAlchemy leaves a column out of an UPDATE when the value
assigned equals the value loaded, so a worker that read mark 2 and writes mark 2 does not undo
another worker's 3 (`WriteMark`). And a unique violation surfaces at the flush, which autoflush
may issue earlier than the commit; the transaction is rolled back either way, so the model
checks the constraints once, at the commit.

### BudgetEvaluator.tla: who is told what, and when

`BudgetEvaluator.run_once`, `evaluate_budgets`, `evaluate_budget`, `RedisAlertState` and the
scheduler's job, for any number of worker processes, with the world that moves under them.

| Action | Code |
|---|---|
| `Ingest` | a collector commits spend, late records of the month before included |
| `UpdateBudget` | PATCH of limit, `alert_thresholds` (null included) or `is_active`, DELETE, through the API |
| `Rollover` | the calendar; keys of a new period are new keys (`period_key`) |
| `RedisRestarts` | the broker of `docker-compose.yml` persists nothing |
| `BeginCycle`, `LoadBudgets` | `now` taken once; the budgets selected once |
| `SkipMalformed` | `sorted(None)` raises for a null list, the loop goes on with the next budget |
| `BelowThresholds`, `CrossThreshold` | `total_spend` and `crossed_threshold` |
| `AlreadyAnnounced`, `NewCrossing`, `MarkUnreadable` | `highest_fired`: a mark, a smaller one, an outage taken for none |
| `FindDrivers` | `top_drivers` and the construction of the alert |
| `Send` | `notifier.send`; its result is ignored |
| `KeepMark`, `RaiseMark`, `RereadFails` | `record_fired` reads the mark again |
| `WriteMark`, `MarkUnwritable` | and writes it, or logs that it could not |
| `FinishCycle`, `DatabaseFails`, `Crash` | the ends of a cycle |

`sends`, `delivered` and `faulted` are history. `faulted` holds the budgets and months whose
mark was lost, could not be read before an announcement, or could not be written after one;
the properties excuse exactly those. A failed read inside `record_fired` is *not* an excuse.
`DatabaseFails` ends the cycle although the code catches the exception per budget: the
session's transaction stays aborted, so every later budget of the cycle fails as well.

### Traffic.tla: concurrent calls under a ceiling

`run_traffic` of the demo generator. Tasks first run in creation order and `asyncio.Semaphore`
serves its waiters in order and lets nobody past them, so counts (created, passed, in flight)
describe the tasks completely. `Ceiling` and costs are multiples of the smallest cost.

| Action | Code |
|---|---|
| `CreateTask`, `StopCreating`, `AllCreated` | an iteration of the producer's loop, its check of the ceiling, the pause |
| `CreateAllTasks` | the loop without a pause has no `await`: all iterations are one step |
| `TasksEnd` | leaving the `TaskGroup` |
| `Dispatch`, `Refuse` | a task has the semaphore and looks at the ceiling again |
| `Respond`, `Fail` | `_send_one`: a reported cost, or an `httpx.HTTPError` |

### Attribution.tla, Aggregation.tla: pure parts

`Attribution` is `tags.py`: `ParseTagList`, `TeamFromKeyAlias`, `ResolveAttribution`. Texts are
opaque; `Normalize` is a given function that says what trimming and lowercasing make of each
(`Normalization` states what is used of it). `Aggregation` is the queries of `engine.py` as
functions of the rows one statement sees: `AggregateCosts` with its grouping by source in SQL
and its folding in Python, `AggregateTimeseries`, `TopSlices` with any order among ties.

### Allocation.tla: shared cost is split

The `cost_record` table while allocation passes run over it and collectors write to it. A row
is a record; its key is `<<log>>` for a collected row and `<<rule, parent, team>>` for a child,
which is the text `allocation_dedup_key` puts together. A pass is one transaction: what it has
changed is `pending` until the session flushes, `sent` until the caller commits.

| Action | Code |
|---|---|
| `Ingest` | a collector commits a record; an LLM log goes through `_to_record` and `Attribution` |
| `Begin` | the selection of records not allocated; the rule of each (`select_rule`) |
| `Split` | `resolve_weights`, `split_amount`, `build_children`, and the parent is marked; `usage_weights` is a query, so it sees what this transaction has sent |
| `SplitRaises` | `split_amount` refuses a credit or a total weight of zero; the pass is rolled back |
| `Flush`, `Conflict` | autoflush before a query and the flush at the end, against the unique key; rows of another open transaction are waited for |
| `Commit`, `Fails` | the caller's commit; a database error, a deadlock, the end of the process |

`CostLedger` is the abstract specification: of each record a collector wrote, the parts it is
divided into. Records are entered undivided and stay; some at a time are divided, each at once
and once for all, into one part per team that together cost the record's amount and are like it
in source, model, hour and every owner but the team. There are no passes, flushes, conflicts or
marks in it. `Divided` reads the table that way (parents as they were written, each with its
children), and `DividesOnce` says that under this mapping every step of `Allocation` is a step
of `CostLedger` or a stutter.

SQLAlchemy's autoflush is why `Split` requires an empty `pending` before it reads usage: the
query flushes first, and that flush is where an overlapping pass is found out.

### UnattributedReport.tla: five statements over a moving table

Extends `Allocation` with one client that asks for the report again and again: `ReadTotal`,
`ReadUnattributed`, `ReadBySource`, `ReadModels`, `ReadResources`, `Respond`, with the steps of
everybody else in between (`Others`). Three variables are history: `owned` is the spend teams owned
when the first statement ran, `arrived` the unattributed spend committed between the first two,
and `quiet` says that nothing was committed since the first. `AttributedUsd` is the property of the
same name, total less unattributed; the code never asks the table for owned spend.

### Simulation.tla, Worker.tla: the worker process

`Simulation` is what a mock collector reports: `HourlyBuckets`, the cut (`CollectedHours`), and
the watermark. `Worker` is the process around it: `run_forever` per collector, signals, the
scheduler's job, shutdown, the container's restart. Its cycle is coarser than `Collector`'s: the
transaction that `Collector` takes apart is one step here.

`HourlyFeed` is what the worker promises of the simulated costs, with no cycles, tasks or processes:
a collector's records grow by whole intervals of completed hours, each beginning at the hour the
last one ended with and no longer than a cycle may cover, for every profile at once; nothing is
removed. `FeedsHours` says that `Worker` implements it, variable for variable.

| Action | Code |
|---|---|
| `TopOfLoop`, `WaitEnds` | `while not stop.is_set()`, `wait_for(stop.wait(), interval)` |
| `ReadWatermark`, `Collect`, `Persist` | a cycle of `run_once` with the mock collectors' `collect` |
| `CycleFails` | whatever raises is logged by `run_once`; collectors in `Broken` only fail |
| `Signal` | the handlers of SIGTERM and SIGINT set the event |
| `StartEvaluation`, `EndEvaluation` | the interval job, one at a time |
| `Exit` | the task group has ended, `scheduler.shutdown(wait=False)` |
| `Crash`, `Restart` | `restart: unless-stopped` |

### Periods.tla, Api.tla: requests

`Periods` is `periods.py` and `forecast.py` on integers; a projection is a fraction. `Api` is
the handlers of `api/routes`: a slot serves one request at a time, and other slots may step
between any two of its statements. `row` is the row the session holds, `wrote` whether
its transaction has changed a table.

| Action | Code |
|---|---|
| `Arrives`, `Respond` | a request and its session (`deps.py`) |
| `Validate` | Pydantic (422), period, dimensions and source names (400) |
| `CreateTeamRead`, `CreateTeamWrite`, `CreateTeamRefresh`, `DeleteTeamRead`, `DeleteTeamWrite`, `GetTeam`, `ListTeams` | `teams.py` |
| `CreateBudgetRead`, `CreateBudgetWrite`, `Refresh` | `create_budget`: look, insert and commit, read back |
| `Load`, `UpdateBudgetWrite`, `Refresh` | `update_budget`: load, set the fields sent, commit, read back |
| `Load`, `DeleteBudgetWrite` | `delete_budget`, which is not told when the row has gone already |
| `ListBudgets` | the list and its presentation |
| `GetCosts`, `GetTimeseries`, `GetForecast` | the queries, at any instant of `Moments` |

As in `Collector`, an attribute set to the value it was loaded with is not written
(`ChangedFields`); so a PATCH that names a field may leave another client's later value in it.

## 3 What is checked

| Run | Instance | What it shows |
|---|---|---|
| `collector_pair` | 2 workers, 4 logs, two of them tied, batches of 3; 32 thousand states | types; `StoredOnce`; `WindowNeverPassesSpend`; `MarkOnStoredRow`; the inductive `IngestionInv`; the mark moves back no further than the window of whoever moves it; the collector implements `Ingestion`; every log is stored in the end |
| `collector_tied_batch` | 1 worker, as many tied logs as a batch holds | violates `EveryLogIngested` |
| `collector_late_logs` | 1 worker, `LateLogs` | violates `WindowNeverPassesSpend` |
| `evaluator_single` | 1 evaluator, a budget of 4 terms and one that stays malformed, 2 thresholds, 2 months, 1 failure; 137 thousand states | types; `MarkFollowsSend`; `AlertIsJustified`; the inductive `AnnouncingInv`; `AnnouncesUpwards`; `MarkFallsOnlyAfterFault`; a send is attempted for every crossing that lasts |
| `traffic_run` | 6 calls, 2 permits, ceiling 4, costs 0 to 2; 1500 states | `OvershootBounded`; `ReportIsHonest`; the run ends whatever fails |
| `allocation_reports` | 2 passes, 3 rules, 6 records, a credit among them, 1 failure, a report with 3 slices; 27 thousand states | types; `SplitIsComplete`; `SpendCountedOnce`; `SharesFollowWeights`; `OwnerRespected`; `GroupsPartitionSpend`; `ReportConsistent`; allocation implements `CostLedger` (`DividesOnce`) |
| `report_share` | the same without credits | violates `ShareIsFraction` |
| `worker` | a healthy and a broken collector, cycles of at most 2 hours in 4, a crash, a failure, signals; 97 thousand states | types; `HoursContiguous`; `ShutdownIsOrderly`; the worker implements `HourlyFeed` (`FeedsHours`); a signal ends the process; a healthy collector catches up |
| `api_requests` | 2 requests at a time, 4 in all, out of 21; 70 thousand states | types; `OneBudgetPerTeam`; `AnswersAreHonest`; `PatchTouchesOnlyNamed`; `CostsAddUp`; `SeriesAddsUp`; `ForecastAgrees` |
| `evaluator_pair` | 2 evaluators | violates `AnnouncedOnce` |
| `evaluator_undelivered` | 1 evaluator, `WatchSlack` | violates `MarkMeansDelivered` |
| `evaluator_lowered_mark` | 1 evaluator | violates `RecordNeverLowers` |

Bounds of the collector. Two workers are enough for every order of two reads and two commits;
the proofs cover any number. Four logs at instants 1, 2, 2, 3 with batches of three make a
batch end inside a tie, re-read the boundary, and leave a rest for the next cycle.

Bounds of the evaluator. A budget has a limit of 2 units and thresholds of 50 and 100 percent, a
limit of 4 and the lower threshold alone, a null list, or is inactive, and any PATCH may lead from
one to another. At most 2 units of spend give no, a low and a high crossing, exact
equality, and changes that take a crossing away, add one or drop the threshold just announced. The second
budget is malformed throughout and has no spend, since only what it does to the first one
matters; the runs that expect a violation have none. Two months give one rollover during a cycle. `MaxFailures`
bounds crashes, broker restarts and database errors together. Outages of the broker that only
fail a read or a write are not counted and may happen at every access. `SendCap` is how many
sends of one alert are told apart: one for `AnnouncesUpwards` (was it sent?), two for `AnnouncedOnce`.

Bounds of the traffic. The ceiling is reached after two calls at the earliest, with one in
flight and others queued or not yet created, with pacing and without. Two permits make the
overshoot of one call and of two different; the proof covers every number.

Bounds of the allocation. Two passes are all that can meet at a row; the proof covers any
number. Each of the three strategies governs one kind of record; the shared index splits 5 units
over usage that changes as logs arrive, so floors, remainders and the fall-back to even weights all
occur, and a credit makes a pass raise after others of its records were flushed. Three records
are there at first and three arrive at any time. `PassesWithReports` lets one pass run where a
report is read (two passes without a report, one beside it), and three slices are as many as there are
groups in some states and fewer than there are in others. The two passes are symmetric.

Bounds of the worker. An hour is two instants, so that now can be in the middle of one; four hours
against cycles of two make a gap that one cycle cannot close. One crash, one failure of a
collector and any number of signals, evaluations and failures of the broken collector.

Bounds of the API. Four requests are enough to create a budget, let two changes of it race and
have a reader look; two slots give every order of their statements, and the proofs cover any
number of both. The cost records lie at the edges of the windows, one is a credit and one a parent
with its children. A month is twelve instants; the clock shows its second, two in the middle and
the first two of the next month, so that all three confidences and the floored run rate occur. The slots are symmetric.

Deadlock is checked in the collector's and the evaluator's runs, where no state is without a
successor. In the other runs the system really stops: a traffic run ends (and `RunEnds` says
so), arrivals and passes are used up, a worker exits and its time is over, the requests are
served.

### Fairness

Collector. `run_forever` starts a cycle after every cycle, whatever became of the last one:
weak fairness of `ReadWatermark`. No failure is permanent: an await that is reached again and
again succeeds in the end, which is strong fairness of the other steps, since failures disable
them in between. Nothing fair is said of failing, crashing or of the proxy. Without the
assumption a database that always fails at the same await would refute liveness trivially.

Evaluator. The interval trigger starts cycles, and each of their awaits returns: weak
fairness of `Advance`, which includes the outcomes where the broker cannot be reached. So
`CrossingAnnounced` does not assume that Redis ever works. Database errors and crashes are bounded by
`MaxFailures`, so in the end cycles complete. The property lets go of a crossing when the
month ends or when the budget stops being crossed; between two cycles either may come first,
and then the code announces nothing (see the hazards). It says that `notifier.send` is called, and
nothing of delivery: an alert that Slack did not take is recorded all the same and silent for
the rest of the month, which is what `evaluator_undelivered` shows.

Worker. Awaited calls return or raise, waits end by the interval or the event, and the event
loop runs every task: weak fairness of each collector's `Advance`, of `Exit`, and of `Restart`, for which the
container's restart policy stands. An evaluation need not end, a signal need not come, and the
broken collector never succeeds, so `StopEndsWorker` and `CatchesUp` do not lean on any of them.

Traffic. The event loop runs whatever can run and a request ends within its timeout: weak
fairness of the next-state relation, of which every step is progress.

## 4 What is proved

Each component has a module of proofs next to its model (`CollectorProofs`,
`BudgetEvaluatorProofs`, `TrafficProofs`, `WorkerProofs`, `AllocationProofs`, `ApiProofs`);
`AggregationProofs` holds the facts about sums that the last two need, and `SpendProofs`
extends `AllocationProofs` with amounts and with the report. All theorems hold for all values of
the constants, under the named assumptions of the models, which TLC evaluates in the runs:

- Types and bounds: start times, batch size and thresholds are positive, limits whole numbers, there is a permit, an
  hour and every unit of time have a length, requests carry the types of the schema
  (`ApiAssumption`), tables are finite and amounts whole numbers of the smallest unit
  (`PeriodsAssumption`, `RecordsAssumption`, `CollectedAmounts`).
- Shape of the data: rules can be put in order (`RulesAreOrdered`), collected rows are not parts of a
  split (`CollectedRows`), and a moment lies in a month.
- One that nothing in the code enforces. `WeightsNotNegative`: no percentage of a rule is negative,
  and the sources usage is measured in hold no credits (it also orders the teams' names). The default
  rules and the LLM source satisfy it. `AllocationRule` does not check a percentage, and weights of
  7, -2 and -2 make two steps out of one: rounding towards zero leaves nothing to hand out
  and takes too little away.

| Theorem | Statement | Needs |
|---|---|---|
| `TypeCorrect` | `[]TypeOK` | |
| `StoreInvariant` | `[]StoreInv` | |
| `NeverDoubleCounted` | `[]StoredOnce` | |
| `MarkNeverAhead` | `[]MarkOnStoredRow` | |
| `LoneWorkerNeverConflicts` | the dedup filter alone suffices | one worker |
| `IngestionInvariant` | `[]IngestionInv` | logs in order |
| `WindowSafe` | `[]WindowNeverPassesSpend` | logs in order |
| `RegressBounded` | `MarkRegressesOnlyToOwnWindow` | |
| `CollectorIngests` | every step is a step of `Ingestion` or a stutter | logs in order |
| `EvaluatorTypeCorrect` | `[](TypeOK /\ LocalsInv)` | |
| `MarksFollowSends` | `[]MarkFollowsSend` | |
| `AlertsJustified` | `[]AlertIsJustified` | |
| `LoneEvaluatorInvariant` | `[]AnnouncingInv` | one evaluator |
| `LoneEvaluatorEscalates` | `AnnouncesUpwards` | one evaluator |
| `LoneEvaluatorKeepsMark` | `MarkFallsOnlyAfterFault` | one evaluator |
| `LoneEvaluatorAnnouncesOnce` | `[]AnnouncedOnce` | one evaluator |
| `AllocationInvariant` | `[]AllocationInv` | |
| `AllocationTypeCorrect` | `[]TypeOK` | |
| `SplitsAreWhole` | `[]SplitIsComplete` | |
| `OwnersAreRespected` | `[]OwnerRespected` | a log's id names one row; tag lists are indexed by numbers |
| `ReportsOnlyRead` | with reports, the table still obeys `Allocation` and `[]SplitIsComplete` | |
| `SpendInvariant` | `[](AllocationInv /\ SpendInv)` | weights not negative |
| `SpendIsCountedOnce` | `[]SpendCountedOnce` | weights not negative |
| `GroupsPartition` | `[]GroupsPartitionSpend` | weights not negative |
| `SharesAreExact` | `SharesFollowWeights` | weights not negative |
| `AllocationDivides` | every step is a step of `CostLedger` or a stutter | weights not negative |
| `ReportsAreConsistent` | `ReportSpec => []ReportConsistent` | weights not negative |
| `GroupsAddUp`, `PointsAddUp`, `SlicesAddUp` | groups, points and slices of any finite table add up | |
| `WorkerInvariant` | `[]WorkerInv` | |
| `WorkerTypeCorrect` | `[]TypeOK` | |
| `HoursNeverSkipped` | `[]HoursContiguous` | |
| `OrderlyShutdown` | `ShutdownIsOrderly` | |
| `WorkerFeedsHours` | every step is a step of `HourlyFeed` or a stutter | |
| `ApiInvariant` | `[]ApiInv` | |
| `ApiTypeCorrect` | `[]TypeOK` | |
| `BudgetsUnique` | `[]OneBudgetPerTeam` | |
| `AnswersHonest` | `[]AnswersAreHonest` | |
| `PatchesKeepTheRest` | `PatchTouchesOnlyNamed` | |
| `ForecastConsistent` | `OneStory` of every forecast the function builds | integers |
| `AnswersInvariant` | `[](ApiInv /\ AnswersInv)` | |
| `ForecastsAgree` | `[]ForecastAgrees` | |
| `CostAnswersAddUp` | `[]CostsAddUp` | |
| `SeriesAddUp` | `[]SeriesAddsUp` | |
| `TrafficTypeCorrect` | `[]TypeOK` | |
| `CeilingOvershoot` | `[]OvershootBounded` | |
| `ReportHonest` | `[]ReportIsHonest` | |

**Collector.** `StoredOnce` is not inductive: the transaction adds `fresh`, so one must know
what the locals still mean after the awaits. `CycleInv` says it: the batch lies in the window and
among the visible logs, and whatever of it is not in `fresh` is stored already (stored rows are
never removed, so this survives every other worker's step). With the unique constraint as a
guard this gives `StoreInv`, which needs nothing of the proxy. The window is a different
matter. A worker may write an old mark over a new one, so "the mark only rises" is false and
cannot carry the argument. `WindowInv` instead says that every window start held by anybody is
*passed*: all visible logs before it are stored, and the batch has no hole below its newest
row. A transaction stores the batch, so its newest instant is passed too, whoever writes
it in whatever order. New logs must not appear before a passed instant, which is where
`LateLogs = FALSE` enters: each window start is the instant of a visible log or older, and
new ones come after every visible log. `WindowInv` implies that each commit is a `Record` of
`Ingestion` with horizon `Since(watermark')`, also when the mark moves back.

**Evaluator.** `LocalsInv` ties a cycle's locals to real budgets, thresholds and months that
have begun; with `RecordingInv` (what is being recorded was sent) it gives `MarkFollowsSend`
for any number of evaluators. `AlertIsJustified` is inductive next to it since the
spend of a month only grows (see section 6) and the limit and list compared are those the cycle loaded. That a
threshold is announced once needs more than the mark: between `Send` and `WriteMark` the
announcement is made but not recorded. `EscalationInv` covers the gap: whatever was sent is
under the mark or under the threshold being recorded, and what is being announced is above the
mark. The second half breaks when another evaluator writes the mark in between, which is why the
theorems assume one evaluator, and the run `evaluator_pair` shows that they must.

**Traffic.** Spend alone says nothing of what is still to come. `RoomInv` counts the calls in
flight at the most they can report: that sum stays under the ceiling plus one call per permit,
because a permit is taken only under the ceiling. `AccountInv` follows each task from creation
to its outcome. The ceiling is therefore not the "hard ceiling" of `docs/dev-verification.md`
but is passed by less than `Concurrency * MaxCost`.

**Allocation.** `SplitIsComplete` speaks of the committed table, but a commit installs what a
pass wrote long before, on top of whatever was committed since. `Whole(rows)` says of any set of
rows what the property says of the table: marked parents and children belong together, with
unique keys. The union of two whole sets with different keys is whole, so a pass's `pending` and
`sent` are kept as whole sets, each the work on records the pass selected (`PassOK`), and
`Apart` keeps the open transactions from having written the same key, which is what row locks
and the wait at a unique index give. A commit replaces parents; that they have no children
in the table yet follows from the children's keys having been new at the flush and being kept
from everybody else since. `OwnersAreRespected` needs the smallest index of a set of tags,
hence the library's well-foundedness of the numbers.

**Worker.** Between reading the watermark and writing it a cycle holds a list of hours. It
is contiguous with the table only if nobody has moved the mark since, which holds because a
collector's task is the only writer of its mark (`CycleOK`); a second worker process would break
it, and there `Collector` takes over. The rest is arithmetic on whole hours: what `Collect`
returns is a gapless run from the mark, or from the floor of the start, cut at the limit
(`CollectedRun`), so the union with the stored run is one (`Contiguous`). `WorkerFeedsHours` maps
each step: `Persist` with hours to report is a `Report` of `HourlyFeed`, whose interval is the run
that `CycleOK` keeps; `Persist` without any, failures, crashes and signals are stutters.

**API.** A handler answers for a row it has loaded one or two statements ago. `ApiInv` says
that a held row is the present one, changed only in the fields others have named, or gone for good:
ids are not given twice, since `nextId` only rises and a refused insert takes its id with it.
That makes the row found by id at the refresh the row created or changed.

An answer is a sum over the cost records at one instant and stays in its slot until it is sent.
`AnswersInv` says that it is still the answer to the request that is there, for some moment of
the clock, so what is true of the functions `CostsAnswer`, `TimeseriesAnswer` and `Forecast` is true
of every answer. `ForecastConsistent` is arithmetic on fractions: the projection reaches the
limit if and only if the breach date lies before the month's end. For `CostsAddUp` the two
windows are disjoint and fill the whole (`WindowsMeet`), and the keys of the previous window fall
into those that still have a group and those that are lost (`PriorsAddUp`).

**Sums.** `SumOf` is a fold over a set, and no induction theorem with an operator parameter can be
used. `EverySubset` states induction over the subsets of a finite set for a *family of sets*
instead of a predicate, from the well-foundedness of the numbers. With it, the fold exists,
is unique and does not depend on the order of its elements; hence sums over disjoint sets
(`AmountUnion`), over an image (`SumImage`) and over the fibres of any key (`NamedGroupsAddUp`), and
from those every grouping, two-level folding and bucketing of `Aggregation`.

**Spend.** That spend is counted once is an equation between what is in the table and what was
collected, in which a split parent's amount stands for its children's. It is not inductive for
the table alone: a commit replaces parents by marked ones and adds children written long
before. `Balanced` therefore asks of every set of rows, the table and each pass's `pending` and
`sent`, that the children of each marked parent are of its instant and add up to its amount;
together with `AllocationInv`, by which children and marked parents belong together and keys are
unique, a commit keeps it. What a single `Split` adds is balanced because of
`SplitIsExact`: rounding down leaves as many units over as the sum of the fractions
(`RoundedDown`), which is less than the number of teams with a fraction (`FractionsRank`), and as
many teams have a rank below a number as that number says (`FirstOnesCount`); so each
unit left over goes to another team, shares add up, and none is off by a whole unit.

The children are also `Portions` of their parent: alike in source, model and every owner but the
team, and one per team. So a filter that names no team takes a record with all of its children
or leaves them all (`FamilyMeetsFilters`), and `KidsCoverMarked` holds in any part of the table
that keeps families together. That gives `SpendCountedOnce` for every source, project, agent
and use case and not only in total.

For `AllocationDivides` only two steps matter. An `Ingest` adds a record that no child can refer
to yet, as children refer to records of the table (`IngestEnters`). A `Commit` divides exactly the
records the transaction has split (`CommitDivides`): their children are those in `sent`, which
balance; a record it replaces had no children in the table (`KeptIsWhole`), so no division is ever
changed; and what it leaves alone keeps the children it had. All else leaves the table as it is.

**Report.** Five statements see five tables. `ReportInv` relates what has been read so far to the
table of now through its history: the total was owned and unattributed spend together
(`TotalIsBoth`), and until the second statement the unattributed part has grown by no more than what arrived.
A split takes only a record of no negative amount away from it (credits are refused,
`CreditsStay`), so what a commit removes never raises it, and what a commit adds is what
`arrived` counts. Nothing is asked of who owns a credit. If nothing was committed in between, all
statements saw the same table, `SlicesAddUp` applies to each, and the share is a fraction as
soon as there are no credits. With commits it need not be one (`report_share`).

**Only model-checked:** `EveryLogIngested`, `CrossingAnnounced`, `RunEnds`, `StopEndsWorker` and
`CatchesUp` are liveness under fairness and out of the prover's reach. Every other property of a
passing run is a theorem. The runs that expect a violation are about single executions and
have no proof.

## 5 Where code and documentation disagree

Each is a run whose property states the sentence quoted in `PROJECT.json`:

- `collector_tied_batch`: the window starts again at its newest instant, so when `batch_size`
  logs share it, every later read returns the same batch and newer spend is never ingested.
- `collector_late_logs`: the proxy stamps the start of a request and writes it later; a log
  that appears behind the mark is never read.
- `report_share`: total and unattributed spend are read by two statements; what is committed in
  between is in the second only, and the share is not "between 0 and 1". By how much it can be off
  is the first part of `ReportConsistent`.
- `evaluator_pair`: two workers both find the mark missing and both announce.
- `evaluator_undelivered`: an alert that was not delivered is recorded as announced.
- `evaluator_lowered_mark`: a failed read inside `record_fired` lets a lower threshold overwrite
  a higher mark.

One more disagreement has a theorem and no run of its own: the ceiling that
`docs/dev-verification.md` calls hard is passed by less than one call per permit
(`OvershootBounded`, `CeilingOvershoot`), and in `traffic_run` it is passed.

## 6 What is not modelled, and why

- Rows without a start time, and rows the schema refuses for their content, which roll back the
  whole batch in every cycle: values have no length or format here.
- Floating point. The evaluator divides and multiplies binary fractions, which can miss a
  threshold reached exactly (29, 57, 58 percent); the models compare exactly. Likewise
  `Decimal`'s 28 digits and the rounding of a forecast: rates are exact fractions.
- The 62-day lifetime of a mark: it outlives the month of its key.
- What an alert says (gauge, drivers, forecast) and Slack's Block Kit: formatting.
- A model that is literally named `None` shares the label of records without a model (`engine.py:200`),
  and `engine.py:205` then keeps the amount of only one of them per source; the two groups are told
  apart here. On SQLite weeks fall back to days; the model truncates to the interval asked.
- Cost records do not change while `Api` serves requests; reads of a changing table are
  `UnattributedReport`. In it, a slice without a model keeps its own label.
- Live metrics. `_observe_cost` is given every record a cycle read, the ones already stored included
  (`base.py:103`), so the boundary row counts again in every cycle although `metrics.py:21` speaks of
  spend ingested. Nothing in the program reads a counter, so there is no state to relate it to.
- Spend that falls. `BudgetEvaluator` lets a month's spend only grow. `persist` would store a negative
  amount, but no collector of the repository writes one; `AlertIsJustified` rests on that, as
  a refund after the query would make an alert under way untrue. The models of allocation, reports
  and costs do have credits.
- Database errors in `Api`. `AnswersAreHonest` is about requests racing each other; a
  connection lost between commit and refresh would also be a 500 after a write. `create_team`, whose refresh meets
  a row deleted meanwhile, is outside what the property says of a 500.
- The first hour of a month: where the run rate is floored a breach date and the projection may
  disagree, and `ForecastAgrees` excuses those instants.
- Allocation passes share one set of rules. Passes whose rules have different names write
  children with different keys and could split a parent twice.
- `Worker` has one process. Two processes on one watermark are `Collector` with two workers.
- The planned calls of `demo/workloads.py` and the choice of keys: data that no property tells apart.
- Health checks, configuration, logging, metrics, dependency wiring,
  middleware, migrations, dashboards: no behaviour of their own. `collectors/infra.py` is a stub.

## 7 Plan

Every component with state of its own is modelled, and every safety property and action property
of a passing run is proved. What could follow, in this order:

1. A refinement of `Worker`'s cycles by `Collector`'s, proved step by step, so that two worker
   processes share a mock collector's watermark as well.
2. What `SpendProofs` leaves to its assumption: how far a split is off when a weight is negative.
3. Refused rows in `Collector`: a log the schema refuses, which blocks the batch that holds it.
4. Rules that differ between passes in `Allocation`.
5. Costs and report queries over a changing table in `Api`, with `Allocation` as the other client.
