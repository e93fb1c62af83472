# TLA+ models of the Proactive Traffic Routing Engine

PTRE polls cameras, sensors, travel times, weather and traffic situations of
the E4 corridor once a minute, predicts how queues grow, recommends messages
for the gantries, and serves the result to operators. This directory holds
specifications of its stateful parts, the TLC configurations that check them
on small instances, and TLAPS proofs of their main properties for every
instance. Paths below are relative to the repository.

## 1. Inventory

One process. Its threads: the **event loop** (uvicorn, every endpoint, the tick
loop task), one **tick thread** at a time (`asyncio.to_thread(tick_once)`), up
to eight **fetch threads** per tick, up to `_camera_worker_count` **camera
workers** inside the camera fetch, and short-lived threads of the image
endpoints. All state is in module globals and in files under `data/`.

| Component | State | Operations | What is hard | What makes it correct |
|---|---|---|---|---|
| Tick loop, lifecycle (`main.py`) | `_latest_*`, `_shutdown_event`, the task, `excluded_cameras.json` | resolve cameras, run a tick in a thread, publish, evaluate; exclude/restore; startup, shutdown | exclusions and shutdowns in the middle of a tick; exceptions at each point; crash | exclusions hold; only saved ticks are shown, in order; shutdown ends; the loop survives errors |
| Tick orchestrator (`tick_orchestrator.py`) | `_tick_count`, singletons | eight futures with timeouts, join, analysis phases | fetches that outlive their timeouts; one phase raising | no fetch outlives its tick; no stale data in a tick |
| Persistence (`tick_persistence.py`) | `sensor_data.jsonl`, `vision_state.json`, `status.json` | append, rewrite, retention, status | which failure raises, which is swallowed; readers of half-written files | what is shown is on disk; counters match files |
| Prophecy evaluation (`evaluation_logger.py`) | pending list, totals, feed, `evaluation_metrics.jsonl` | record, evaluate, expire | order of the calls; ticks that miss a window; failing writes; restarts | totals agree; settled once and in the window; no self-confirmation |
| Anomaly store (`anomaly_store.py`) | counter, `anomaly_log.jsonl` | append, count, recount | four writers without a lock | no line lost; counter exact |
| Retention (`jsonl_retention.py`) | files | prune, compact | read–replace against appends; half-failed pass | drops only old lines |
| Camera pipeline (`camera_pipeline.py`, `retention.py`) | thread-local engines, training schedule | process a frame, retain an image | worker concurrency | each camera's record and state agree |
| Stopped vehicles (`track_persistence.py`) | tracks per camera | match, age, mature | misses, excluded cameras, failed fetches | an event means consecutive sightings |
| Calibration (`travel_time_calibrator.py`) | moving average, pending observations, residuals | update, learn, correct, prune | feedback over many ticks; clocks set back; ticks that raise halfway | each prediction teaches once, by the right tick; corrections bounded |
| Weather (`smhi_forecast.py`, `weather_adapter.py`) | cached forecast | poll, classify, combine | stale cache, missing feeds | a forecast only escalates |
| Smoother (`density_smoother.py`) | average per camera | update | gaps in the data | bounded by the inputs |
| Vision (`vision_engine.py`) | none | boxes of a picture to density, anomaly, blocked lanes | black pictures, regions of interest | see fusion |
| Fusion (`fusion_pipeline.py`, `incident_builder.py`) | none | aggregate, derive capacity, apply situations | order of eight steps that overwrite each other's fields | situations are never played down; incidents have causes and queues have incidents |
| Physics (`physics_engine.py`) | parameters set by each tick | walk upstream, lengths, bands | zero and boundary values; segments and horizons | lengths follow the waves; no division by zero |
| VMS (`vms_orchestrator.py`) | none | choose signs, arrival times, bands | horizons that share signs; corrections | every tail has its sign, once |
| Operator API (`operator_api.py`) | `_PipelineState` under a lock | replace, snapshot, match proxies | torn snapshots; advice computed anew | one tick per answer; both feeds agree |
| Sources, client (`trafikverket_*.py`) | none | request, retry, parse | retries, timeouts | bounded time |

Left aside: inference and polygon geometry (images; the boxes they yield are
inputs), replay and ROI tools (offline), pages and scripts (drawing), `legacy/`
(quarantined), the `main_loop.py` facade (tests only). `PROJECT.json` lists
every component with its status and every hazard at its line.

Interaction, per tick: the loop reads the exclusions, hands the camera list to
the tick thread and awaits it; the tick thread submits the fetches, collects
them in order with timeouts, joins the executor, analyses, appends to
`sensor_data.jsonl`, rewrites `vision_state.json`, prunes, recounts, rewrites
`status.json`; back in the event loop the snapshot is published, pending
prophecies are evaluated, new ones recorded.

## 2. Modules

| Module | Models | Composes |
|---|---|---|
| `ProphecyContract` | abstract: a ledger of predictions, each settled at most once, only when its window allows | |
| `EvaluationLogger` | `src/evaluation_logger.py` as the tick loop drives it | implements `ProphecyContract` |
| `ProphecyOutlook` | the logger on a road with real queues | extends `EvaluationLogger` |
| `AnomalyStore` | anomaly log and counter under camera workers, tick thread, event loop, compaction, restart | `anomaly_store`, `jsonl_retention`, `tick_persistence`, `camera_pipeline` |
| `ServiceContract` | abstract: only saved ticks are shown, in order, none after a shutdown began | |
| `MainLoop` | event loop, tick thread, fetch threads, exclusions, lifecycle | implements `ServiceContract` |
| `WeatherAdapter` | classification and combination of stations, roads and forecast (operators) | |
| `SmhiForecast` | the forecast source with its cache | extends `WeatherAdapter` |
| `WeatherTick` | the weather side of a tick: fetches, adjustment, slippery-road advisories | extends `SmhiForecast` |
| `StoppedVehicles` | boxes followed over ticks, smoothed densities, promotion of a stopped vehicle | `track_persistence`, `density_smoother`, `fusion_pipeline` |
| `TravelTimeCalibrator` | adapted free-flow speed, pending observations, residuals, corrections | `travel_time_calibrator` |
| `CameraView` | what the boxes of a picture say (operators) | `vision_engine`, ROI part of `fusion_pipeline` |
| `CapacityFusion` | stations, travel times, stopped vehicles, situations at the cameras; incidents (operators) | extends `CameraView` |
| `QueuePhysics` | the wave of every segment, lengths and bands per horizon (operators) | extends `CapacityFusion` |
| `GantryAdvice` | signs for queues and for slow stations (operators) | extends `QueuePhysics` |
| `OperatorFeeds` | recommendations, proxies, content of the export (operators) | extends `GantryAdvice` |
| `TickAnalysis` | the analysis phases of a tick in their order | extends all five |
| `MC*` | model values and small instances for TLC | |
| `FoldTheorems` | that folds over finite sets and counted loops exist, what they keep, and what sums are; the proofs rest on it | |
| `*_proofs` | theorems | |

### EvaluationLogger

`book` holds every Prophecy object in order of creation, so that `pending`,
`history` and `file` refer to objects by position as the code does by
reference. `Tick` is what one turn of the loop does with a result
(`main.py:221-226`): `evaluate_pending`, whose verdict per prophecy is
`Verdict` (expiry first, then the two-sided window, then the target's state),
and `record_prophecies`, whose filter is `Tracked`. Sets of resolved
prophecies enter feed and file in the order of `_pending` (`Listing`); the
predictions come in any order. `Written` is the batch append of `_write_jsonl`,
which an OSError can cut short; `EvaluationRaises` is `makedirs` raising after
`_pending` was replaced; `TickFails` is a tick that raised; `Restart` a new
process. `looks` is a ghost: for each prophecy, the first tick of its process
that had data of its target inside its window, whatever its status; the action
that settles never reads it. Time and chainage are integers in units a model
chooses; the float
rounding of `predicted_eta_minutes` is display only.

### AnomalyStore

A step ends where a thread can be switched out. `_total_anomalies += 1` is one
step: the deployed interpreter (CPython 3.12, `Dockerfile`) has no switch point
between its load and its store. `worker[c]` is a camera worker inside
`record_anomaly`; `pc` is the tick thread from the fetch to `status.json`;
`api` is the event loop inside `get_total_count`. The ghost variable `doubt`
names the three things that make the counter inexact until the next clean
recount, so that `CounterExact` says when it *is* exact.

### MainLoop

`thread` is where `tick_once` stands, `loop` where the loop task stands.
`running` is the set of fetches still in an executor thread, with the tick and
the camera list they were given; `future` what the tick sees of them. A timeout
is `Collect` on a future still running. `Publish` is everything the event loop
does with a result between two awaits. `Stop` sets the event and cancels the
task: a tick not yet picked up by a thread is cancelled with it, one that runs
goes on to its files, and `Exit` waits for it, as the interpreter does for its
executor threads. `Start` is a new process after an exit or a crash. `since[c]`
is a ghost: the newest tick that may still use camera `c` when its operator
excludes it. Signals reach the loop through uvicorn's shutdown; `_handle_signal`
only repeats the event.

### WeatherAdapter, SmhiForecast, WeatherTick

`world` is the series SMHI publishes, a step every hour; it is never revised in
a behaviour, so that what a forecast says can be compared with what was
published. A tick either serves the cache, fetches, fails to fetch, or finds its
future timed out, in which case the fetch may still fill the cache. Time is UTC;
`Offset` is how far the naive local `now` of the tick is ahead of it, which
`_to_utc` of the forecast undoes and `_is_stale` of the adapter does not.
Station and road records keep only what the classification tells apart.

### StoppedVehicles

A box is a spot on a line and two boxes match when they are near, the nearer
the better: all that the greedy matching of `_update_tracks` uses of the
intersection over union. A frame is a sequence of boxes in the order of the
detector, with a raw density. A tick gives each camera a usable frame, a record
without one (`None`, which ages its tracks) or no record at all, in which case
its tracks and its average stay as they are. The order of a tick is that of
`tick_once`: tracker and smoother read the raw frame, the promotion comes last.
`seen` and `records` are ghosts. `StillIsReported` assumes frames whose boxes do
not overlap, as the detector's suppression of duplicates leaves them; without
that, a duplicate of a vehicle's box that comes first can take its track and delay the
report by a tick. Confidences only choose among mature tracks and are left out.

### TravelTimeCalibrator

A `Tick` is `update`, then `apply_residual_corrections`, which judges the
pending observations against the congestion of the answer, corrects each
prediction and records it, and prunes. `TickBlind` is a tick whose travel times
did not come, `TickRaises` one whose analysis raises between the two calls,
`Restart` a new process: nothing of this state is persistent. The clock is the
naive local one of the tick, so it may be set back. An observation is
identified by its camera and its tick, so that the lists of the code are sets.
`recorded` and `meetings` are ghosts: all predictions with a target, and every
tick that looked at congestion. `LearnedFromHistory` says what the incremental
lists must be as a function of those two.

### CameraView to TickAnalysis

The modules follow the data of a tick. Pictures are sequences of boxes with
width class and confidence; densities are in hundredths of veh/km/lane, waves in
hundredths of km/h, which is the code's rounding, lengths in metres, times in
hundredths of a second, and a division rounds down, except the time a tail takes
through a segment (`Transit`), which is rounded up so that none takes no time.
Sums over a set of indices are `Total`. Chainages are given: the projection of
coordinates is left out.

`TickAnalysis` runs the phases in the order of `tick_orchestrator.py`:
`Fetch` (pictures to states), `Smooth`, `Measure` (stations, travel times,
weather and the parameters they set), `Promote` (stopped vehicles), `Derive`
(capacities), `ApplySituations`, `Physics` or `PhysicsFails`, `Publish`. They
are steps rather than one action because their order is what the hazards are
about; no other thread sees the state in between. Only the smoothed densities
survive a tick. What other modules determine is a choice here: a stopped
vehicle is found wherever the tracker could report one, a correction is one of
`Corrections`, the surface and its factors one of `Weathers`.

## 3. Runs

| Run | Instance | Shows |
|---|---|---|
| `prophecies` | 4 cameras, two at one site, one out of range; gaps of 2, 3 or 8 units of 30 s; 2 prophecies; 1 fault | types, totals, self-confirmation, the first look decides, feed, file, contract |
| `prophecy_outlook` | 2 cameras, every arrival time, the same gaps, failing ticks and fetches | what a verdict says about the road; pending prophecies are settled |
| `anomaly_store` | 2 workers, 3 lines, 2 days, 1 fault | no line lost, counter exact |
| `service` | 2 cameras, 2 sources, 2 ticks, 1 fault | exclusions, contract; ticks end, shutdown finishes |
| `weather` | units of 15 minutes; 4 hourly steps of 3 kinds of weather; 3 station feeds, 4 road feeds; 2 faults | what is ahead is anticipated, a forecast only escalates, notice is given |
| `stopped_vehicles` | 1 camera, 6 ticks, 6 frames of up to 2 boxes, one of them crowded | hits, gaps, reports, averages |
| `travel_times` | 2 cameras, 2 routes, 5 answers, units of 5 minutes, gaps of 1 or 4, clock set back by 1 or 12; 3 ticks, 1 fault | learning as a function of the history, averages, corrections |
| `tick_analysis` | 3 cameras (one not asked, one with two regions, one without), 2 stations, 2 routes, 3 signs; 2 to 4 pictures or none, 4 station answers, 3 lists of situations, 2 weathers, 3 corrections; 2 ticks | from pictures to both operator feeds |

Runs that find a disagreement between code and documentation (see `findings`):

| Run | Counterexample |
|---|---|
| `anomaly_overcount` | the tick thread appends a line, the API recounts, the tick thread counts its line: two for one, written to `status.json` |
| `weather_timezone` | local time two hours ahead of UTC: a sample just taken is dropped as stale |
| `tick_loop_dies` | the exclusions cannot be read once: the loop is gone, the API serves on |
| `wave_rounds_to_zero` | 1801 vehicles an hour against a capacity of 1800: the wave passes the guard, is rounded to 0.00 km/h, and the length of the queue divides by it: the tick is lost |

Smaller disagreements, seen while modelling and visible in the models, without
a run of their own:

- *Prophecies.* A prophecy can be judged FAILED up to 90 s before its impact
  time, although `docs/handoff.md:255` speaks of the time of impact (`Verdict`).
  `src/evaluation_logger.py:49` has ticks 60 s apart, of which a window of 90 s to
  either side must catch one. They are a tick and 60 s apart, and leaving the
  executor (`tick_orchestrator.py:123-124`) waits for camera workers, each image
  of which may take three attempts of 30 s and two waits
  (`trafikverket_client.py:53-65`): two such images in one worker, and the next
  tick leaps over the window (`Gaps`).
  An expired prophecy gets no feed entry although `static/app.js:313` renders
  one (`Judged` leaves it out).
- *Anomalies.* After a restart the first new anomaly makes the counter positive,
  and a positive counter is not recounted: the old lines stay uncounted until a
  compaction, although `src/anomaly_store.py:5` and `:114` promise the total (`Restart`).
- *Persistence.* `vision_state.json` is truncated and rewritten while
  `/api/v1/cameras` (`main.py:379-383`) may read it, although `README.md:238`
  calls it the fallback.
- *Forecast.* After failed fetches `get_forecast` serves a forecast of any age
  and asks again every tick, although `src/smhi_forecast.py:17-19` speaks of
  throttling and ageing out (`FetchFails`).
- *Tracks.* A camera without a record does not age its tracks, although
  `src/track_persistence.py:127` says so of a tick without a usable frame (`Tick`).
- *Calibration.* The bounds of `correction_factor` bound a number nothing uses,
  although the comment at `src/travel_time_calibrator.py:38` says it prevents
  wild swings from bad data; the accuracy is 0 or 1, although its docstring speaks of a fraction
  (`accuracy_hit_rate`). The calibrator shares the corridor out in the order
  of the answer, the fusion in that of the configuration, so that the two place
  one reading differently (`_build_route_spans`, `build_travel_time_speed_states`).
- *Fusion.* A camera that is blind counts as capacity 0, so that a situation
  merged into it becomes a total closure (`apply_situation_capacity_impacts`).
- *Physics.* The walk halts where the wave does, but a queue that runs past that
  camera goes on growing at the last wave, although the docstring at
  `src/physics_engine.py:23-24` says it stops there (`_compute_lengths_piecewise`).
- *Signs.* The urgency is taken from the upper end of the band, which lies 2.5
  minutes or more away, so that it is never "immediate" without a correction
  (`BandHoldsEta`), while the narrative speaks of an immediate queue. The arrival for a
  later horizon leaves out the time to that horizon.

Hazards known without a property, apart from those of `PROJECT.json`: a lane with
flow and no speed counts as 0 km/h in the mean of its station
(`trafikverket_sources.py:149`, in `fetch_sensor_data`); a full disk makes
retention raise in `camera_pipeline.py:215` and loses the state of just that
anomalous camera; a picture the source has not renewed counts as a new frame
for the tracker (`camera_pipeline.py:174`).

**Bounds.** Every bound is a named constant. *Prophecies:* two are enough for
one to be settled while another is pending, or both in one tick; the horizon
reaches past the expiry of the last one recorded, and a failed tick; `MaxHistory` 3 makes the
window roll. ETAs reach 6 units, so that ticks fall before, into and after the
window of a prophecy, and the gap of 8 (240 s) leaps over a whole window (90 s to
either side), as slow image requests make ticks do. *Anomalies:* three lines over two days let a compaction drop some
and keep others; one line per worker and one by the tick thread. *Service:*
two ticks let an exclusion fall into the first and take hold in the second, and
a straggler of one tick would meet the next; two sources suffice for a future to
be collected while another fetch runs. *Weather:* seven units are one look-ahead
and three more, enough for the cache to be served, refreshed and outlived; two
faults allow a failed fetch after a restart. *Stopped vehicles:* cameras share
nothing, so one will do; six ticks let a track mature, miss and mature again.

*Travel times:* three ticks are one that predicts, one whose congestion judges
it, and one that is corrected or judges again; two samples enable a correction,
six units expire an observation and gaps of 4 jump over that in two ticks.
*Tick analysis:* the second tick smooths with the averages of the first; since
a track needs three ticks to mature, the cameras that may report a stopped vehicle are those
remembered at `Init`. Its station answers lie below, just above and far above
capacity, its pictures below and above the critical density, its situations on
the corridor, beside each other and without a place.
Otherwise one fault (a failed operation or a
crash) keeps a counterexample readable; the proofs cover any number.

**Fairness.** `ProphecyOutlook`: the loop goes on with the next tick whatever
became of the last (`main.py:236`), so weak fairness of `OutlookTick`. `MainLoop`:
threads are scheduled, and every request of a fetch has a timeout and a bounded
number of attempts, so weak fairness of the tick thread, of fetches ending and of
the event loop; none for operators, crashes or starts. `EveryTickEnds` therefore
assumes that every fetch thread ends: one that never did would hold up every later
tick at the join, and no property covers that.

**Deadlock** is not checked where a bound stops the behaviour (last tick,
horizon); `AnomalyStore` can always go on and is checked.

## 4. Proofs

| Theorem | Module | Argument |
|---|---|---|
| `TypeCorrect`, `TotalsAgreeWithBook`, `NeverSelfConfirming`, `FirstLooksDecide`, `LoggerImplementsContract` | `EvaluationLogger_proofs` | invariants `Dated`, `Unsettled`, `WrittenOffLate` |
| `FeedIsTruthful`, `FileIsOneStory` | `EvaluationLogger_proofs` | what a tick appends (`Reported`); invariants `Feed`, `Story` |
| `VerdictsTellTheRoad` | `EvaluationLogger_proofs` | invariant `OutlookInv`: a step of the outlook is a step of the logger on a true view of the road |
| `ForcedDensityStaysOut` | `StoppedVehicles_proofs` | `Measured`: an average is bounded by a density the camera has reported |
| `MemoryIsTyped`, `TracksCountTicks`, `TracksBridgeFewRecords`, `StandingIsReported` | `StoppedVehicles_proofs` | invariant `MemoryInv`, with the loop over the boxes of a frame |
| `StoreTypes`, `CounterIsExact`, `CompactionLosesNothing` | `AnomalyStore_proofs` | invariants `Numbered`, `Balanced`; `Dates`, `Joined`, `CopyComplete` |
| `CalibratorTypes`, `AveragesAreMeasured`, `LearningFollowsHistory` | `TravelTimeCalibrator_proofs` | `Dated`: what is recorded was recorded in this tick or before |
| `CorrectionsRestOnHistory` | `TravelTimeCalibrator_proofs` | invariants `Counted`, `AllBacked`, on top of `LearningFollowsHistory` |
| `TickTypes`, `SituationsAreShown`, `QueuesAreAnnounced` | `TickAnalysis_proofs` | what each phase keeps of the phases before it |
| `IncidentsAreCaused` | `TickAnalysis_proofs` | invariant `CauseInv` |
| `InterfacesAgree`, `TailsAreCovered` | `TickAnalysis_proofs` | `AdvicePublished`, `PredictionsFollow`: what is shown is computed from one tick |
| `BandsHold` | `TickAnalysis_proofs` | with these, `ComputedIsSound`, `RoadMoves`, `AdviceLast` |
| `QueuesFollowWaves` | `TickAnalysis_proofs` | with these, `PredictionsLast`; the unrounded position of a tail |
| `WeatherTypes`, `WeatherIsAnticipated`, `ForecastOnlyEscalates`, `NoticeIsGiven` | `WeatherTick_proofs` | what the cache was made of, and its age |
| `ServiceTypes`, `ExclusionsHold`, `ServiceImplementsContract` | `MainLoop_proofs` | invariants `Awaited`, `FetchesOfTick`, `ListedUntil`, `ShownUntil`, `SavedSoFar` |

*Weather.* `Anticipated` rests on what the cache is at the time of its fetch
(the worst step of that window) and that a served cache is younger than the
poll interval, so that every step now within look-ahead minus poll interval was
in that window. `ForecastOnlyEscalates` assumes factor tables that fall with the
rank (`Falling`), which TLC evaluates for the tables of `config.py`. `NoticeGiven` splits on road warnings: with one, `Warned` is not
empty; without, the pre-staged gantry is free.

*EvaluationLogger.* The properties are not inductive: `Unsettled` ties the
pending list to the statuses, `Dated` says that a pending prophecy was created
at or before `now` and is due after its creation. `FirstLooksDecide` asks nothing
of the distance between ticks: a pending prophecy is judged by exactly the ticks
that look at it (`JudgedIffSeen`), a judged one was looked at before, and an
expired one was written off when its window had closed for good
(`WrittenOffLate`), as the tolerance does not exceed the expiry. So EXPIRED means
that no tick of the process had data inside the window: they leapt over it,
failed, or lacked the target. Self-confirmation is excluded because `BookAfterTick`
settles the old book before it appends. The totals need finite cardinalities of
disjoint sets of positions (`DisjointCount`).

Feed and file are lists that several writers extend, so the argument is about
positions. `Reported` says what a tick appends, whatever it evaluates and
wherever a write stops: outcomes of prophecies that the tick settled, each
once, then creations of new ones, each once. A cut batch still has that form
(`PrefixIsBatch`). `Feed` adds that entries refer to existing prophecies; the
rolling window keeps the newest entries (`NewestIsEnd`), so a verdict cannot
roll out before the creation it follows. `Story` holds because a prophecy
settled by this tick was pending before it (`Unsettled`), so no line of the
file had its outcome yet.

`VerdictsTellTheRoad` is about `ProphecyOutlook`, where what a tick sees is the
road at that time: a success verdict means that the queue was there at the
latest at the end of the window, a failure that it was not there at its start.
`VerdictSeesRoad` shows it for one verdict, and a resolved prophecy is not
touched again.

*FoldTheorems.* A fold of the community modules iterates a recursively defined
function over the subsets of a set. The module starts from the order of the
natural numbers, which is well founded, and derives from it, without a theorem
that takes an operator, induction over the size of a finite set: an iteration
exists (`IterationExists`), it keeps what each step keeps (`IterationKeeps`),
so does a loop over 1..n (`LoopExists`), a sum of naturals is a natural that
compares term by term (`SumsCompare`), is bounded (`SumIsBounded`) and splits
(`SumSplits`). Each use restates the property it needs as a set of values,
which is what makes these lemmas first-order.

*AnomalyStore.* Appending takes no lock; what protects a line is that the tick
thread compacts only after the fetch phase has joined all workers (`Joined`),
so the copy is complete up to expired lines when it replaces the log
(`CopyComplete`), and that the cutoff never goes back. The counter is exact
because, whenever no recount is under way or due and no doubt is on record, the
lines it lacks are exactly those appended but not yet counted (`Balanced`);
`Numbered` bounds the sets that are counted.

*MainLoop.* A tick's camera list is fixed when it is handed over
(`ListedUntil`), so an exclusion is safe because no fetch outlives its tick
(`FetchesOfTick`) and what is shown comes from that list (`ShownUntil`). For
the contract, `SavedSoFar` orders the shown, the saved and the running tick,
and `Awaited` says that a tick runs without being awaited only in a shutdown.

*TravelTimeCalibrator.* `LearnedFromHistory` compares lists that are updated in
place with a definition over the whole past. Its step splits on whether the new
meeting settles an observation: one already settled is untouched because a tick
number is used once (`Dated`), one still waiting is judged by the new meeting
or by nothing. Expiry and pruning agree with it because both use the same age.

A correction is a mean of the residuals learned in its bucket (camera, route,
day type, time of day). That those samples are exactly the backed ones of the
history is `LearningFollowsHistory`; that the number of samples is the number
of judged predictions is `OneSampleEach`, which needs the observations to be
finite and each to have met one judgement (`Counted`); that their mean is a
number is `ResidualsAddUp`; and that the correction stays within the clamp and
off the past is `CorrectedIsBounded`. What an answer of the source says is
typed for any list of readings: an average of speeds is a speed
(`AverageIsSpeed`), a route's share of the corridor ends after it begins
(`SpansAreTyped`), and the target of a prediction lies upstream of it
(`TargetIsUpstream`).

*StoppedVehicles.* The matching of a frame is a loop over its boxes, each of
which takes the nearest free track that is near, or a new one. `FrameTaken`
says what the loop leaves: an old track is taken at most once, by a box near it
(`Taken`), and when boxes and tracks do not overlap, a box goes to the track at
its very spot (`Placed`). `MemoryInv` keeps for each camera that the `hits` of
a track are the ticks of its sightings, with at most `MaxMissed` records
between two of them and at most `missed` after the last (`Tells`), and that, if
no frame had overlapping boxes, tracks have distinct spots and a vehicle seen
at one spot in the last k frames has a track there with at least k hits
(`Followed`). Aging, expiry and new tracks keep both (`UpdateSays`), whatever
the tick gives the camera: a frame, a record without one, or nothing.

*TickAnalysis.* The invariant is `TypeOK` with one conjunct for what a phase
needs of the earlier ones: `ReadingsTyped` (the parameters are numbers),
`OnlyWatched` (states are of asked cameras until situations add others),
`AnomaliesReasoned` (an anomaly has a reason), `DenseIsAnomaly` (from `Derive`
on a density above critical is an anomaly), `SituationsHeld` (after merging,
each located situation is held by its nearest camera with its loss),
`PredictedIsDense` (a prediction stands at a dense camera). Several situations
at one camera are merged by the strongest, whose existence is `FirstOfTheBest`.
What the folds over boxes, regions, stations and cameras return is typed by
`FoldTheorems`; only the raw inputs are assumed to be (`InputAssumption`).

`CauseInv` carries causes from the picture to the incident: a state is that of
a picture seen (`StatesAreSeen`), its density the average of what was seen
(`DensityIsAverage`), a stopped vehicle comes with the promotion
(`NoneStopped`), and an anomaly has one of the causes at every phase
(`AnomaliesCaused`). `InterfacesAgree` and `TailsAreCovered` rest on
`AdvicePublished` and `PredictionsFollow`: what a tick publishes is computed
from its own states and readings. The feeds differ only when the published
advice is empty, and then so is what is computed anew. Of several horizons that
choose one sign the first is kept, and its advice covers the tails of the
others. For `BandsHold` the walk must not divide by zero (`ComputedIsSound`)
and free flow must not be zero (`RoadMoves`); then the bounds are clamped
around the estimate, and `FloorAssumption`, the least error of an estimate,
keeps an uncorrected arrival from being urgent.

`QueuesFollowWaves` is about lengths in whole metres, so the argument is about
an unrounded position (`TailAt`) of which they are the floors (`Rounds`).
Within a segment the position moves at its wave; at the end of a segment it
loses less than one hundredth of a second (`RestOfSegment`, `OneMoreSegment`),
as `Transit` is rounded up; beyond the last segment it moves at the last wave.
So between two times it moves at waves between the slowest and the fastest,
less one hundredth for each segment passed (`TailAdvances`, `WalkingTail`), and
flooring adds the metre (`RoundedGrowth`). That no wave of a walk is zero is
the guard whose failure `wave_rounds_to_zero` shows: `Raises` takes such a tick
to `PhysicsFails`, so it publishes nothing the theorem would be about.

Assumptions are those named in the modules (`ConstantsAssumption`,
`InputsAssumption`, `FactorsAssumption`, `SourceAssumption`, `TickAssumption`,
`VehiclesAssumption`, `CalibratorAssumption`, `CorridorAssumption`,
`LanesAssumption`, `FloorAssumption`, `InputAssumption`, `OutlookAssumption`),
and `Falling` where stated; TLC evaluates each of them in a run.

They speak of constants and inputs, none of what the code computes from them.
None bounds the distance between ticks. `Falling` holds for the factor tables of
`config.py`.

Only model-checked: liveness (`EventuallySettled`, `EveryTickEnds`,
`ShutdownFinishes`), which is out of TLAPS's reach, and the four disagreements,
each a counterexample.

## 5. Plan

Done: the core (`EvaluationLogger`, `AnomalyStore`, `MainLoop`, weather,
tracking) with contracts and proofs; the calibrator; the analysis of a tick from
pictures to operator feeds; every safety property a passing run checks, proved.

Left, in this order:

1. `CameraInfoCache`: the cache of camera metadata and images in `main.py`,
   refreshed by several endpoint threads.
2. `RetentionPolicy`: the training-image schedule under workers and crashes.
3. The retry loop of `api_request`, with its attempts and waits, refining the
   fetch that `MainLoop` takes as one step.
4. The replay evaluator's matching of predictions to congestion, as operators.
5. Proofs of the order of stages that the tick thread and the compaction rely on,
   as action properties of `MainLoop` and `AnomalyStore`.

## 6. Not modelled

- *Inference and polygon geometry* (`vision_engine.py`, `roi_mapper.py`,
  `route_chainage.py`): floating-point work on images and coordinates; the boxes
  and chainages they yield are inputs.
- *Camera info cache, image proxy and read-only endpoints* of `main.py`: they
  feed no prediction; the cache is first in the plan.
- *Training-image schedule* (`retention.py`): decides only which
  pictures are kept for labelling; second in the plan.
- *Requests and parsing* (`trafikverket_client.py`, most of
  `trafikverket_sources.py`): a fetch returns, fails or is late, and what it
  returns is enumerated.
- *Replay evaluator*: an offline report over recorded files, with no part in the service.
- *ROI calibration tools*: interactive, one-off configuration.
- *Compatibility facade* (`main_loop.py`): mirrors globals for tests.
- *Validation and serialisation* of `models.py`, wording of narratives, XML
  layout: no property is about them.
- *Dashboard pages and `legacy/`*: drawing, and a quarantined predecessor.
