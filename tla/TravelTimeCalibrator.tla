------------------------ MODULE TravelTimeCalibrator ------------------------
(***************************************************************************)
(* src/travel_time_calibrator.py as a tick drives it: the free-flow speed  *)
(* it adapts, and the arrival times it corrects by what became of earlier  *)
(* predictions.                                                            *)
(*                                                                         *)
(* Times are integers in units a model chooses, Hour to the hour; lengths  *)
(* and speeds are integers, and a division rounds down.  "slow" and        *)
(* "heavy" are "congested".  A camera has one prediction in a tick, so an  *)
(* observation is known by its camera and its tick, and the lists of       *)
(* observations and of residuals are sets.                                 *)
(***************************************************************************)
EXTENDS Integers, Sequences, FiniteSets, FiniteSetsExt

CONSTANTS
  Cameras,
  Chainage,       \* camera to its place on the corridor
  Routes,
  Readings,       \* the lists of readings the source may answer with
  Waves,          \* speeds at which a predicted queue may grow
  Gaps,           \* times from one tick to the next
  ClockSteps,     \* how far the local clock may be set back between two ticks
  Hour,
  Corridor,       \* E4_NORTHBOUND_CORRIDOR_LENGTH_KM
  Default,        \* DEFAULT_FREE_FLOW_SPEED and FREE_FLOW_SPEED_KMH
  Alpha,          \* EMA_ALPHA, in percent
  MinSegments,    \* MIN_FREEFLOW_SEGMENTS
  HighSegments,   \* segments for a high confidence
  MinSamples,     \* MIN_RESIDUAL_SAMPLES
  MaxCorrection,  \* MAX_RESIDUAL_CORRECTION_MINUTES
  MatchExpiry,    \* RESIDUAL_MATCH_EXPIRY_MINUTES
  LateTolerance,  \* RESIDUAL_LATE_HIT_TOLERANCE_MINUTES
  NoSpeed,        \* no measurement
  Start,          \* first value of the clock
  MaxTicks, MaxFaults   \* bounds

Reading == [route: Routes, status: {"freeflow", "congested", "unknown"},
            speed: Nat, length: Nat]

(***************************************************************************)
(* What a list of readings says.                                           *)
(***************************************************************************)
With(readings, status) == {i \in DOMAIN readings : readings[i].status = status}
Congested(readings)    == {readings[i].route : i \in With(readings, "congested")}

Total(w) == MapThenSumSet(LAMBDA x : w[x], DOMAIN w)

_weighted_avg_speed(readings) ==
  LET free  == With(readings, "freeflow")
      total == Total([i \in free |-> readings[i].length])
  IN IF total = 0 THEN NoSpeed
     ELSE Total([i \in free |-> readings[i].speed * readings[i].length]) \div total

_assess_confidence(readings) ==
  LET n == Cardinality(With(readings, "freeflow")) IN
  IF n >= HighSegments THEN "high" ELSE IF n >= MinSegments THEN "medium" ELSE "low"

\* The corridor is shared out among the routes of the answer, in its order.
_build_route_spans(readings) ==
  LET routes    == {readings[i].route : i \in DOMAIN readings}
      at(r)     == {i \in DOMAIN readings : readings[i].route = r}
      length(r) == Max({readings[i].length : i \in at(r)})
      total     == Total([r \in routes |-> length(r)])
      end(r)    == LET upto == {q \in routes : Min(at(q)) <= Min(at(r))} IN
                   (Total([q \in upto |-> length(q)]) * Corridor) \div total
      start(r)  == end(r) - (length(r) * Corridor) \div total
  IN IF total = 0 THEN <<>>
     ELSE [r \in routes |-> [midpoint |-> (start(r) + end(r)) \div 2, order |-> Min(at(r))]]

\* Of the routes that begin upstream of a place, the next one.
_target_span_for_prediction(place, spans) ==
  LET S == {r \in DOMAIN spans : spans[r].midpoint <= place} IN
  CHOOSE r \in S : \A q \in S :
    \/ spans[q].midpoint < spans[r].midpoint
    \/ (spans[q].midpoint = spans[r].midpoint /\ spans[r].order <= spans[q].order)

HasTarget(place, spans) == \E r \in DOMAIN spans : spans[r].midpoint <= place

\* In the units of the clock.  A wave is positive and its target upstream.
_eta_to_span_midpoint(place, midpoint, wave) == ((place - midpoint) * Hour) \div wave

ASSUME CalibratorAssumption ==
  /\ IsFiniteSet(Cameras) /\ Chainage \in [Cameras -> Nat]
  /\ Waves \subseteq Nat \ {0} /\ Hour \in Nat \ {0}
  /\ Gaps \subseteq Nat /\ ClockSteps \subseteq Nat /\ Start \in Int
  /\ Default \in Nat \ {0} /\ Alpha \in 0..100 /\ NoSpeed \notin Nat
  /\ MaxCorrection \in Nat /\ MatchExpiry \in Nat /\ LateTolerance \in Nat
  /\ MinSegments \in Nat /\ HighSegments \in Nat /\ MinSamples \in Nat \ {0}
  /\ MaxTicks \in Nat /\ MaxFaults \in Nat /\ Corridor \in Nat
  /\ Readings \subseteq Seq(Reading)

(***************************************************************************)
(* The state.                                                              *)
(***************************************************************************)
VARIABLES
  now,
  tick_count,                \* updates since the process started
  adapted_free_flow_speed,
  _pending_residuals,        \* observations waiting for congestion
  _residuals_by_bucket,      \* residuals learned
  free_flow_speed,           \* of the physics engine, before the weather factor
  predictions,               \* camera to the arrival of its queue
  snapshot,                  \* the calibration the last tick reports
  seed,                      \* ghost: has the first update of the process set the average
  measured,                  \* ghost: the averages it took in
  recorded, meetings,        \* ghosts: all observations; the ticks that looked at congestion
  tick, faults

vars == <<now, tick_count, adapted_free_flow_speed, _pending_residuals, _residuals_by_bucket,
          free_flow_speed, predictions, snapshot, seed, measured, recorded, meetings, tick, faults>>

Observation == [made: Nat, at: Int, camera: Cameras, route: Routes, eta: Nat]
Meeting     == [tick: Nat, at: Int, congested: SUBSET Routes]

Clamp(x, lo, hi) == IF x < lo THEN lo ELSE IF x > hi THEN hi ELSE x

\* Mutant: what is learned is not bounded.
Unbounded(o, t) == (t - o.at) - o.eta
Residual(o, t)  == Clamp((t - o.at) - o.eta, -MaxCorrection, MaxCorrection)
Sample(o, t)   == [of |-> o, residual |-> Residual(o, t)]

\* Day type and three-hour slot; the clock starts on a Monday.
Slot(t)   == <<(t \div (24 * Hour)) % 7 >= 5, (t \div (3 * Hour)) % 8>>
_residual_bucket(o) == <<o.camera, o.route, Slot(o.at)>>
InBucket(samples, b) == {s \in samples : _residual_bucket(s.of) = b}

TypeOK ==
  /\ now \in Int /\ tick \in 0..MaxTicks /\ faults \in 0..MaxFaults /\ tick_count \in 0..tick
  /\ adapted_free_flow_speed \in Nat
  /\ _pending_residuals \subseteq Observation
  /\ _residuals_by_bucket \subseteq [of: Observation, residual: -MaxCorrection..MaxCorrection]
  /\ seed \in BOOLEAN /\ measured \subseteq Nat
  /\ recorded \subseteq Observation /\ meetings \subseteq Meeting

Init ==
  /\ now = Start /\ tick = 0 /\ faults = 0
  /\ tick_count = 0
  /\ adapted_free_flow_speed = Default
  /\ _pending_residuals = {} /\ _residuals_by_bucket = {}
  /\ free_flow_speed = Default
  /\ predictions = <<>> /\ snapshot = <<>>
  /\ seed = FALSE /\ measured = {} /\ recorded = {} /\ meetings = {}

(***************************************************************************)
(* update                                                                  *)
(***************************************************************************)
\* Mutant: the first average is taken for the first reading that qualifies.
NeverSeeds(readings, count) == FALSE
Seeds(readings, count)      == count = 1

Reliable(readings) ==
  /\ _weighted_avg_speed(readings) # NoSpeed
  /\ Cardinality(With(readings, "freeflow")) >= MinSegments

Adapted(readings, count) ==
  IF ~ Reliable(readings) THEN adapted_free_flow_speed
  ELSE LET m == _weighted_avg_speed(readings) IN
       IF Seeds(readings, count) THEN m
       ELSE (Alpha * m + (100 - Alpha) * adapted_free_flow_speed) \div 100

\* In percent; reported, and used by nothing.
correction_factor(adapted) == Clamp((100 * adapted) \div Default, 60, 125)

update(readings) ==
  LET adapted == Adapted(readings, tick_count + 1) IN
  /\ tick_count' = tick_count + 1
  /\ adapted_free_flow_speed' = adapted
  /\ free_flow_speed' = IF _assess_confidence(readings) = "low" THEN Default ELSE adapted
  /\ seed' = (seed \/ (tick_count = 0 /\ Reliable(readings)))
  /\ measured' = measured \cup (IF Reliable(readings) THEN {_weighted_avg_speed(readings)} ELSE {})

(***************************************************************************)
(* evaluate_accuracy and apply_residual_corrections                        *)
(***************************************************************************)
\* None without congestion; otherwise whether there is any prediction at all.
accuracy_hit_rate(readings, waves) ==
  IF Congested(readings) = {} THEN -1 ELSE IF DOMAIN waves = {} THEN 0 ELSE 1

Age(o, t) == t - o.at

\* Mutant: congestion teaches however old the observation is.
TeachesLate(o, congested, t) == o.route \in congested /\ Age(o, t) >= -LateTolerance
Teaches(o, congested, t) ==
  o.route \in congested /\ Age(o, t) \in -LateTolerance..MatchExpiry

\* Mutant: congestion teaches, and the observation stays.
StillWaiting(pending, congested, t) == {o \in pending : Age(o, t) <= MatchExpiry}

\* What _learn_residuals leaves waiting; without congestion it does nothing.
Waiting(pending, congested, t) ==
  IF congested = {} THEN pending
  ELSE {o \in pending : Age(o, t) <= MatchExpiry /\ ~ Teaches(o, congested, t)}

_learn_residuals(pending, congested, t) ==
  {Sample(o, t) : o \in {p \in pending : Teaches(p, congested, t)}}

\* Mutant: without congestion nothing expires.
PrunedLate(pending, t)     == pending
_prune_pending(pending, t) == {o \in pending : Age(o, t) <= MatchExpiry}

Disabled(reason) ==
  [enabled |-> FALSE, correction |-> 0, count |-> 0, reason |-> reason, base |-> -1, corrected |-> -1]

\* Mutant: one sample too few.
TooSoon(n) == n >= MinSamples - 1
Enough(n)  == n >= MinSamples

\* o is the observation this prediction makes.
Corrected(o, samples) ==
  LET S == InBucket(samples, _residual_bucket(o))
      n == Cardinality(S)
      mean == MapThenSumSet(LAMBDA s : s.residual, S) \div n
      c == IF Enough(n) THEN Clamp(mean, -MaxCorrection, MaxCorrection) ELSE 0
  IN [enabled |-> Enough(n), correction |-> c, count |-> n,
      reason |-> IF Enough(n) THEN "none" ELSE "insufficient history",
      base |-> o.eta, corrected |-> Max({o.eta + c, 0})]

\* Mutant: what is corrected is what is learned from, so that corrections add up.
Fed(o, prediction)      == [o EXCEPT !.eta = prediction.corrected]
Observed(o, prediction) == o

apply_residual_corrections(readings, waves) ==
  LET spans == _build_route_spans(readings)
      congested == Congested(readings)
      aimed == {c \in DOMAIN waves : HasTarget(Chainage[c], spans)}
      target(c) == _target_span_for_prediction(Chainage[c], spans)
      made(c) == [made |-> tick + 1, at |-> now', camera |-> c, route |-> target(c),
                  eta |-> _eta_to_span_midpoint(Chainage[c], spans[target(c)].midpoint, waves[c])]
      samples == _residuals_by_bucket
                   \cup _learn_residuals(_pending_residuals, congested, now')
      prediction == [c \in DOMAIN waves |->
                       IF c \in aimed THEN Corrected(made(c), samples)
                       ELSE Disabled("no downstream route target")]
      pending == Waiting(_pending_residuals, congested, now')
  IN IF DOMAIN spans = {}
     THEN /\ predictions' = [c \in DOMAIN waves |-> Disabled("missing route spans")]
          /\ UNCHANGED <<_pending_residuals, _residuals_by_bucket, recorded, meetings>>
     ELSE /\ _residuals_by_bucket' = samples
          /\ _pending_residuals' = _prune_pending(
               pending \cup {Observed(made(c), prediction[c]) : c \in aimed}, now')
          /\ predictions' = prediction
          /\ recorded' = recorded \cup {made(c) : c \in aimed}
          /\ meetings' = meetings \cup {[tick |-> tick + 1, at |-> now', congested |-> congested]}

(***************************************************************************)
(* The actions: a tick with travel times, one without, one whose analysis  *)
(* raises after update, a restart.  Nothing of this survives a restart.    *)
(***************************************************************************)
Later == \/ \E g \in Gaps : now' = now + g /\ faults' = faults
         \/ \E s \in ClockSteps : now' = now - s /\ faults < MaxFaults /\ faults' = faults + 1

Tick(readings, waves) ==
  /\ tick < MaxTicks /\ readings # <<>>
  /\ tick' = tick + 1
  /\ Later
  /\ update(readings)
  /\ apply_residual_corrections(readings, waves)
  /\ snapshot' = [factor |-> correction_factor(adapted_free_flow_speed'),
                  confidence |-> _assess_confidence(readings),
                  accuracy |-> accuracy_hit_rate(readings, waves)]

TickBlind(waves) ==
  /\ tick < MaxTicks
  /\ tick' = tick + 1
  /\ Later
  /\ free_flow_speed' = Default
  /\ predictions' = [c \in DOMAIN waves |-> Disabled("insufficient history")]
  /\ snapshot' = <<>>
  /\ UNCHANGED <<tick_count, adapted_free_flow_speed, _pending_residuals, _residuals_by_bucket,
                 seed, measured, recorded, meetings>>

TickRaises(readings) ==
  /\ tick < MaxTicks /\ faults < MaxFaults /\ readings # <<>>
  /\ tick' = tick + 1 /\ faults' = faults + 1
  /\ \E g \in Gaps : now' = now + g
  /\ update(readings)
  /\ predictions' = <<>> /\ snapshot' = <<>>
  /\ UNCHANGED <<_pending_residuals, _residuals_by_bucket, recorded, meetings>>

Restart ==
  /\ faults < MaxFaults
  /\ faults' = faults + 1
  /\ tick_count' = 0
  /\ adapted_free_flow_speed' = Default
  /\ _pending_residuals' = {} /\ _residuals_by_bucket' = {}
  /\ free_flow_speed' = Default
  /\ predictions' = <<>> /\ snapshot' = <<>>
  /\ seed' = FALSE /\ measured' = {} /\ recorded' = {} /\ meetings' = {}
  /\ UNCHANGED <<now, tick>>

Next ==
  \/ \E seen \in SUBSET Cameras : \E waves \in [seen -> Waves] :
       TickBlind(waves) \/ \E readings \in Readings : Tick(readings, waves)
  \/ \E readings \in Readings : TickRaises(readings)
  \/ Restart

Spec == Init /\ [][Next]_vars

(***************************************************************************)
(* Properties.                                                             *)
(***************************************************************************)
\* Which tick judges a prediction, and which ends its wait?
Judges(m, o)  == /\ m.tick > o.made /\ o.route \in m.congested
                 /\ o.at - LateTolerance <= m.at /\ m.at <= o.at + MatchExpiry
Settles(m, o) == Judges(m, o) \/ (m.tick > o.made /\ m.at > o.at + MatchExpiry)

Judged(o) == {m \in meetings : Judges(m, o) /\ \A n \in meetings : n.tick < m.tick => ~ Settles(n, o)}

(* The residuals are a function of the history: every prediction the       *)
(* process has made is judged against the first tick after it that finds   *)
(* its route congested while it is at most MatchExpiry old, by its own     *)
(* uncorrected arrival, and by nothing else and never again; it waits as   *)
(* long as nothing has settled it.  This holds however often ticks fail,   *)
(* lack travel times or see the clock set back.                            *)
LearnedFromHistory ==
  /\ _pending_residuals = {o \in recorded : \A m \in meetings : ~ Settles(m, o)}
  /\ _residuals_by_bucket =
       UNION {{Sample(o, m.at) : m \in Judged(o)} : o \in recorded}

(* The free-flow speed stays between the measurements; once the very first *)
(* update of a process has seeded it, the default has no part in it.       *)
AdaptedFromMeasurements ==
  LET sources == measured \cup (IF seed THEN {} ELSE {Default}) IN
  /\ \E s \in sources : s >= adapted_free_flow_speed
  /\ \E s \in sources : s <= adapted_free_flow_speed

(* A prediction is corrected exactly when congestion has judged MinSamples *)
(* earlier ones of its camera, route, day type and time of day, and then   *)
(* its arrival moves by at most MaxCorrection, and never before now.       *)
CorrectionsAreBacked ==
  \A o \in recorded : o.made = tick =>
    LET p == predictions[o.camera]
        judged == {r \in recorded : _residual_bucket(r) = _residual_bucket(o) /\ Judged(r) # {}}
    IN /\ p.enabled <=> Cardinality(judged) >= MinSamples
       /\ p.base = o.eta /\ p.corrected >= 0
       /\ p.corrected - p.base \in (IF p.enabled THEN -MaxCorrection..MaxCorrection ELSE {0})
=============================================================================
