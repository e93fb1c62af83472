---------------------------- MODULE QueuePhysics ----------------------------
(***************************************************************************)
(* src/physics_engine.py: how a queue behind a bottleneck grows upstream,  *)
(* camera by camera.                                                       *)
(*                                                                         *)
(* Wave speeds are in hundredths of km/h, to which the code rounds them,   *)
(* times in hundredths of a second; a wave of w covers t * w \div 36000    *)
(* metres in the time t.  A road is                                        *)
(*   [nodes, inflow, speed, free, critical]                                *)
(* with the traffic at the cameras, the mean of all stations, and the      *)
(* parameters the tick has set.                                            *)
(***************************************************************************)
EXTENDS CapacityFusion

CONSTANTS
  MinDrop,     \* MIN_CAPACITY_DROP_VPH
  Horizons     \* DEFAULT_TIME_HORIZONS, in minutes

Minutes(n) == n * 6000

_resolve_local_inflow(c, road) ==
  IF c \in DOMAIN road.nodes /\ road.nodes[c].inflow # None
  THEN road.nodes[c].inflow ELSE road.inflow

\* Without a station anywhere the speed of the model.
_resolve_local_speed(c, road) ==
  IF c \in DOMAIN road.nodes THEN road.nodes[c].speed
  ELSE IF road.speed # None THEN road.speed ELSE road.free

Local(c, road) == c \in DOMAIN road.nodes /\ road.nodes[c].source = "traffic_flow"

(***************************************************************************)
(* The wave w = (Q_in - Q_cap) / (k_jam - k_in), all per lane and          *)
(* multiplied out.  At or above the jam density it is capped.              *)
(***************************************************************************)
Jammed(inflow, speed, lanes) == speed = 0 \/ lanes * Jam * speed <= inflow

\* Positive before it is rounded.
Growing(inflow, capacity, speed, lanes, free) ==
  IF Jammed(inflow, speed, lanes) THEN free > 0 ELSE inflow > capacity

_lwr_wave_speed(inflow, capacity, speed, lanes, free) ==
  LET d == lanes * Jam * speed - inflow IN
  IF Jammed(inflow, speed, lanes) THEN free * 50
  ELSE IF inflow <= capacity THEN 0
  ELSE (200 * (inflow - capacity) * speed + d) \div (2 * d)

(***************************************************************************)
(* The walk upstream.                                                      *)
(***************************************************************************)
\* The cameras upstream of c, nearest first; of several at one place the last.
Upstream(c) ==
  LET beyond == {d \in Cameras : Chainage[d] < Chainage[c]}
      nodes  == {d \in beyond : \A e \in beyond :
                   Chainage[e] = Chainage[d] => Rank[e] <= Rank[d]}
      upto(d) == {e \in nodes : Chainage[e] >= Chainage[d]}
  IN [i \in 1..Cardinality(nodes) |-> CHOOSE d \in nodes : Cardinality(upto(d)) = i]

Gap(c, d)    == Chainage[c] - Chainage[d]

\* It halts where nothing is known of the inflow, and where the queue does not grow.
Reached(c, s, road) ==
  LET up == Upstream(c)
      grows(d) == LET q == _resolve_local_inflow(d, road) IN
                  q # None /\ Growing(q, s.capacity, _resolve_local_speed(d, road), s.lanes, road.free)
  IN Cardinality({i \in DOMAIN up : \A j \in 1..i : grows(up[j])})

Segments(c, s, road) ==
  LET up == Upstream(c)
      from(i) == IF i = 1 THEN c ELSE up[i - 1]
  IN [i \in 1..Reached(c, s, road) |->
        [to |-> up[i], distance |-> Gap(from(i), up[i]),
         wave |-> _lwr_wave_speed(_resolve_local_inflow(up[i], road), s.capacity,
                                  _resolve_local_speed(up[i], road), s.lanes, road.free),
         local |-> Local(up[i], road)]]

Missing(c, s, road) ==
  LET up == Upstream(c)  n == Reached(c, s, road) IN
  n < Len(up) /\ _resolve_local_inflow(up[n + 1], road) = None

\* Rounded up: no segment takes no time.
Transit(segment) == (segment.distance * 36000 + segment.wave - 1) \div segment.wave

\* Time and distance of the first n segments.
\* Mutant: each segment starts on a clock of its own.
TimeAlone(segments, n) == IF n = 0 THEN 0 ELSE Transit(segments[n])
Time(segments, n)  == Total([i \in 1..n |-> Transit(segments[i])])
Reach(segments, n) == Total([i \in 1..n |-> segments[i].distance])

\* Whole segments, then a part of the next, or what lies beyond the last at its speed.
_compute_lengths_piecewise(segments) ==
  [h \in Horizons |->
     LET t == Minutes(h)
         n == Cardinality({m \in DOMAIN segments : Time(segments, m) <= t})
         next == segments[Least(n + 1, Len(segments))]
     IN Reach(segments, n) + ((t - Time(segments, n)) * next.wave) \div 36000]

(***************************************************************************)
(* Uncertainty.                                                            *)
(***************************************************************************)
_data_confidence(local, fallback, missing) ==
  IF missing THEN "low" ELSE IF fallback > 0 THEN "medium"
  ELSE IF local > 0 THEN "high" ELSE "low"

_roi_confidence_factor(quality) == <<60, 75, 95>>[quality]

\* In thousandths.
PredictionConfidence(s, data) ==
  LET base == CASE data = "high" -> 90 [] data = "medium" -> 65 [] OTHER -> 35 IN
  (base * Greatest(s.confidence, 25) * _roi_confidence_factor(s.quality)) \div 1000

Level(confidence) ==
  IF confidence >= 750 THEN "high" ELSE IF confidence >= 500 THEN "medium" ELSE "low"

Band(level) == CASE level = "high" -> 15 [] level = "medium" -> 30 [] OTHER -> 50

(***************************************************************************)
(* The predictions of a tick: a function from the bottlenecks.             *)
(***************************************************************************)
\* Does the inflow exceed the capacity by enough?
IsBottleneck(c, s, road) ==
  LET q == _resolve_local_inflow(c, road) IN
  /\ s.density >= road.critical
  /\ q # None /\ q - s.capacity >= MinDrop

_evaluate_bottleneck_piecewise(c, s, road) ==
  LET segments == Segments(c, s, road)
      n        == Len(segments)
      wave     == _lwr_wave_speed(_resolve_local_inflow(c, road), s.capacity,
                                  _resolve_local_speed(c, road), s.lanes, road.free)
      growth   == IF n = 0 THEN wave ELSE (Reach(segments, n) * 36000) \div Time(segments, n)
      lengths  == IF n = 0 THEN [h \in Horizons |-> (Minutes(h) * wave) \div 36000]
                  ELSE _compute_lengths_piecewise(segments)
      local    == IF n = 0 THEN (IF Local(c, road) THEN 1 ELSE 0)
                  ELSE Cardinality({i \in 1..n : segments[i].local})
      fallback == Greatest(n, 1) - local
      confidence == PredictionConfidence(
                      s, _data_confidence(local, fallback, Missing(c, s, road)))
      band     == Band(Level(confidence))
  IN [camera |-> c, origin |-> Chainage[c], growth |-> growth, segments |-> segments,
      lengths |-> lengths, level |-> Level(confidence),
      lower |-> [h \in Horizons |-> (lengths[h] * (100 - band)) \div 100],
      upper |-> [h \in Horizons |-> (lengths[h] * (100 + band)) \div 100]]

Bottlenecks(states, road) == {c \in DOMAIN states : IsBottleneck(c, states[c], road)}

\* A wave that is rounded to zero divides by zero, and the tick is lost.
Raises(states, road) ==
  \E c \in Bottlenecks(states, road) :
    LET segments == Segments(c, states[c], road) IN
    \E i \in DOMAIN segments : segments[i].wave = 0

compute(states, road) ==
  [c \in Bottlenecks(states, road) |-> _evaluate_bottleneck_piecewise(c, states[c], road)]
=============================================================================
