--------------------------- MODULE CapacityFusion ---------------------------
(***************************************************************************)
(* src/fusion_pipeline.py and src/incident_builder.py as operators: what   *)
(* stations and travel times say of the traffic at a camera, and how the   *)
(* state of a camera is derived from it, from a stopped vehicle and from   *)
(* the situations on the road.                                             *)
(***************************************************************************)
EXTENDS CameraView

CONSTANTS
  Cameras,            \* CAMERA_COORDS
  Chainage,           \* build_camera_chainage_map
  Rank,               \* camera to its position in the configuration
  Corridor,           \* E4_NORTHBOUND_CORRIDOR_LENGTH_KM, in metres
  RouteOrder,         \* E4_NORTHBOUND_TRAVEL_TIME_ROUTE_IDS
  SitePlace, Limit,   \* station to its chainage and its speed limit
  DropPercent, SeverePercent,  \* SENSOR_SPEED_DROP_RATIO, SENSOR_SEVERE_DROP_RATIO
  StoppedConfidence,  \* of a stopped-vehicle event
  None                \* no value

Distance(x, y) == IF x <= y THEN y - x ELSE x - y

\* find_nearest_by_chainage: the first of the nearest cameras.
Nearest(place) ==
  CHOOSE c \in Cameras : \A d \in Cameras :
    LET x == Distance(Chainage[c], place)  y == Distance(Chainage[d], place) IN
    x < y \/ (x = y /\ Rank[c] <= Rank[d])

\* Lane records, a sequence of [site, volume, speed]: volumes are added up, and
\* speeds averaged over the lanes that count vehicles.  A missing value is 0.
fetch_sensor_data(flows) ==
  LET of(s)    == {i \in DOMAIN flows : flows[i].site = s /\ flows[i].volume > 0}
      heard    == {flows[i].site : i \in {j \in DOMAIN flows : flows[j].volume > 0}}
  IN [s \in heard |->
        [volume |-> Total([i \in of(s) |-> flows[i].volume]),
         speed  |-> Total([i \in of(s) |-> flows[i].speed]) \div Cardinality(of(s))]]

(***************************************************************************)
(* Traffic at the cameras.  travel maps routes to [speed, metres], sensors *)
(* maps stations to [volume, speed].                                       *)
(***************************************************************************)
Position(route) == CHOOSE i \in DOMAIN RouteOrder : RouteOrder[i] = route

\* Shared out among the usable routes, in the order of the configuration.
build_travel_time_speed_states(travel) ==
  LET usable == {r \in DOMAIN travel : r \in Range(RouteOrder)
                                       /\ travel[r].metres > 0 /\ travel[r].speed > 0}
      metres(S) == Total([r \in S |-> travel[r].metres])
      upto(r)   == {q \in usable : Position(q) < Position(r)}
      start(r)  == (metres(upto(r)) * Corridor) \div metres(usable)
      end(r)    == (metres(upto(r) \cup {r}) * Corridor) \div metres(usable)
      isLast(r) == upto(r) \cup {r} = usable
      covers(r, c) == /\ start(r) <= Chainage[c]
                      /\ (Chainage[c] < end(r) \/ (isLast(r) /\ Chainage[c] <= Corridor))
      covered   == {c \in Cameras : \E r \in usable : covers(r, c)}
  IN [c \in covered |->
        [inflow |-> None, speed |-> travel[CHOOSE r \in usable : covers(r, c)].speed,
         source |-> "travel_time"]]

\* A station counts for its nearest camera; stations override travel times.
build_node_traffic_states(travel, sensors) ==
  LET spans   == build_travel_time_speed_states(travel)
      near(c) == {s \in DOMAIN sensors : Nearest(SitePlace[s]) = c}
      volume(c) == Total([s \in near(c) |-> sensors[s].volume])
      speed(c)  == Total([s \in near(c) |-> sensors[s].speed * sensors[s].volume]) \div volume(c)
      heard   == {c \in Cameras : near(c) # {}}
  IN [c \in DOMAIN spans \cup heard |->
        IF c \in heard
        THEN [inflow |-> volume(c), speed |-> speed(c), source |-> "traffic_flow"]
        ELSE spans[c]]

\* tick_once: the mean of all stations stands in where there is none.
Aggregate(sensors) ==
  LET mean(w) == Total(w) \div Cardinality(DOMAIN sensors) IN
  IF DOMAIN sensors = {} THEN [inflow |-> None, speed |-> None]
  ELSE [inflow |-> mean([s \in DOMAIN sensors |-> sensors[s].volume]),
        speed  |-> mean([s \in DOMAIN sensors |-> sensors[s].speed])]

detect_sensor_anomalies(sensors) ==
  LET slow(s, percent) == sensors[s].speed * 100 < Limit[s] * percent IN
  [s \in {t \in DOMAIN sensors : slow(t, DropPercent)} |->
     [severe |-> slow(s, SeverePercent), camera |-> Nearest(SitePlace[s])]]

(***************************************************************************)
(* The states of a tick: a function from the cameras that have one.        *)
(***************************************************************************)
\* Only cameras with a usable record can have an event, and they have a state.
_apply_stopped_vehicle_detection(states, stopped, critical) ==
  [c \in DOMAIN states |->
     IF c \notin stopped THEN states[c]
     ELSE [states[c] EXCEPT
             !.anomaly = TRUE, !.reason = <<"stopped vehicle">>,
             !.blocked = Greatest(@, 1),
             !.density = Greatest(@, critical + 100),
             !.confidence = Greatest(@, StoppedConfidence)]]

\* A camera that has seen nothing, and remembers no density.
Unobserved(s) == s.capacity = 0 /\ s.density = 0 /\ s.count = 0 /\ s.confidence = 0

\* Mutant: what the raw picture said is kept.
KeptReason(s, critical) == s.reason
DerivedReason(s, critical) ==
  IF s.density > critical
  THEN IF s.anomaly THEN s.reason ELSE <<"density">>
  ELSE IF s.reason = <<"density">> THEN <<>> ELSE s.reason

\* A reason without an anomaly ("black image") stays one, unless the road is dense.
_derive_capacity_from_fused_state(s, speed, critical, factor) ==
  LET most    == (QCap * s.lanes * Least(factor, 100)) \div 100
      flow    == IF s.density > critical
                 THEN Least((s.density * s.lanes * speed) \div 100, most) ELSE most
      reason  == DerivedReason(s, critical)
      anomaly == reason # <<>> /\ (s.anomaly \/ s.density > critical)
      open    == Greatest(s.lanes - s.blocked, 0)
  IN IF Unobserved(s) THEN s
     ELSE [s EXCEPT !.reason = reason, !.anomaly = anomaly,
                    !.capacity = IF anomaly /\ s.blocked > 0
                                 THEN (flow * open) \div s.lanes ELSE flow]

\* The speed at the camera, of all stations, or of the free road.
FusedSpeed(c, nodes, aggregate, free) ==
  IF c \in DOMAIN nodes THEN nodes[c].speed
  ELSE IF aggregate.speed # None THEN aggregate.speed ELSE free

_apply_fused_capacity_derivation(states, nodes, aggregate, free, critical, factor) ==
  [c \in DOMAIN states |->
     _derive_capacity_from_fused_state(
       states[c], FusedSpeed(c, nodes, aggregate, free), critical, factor)]

(***************************************************************************)
(* Situations: a sequence of [kind, restricted, severe, place], restricted *)
(* and place possibly None.                                                *)
(***************************************************************************)
_situation_capacity_factor(d) ==
  LET kind  == IF d.kind = "accident" THEN 45 ELSE 65
      bad   == IF d.severe THEN Least(kind, 35) ELSE kind
      lanes == IF d.restricted = None \/ d.restricted = 0 THEN bad
               ELSE Least(bad, (100 * Greatest(2 - d.restricted, 0)) \div 2)
  IN Greatest(lanes, 25)

\* Mutant: more lanes blocked than there are.
BlockedUnbounded(d, lanes) == IF d.restricted # None THEN d.restricted ELSE 1
_blocked_lanes_from_deviation(d, lanes) ==
  IF d.restricted # None THEN Least(d.restricted, lanes)
  ELSE IF d.kind = "accident" THEN Least(1, lanes) ELSE 0

\* The deviations of a camera, and the first of those that leave the least capacity.
At(c, deviations) ==
  {i \in DOMAIN deviations : deviations[i].place # None /\ Nearest(deviations[i].place) = c}
\* Mutant: the last deviation wins.
Latest(c, deviations) == Max(At(c, deviations))
Strongest(c, deviations) ==
  CHOOSE i \in At(c, deviations) : \A j \in At(c, deviations) :
    LET x == _situation_capacity_factor(deviations[i])
        y == _situation_capacity_factor(deviations[j]) IN x < y \/ (x = y /\ i <= j)

Situation(d, i, lanes, critical) ==
  [count |-> 0, blocked |-> _blocked_lanes_from_deviation(d, lanes), lanes |-> lanes,
   capacity |-> (QCap * lanes * _situation_capacity_factor(d)) \div 100,
   density |-> critical + 100, direction |-> "northbound", anomaly |-> TRUE,
   reason |-> <<d.kind>>, confidence |-> 95, quality |-> 1,
   confirmed |-> TRUE, situations |-> {i}]

\* A state the cameras have: it can only get worse.
Merged(s, d, i, critical) ==
  LET lanes == Greatest(s.lanes, Lanes)
      alone == Situation(d, i, lanes, critical)
  IN [s EXCEPT !.lanes = lanes,
               !.blocked = Greatest(@, alone.blocked),
               !.capacity = Least(@, alone.capacity),
               !.density = Greatest(@, alone.density),
               !.anomaly = TRUE,
               !.reason = IF d.kind \in Range(@) THEN @ ELSE Append(@, d.kind),
               !.confidence = Greatest(@, 95),
               !.confirmed = TRUE, !.situations = @ \cup {i}]

apply_situation_capacity_impacts(states, deviations, critical) ==
  LET hit == {c \in Cameras : At(c, deviations) # {}}
      i(c) == Strongest(c, deviations)
  IN [c \in DOMAIN states \cup hit |->
        IF c \notin hit THEN states[c]
        ELSE IF c \in DOMAIN states THEN Merged(states[c], deviations[i(c)], i(c), critical)
        ELSE Situation(deviations[i(c)], i(c), Lanes, critical)]

(***************************************************************************)
(* What the operator is told of a state.                                   *)
(***************************************************************************)
CapacityDrop(s) == Greatest(0, Least(100 - (100 * s.capacity) \div (s.lanes * QCap), 100))

build_incident_reports(states) ==
  [c \in {d \in DOMAIN states : states[d].anomaly} |->
     [type |-> states[c].reason, drop |-> CapacityDrop(states[c]),
      affected |-> Least(states[c].blocked, states[c].lanes),
      confirmed |-> states[c].confirmed, situations |-> states[c].situations]]
=============================================================================
