---------------------------- MODULE TickAnalysis ----------------------------
(***************************************************************************)
(* The analysis of a tick, from pictures, stations, travel times, weather  *)
(* and situations to incidents, queue predictions and advice for the       *)
(* signs: tick_once of src/tick_orchestrator.py after its fetches, with    *)
(* everything it calls.  What a step reads from outside is chosen in it.   *)
(*                                                                         *)
(* Between ticks only the smoothed densities are kept.  The memory of the  *)
(* stopped-vehicle tracker is in StoppedVehicles: here a vehicle may be    *)
(* found stopped wherever the tracker could report one.  Corrections and   *)
(* the calibrated speed come from TravelTimeCalibrator, the surface from   *)
(* WeatherAdapter.                                                         *)
(***************************************************************************)
EXTENDS OperatorFeeds

CONSTANTS
  Watched,        \* the cameras a tick asks for
  Pictures,       \* camera to the pictures it may take
  Failed,         \* no picture: the fetch or the decoding failed
  Memories,       \* camera to the averages it may have from earlier ticks
  Flows, Travels, Situations, Advisories,   \* what a tick may receive
  Weathers,       \* [surface, proactive, speed, capacity] of a tick, factors in percent
  FreeSpeeds,     \* adapted free-flow speeds
  Corrections,    \* residual corrections, in seconds
  Alpha,          \* of the density smoother, in percent
  NormalSpeed,    \* from which a standing vehicle is out of place
  MostLanes,      \* bound: lanes that one camera has in view
  MaxTicks        \* bound: ticks

Reasons == {"aspect ratio", "density", "black image", "stopped vehicle", "accident", "roadwork"}

State ==
  [count: Nat, blocked: Nat, lanes: 1..MostLanes, capacity: Nat, density: Nat,
   direction: {"northbound", "none"}, anomaly: BOOLEAN,
   reason: Seq(Reasons), confidence: 0..100, quality: 1..3, confirmed: BOOLEAN, situations: SUBSET Nat]

Deviation ==
  [kind: {"accident", "roadwork"}, restricted: Nat \cup {None}, severe: BOOLEAN,
   place: Nat \cup {None}]

ASSUME CorridorAssumption ==
  /\ Cameras # {} /\ IsFiniteSet(Cameras) /\ Watched \subseteq Cameras
  /\ Chainage \in [Cameras -> Nat] /\ Rank \in [Cameras -> Nat]
  /\ \A c, d \in Cameras : Rank[c] = Rank[d] => c = d
  /\ Gantries # {} /\ IsFiniteSet(Gantries) /\ Mile \in [Gantries -> Nat]
  /\ \A s \in DOMAIN SitePlace : SitePlace[s] \in Nat
  /\ {QCap, Critical, Lanes, RoiMetres} \subseteq Nat \ {0} /\ {FreeFlow, Jam} \subseteq Nat
  /\ Horizons \subseteq Nat /\ AdviceHorizons \subseteq Horizons /\ MinUpstream \in Nat
  /\ Alpha \in 0..100 /\ StoppedConfidence \in 0..100 /\ MaxTicks \in Nat
  /\ None \notin Int /\ None \notin Gantries

\* The lanes of a camera, and of any of its regions, are counted by MostLanes; and the
\* least drop that makes a bottleneck makes a wave that is not rounded away.
ASSUME LanesAssumption ==
  /\ MostLanes \in Nat /\ Lanes <= MostLanes
  /\ \A c \in Watched : \A S \in SUBSET DOMAIN Rois[c] :
       Total([i \in S |-> Rois[c][i].lanes]) <= MostLanes
  /\ MinDrop \in Nat \ {0} /\ MostLanes * Jam <= 200 * MinDrop

\* No estimate is surer than what makes a warning urgent.
ASSUME FloorAssumption == ErrorFloor \in Nat /\ ErrorFloor > 120

\* Black, or the boxes of each region; one region when none is configured.
Shots(c) == {Black} \cup [1..Greatest(Len(Rois[c]), 1) -> Seq(Box)]
Lane     == [site: DOMAIN SitePlace, volume: Nat, speed: Nat]

ASSUME InputAssumption ==
  /\ \A c \in Watched : /\ Rois[c] \in Seq(ROI) /\ Pictures[c] \subseteq Shots(c)
                        /\ Memories[c] \subseteq Nat \cup {None}
  /\ Flows \subseteq Seq(Lane)
  /\ \A times \in Travels : \A r \in DOMAIN times : times[r].speed \in Nat
  /\ Situations \subseteq Seq(Deviation)
  /\ FreeSpeeds \subseteq Nat
  /\ \A w \in Weathers : /\ w.speed \in Nat /\ w.capacity \in Nat
                         /\ \A free \in FreeSpeeds : free * w.speed >= 100
  /\ Corrections \subseteq Int \cup {None}

VARIABLES
  tick,
  phase,
  average,        \* DensitySmoother._state
  tracked,        \* cameras followed for long enough to find a stopped vehicle
  pictures,       \* what the cameras showed
  states,         \* capacity_states
  travel, sensors, deviations, weather, stopped,   \* what this tick received or found
  road,           \* nodes, mean of all stations, and parameters of the physics
  predictions, corrections, advice, statuses

inputs  == <<pictures, travel, sensors, deviations, weather, stopped, statuses>>
results == <<states, road, predictions, corrections, advice>>
vars    == <<tick, phase, average, tracked, inputs, results>>

Phases == {"idle", "fetched", "smoothed", "measured", "promoted", "derived", "fused",
           "computed", "published", "failed"}

Nothing == [c \in {} |-> 0]
NoRoad  == [nodes |-> Nothing, inflow |-> None, speed |-> None,
            free |-> FreeFlow, critical |-> Critical]
Dry     == [surface |-> "dry", proactive |-> FALSE, speed |-> 100, capacity |-> 100]

TypeOK ==
  /\ tick \in 0..MaxTicks /\ phase \in Phases
  /\ average \in [Watched -> Nat \cup {None}] /\ tracked \subseteq Watched
  /\ DOMAIN states \subseteq Cameras
  /\ \A c \in DOMAIN states : states[c] \in State /\ states[c].blocked <= states[c].lanes
  /\ DOMAIN predictions \subseteq DOMAIN states /\ DOMAIN corrections = DOMAIN predictions
  /\ \A a \in advice : a.vms \in Gantries

Init ==
  /\ tick = 0 /\ phase = "idle"
  /\ average \in {f \in [Watched -> UNION Range(Memories)] : \A c \in Watched : f[c] \in Memories[c]}
  /\ tracked = {c \in Watched : average[c] # None}
  /\ pictures = Nothing /\ states = Nothing /\ travel = Nothing /\ sensors = Nothing
  /\ deviations = <<>> /\ weather = Dry /\ stopped = {} /\ statuses = {} /\ road = NoRoad
  /\ predictions = Nothing /\ corrections = Nothing /\ advice = {}

(***************************************************************************)
(* The phases of tick_once.                                                *)
(***************************************************************************)
Fetch ==
  /\ phase \in {"idle", "published", "failed"} /\ tick < MaxTicks
  /\ tick' = tick + 1 /\ phase' = "fetched"
  /\ \E shown \in [Watched -> (UNION Range(Pictures)) \cup {Failed}] :
       /\ \A c \in Watched : shown[c] \in Pictures[c] \cup {Failed}
       /\ pictures' = shown
       /\ states' = [c \in {d \in Watched : shown[d] # Failed} |->
                       _process_camera(c, shown[c])]
  /\ travel' = Nothing /\ sensors' = Nothing /\ deviations' = <<>> /\ weather' = Dry
  /\ stopped' = {} /\ statuses' = {} /\ road' = NoRoad
  /\ predictions' = Nothing /\ corrections' = Nothing /\ advice' = {}
  /\ UNCHANGED <<average, tracked>>

Smoothed(c, density) ==
  IF average[c] = None THEN density
  ELSE (Alpha * density + (100 - Alpha) * average[c]) \div 100

Smooth ==
  /\ phase = "fetched" /\ phase' = "smoothed"
  /\ average' = [c \in Watched |->
                   IF c \in DOMAIN states THEN Smoothed(c, states[c].density) ELSE average[c]]
  /\ states' = [c \in DOMAIN states |->
                  [states[c] EXCEPT !.density = Smoothed(c, states[c].density)]]
  /\ UNCHANGED <<tick, tracked, inputs, road, predictions, corrections, advice>>

\* Without travel times the model speed is not adapted.
Measure ==
  /\ phase = "smoothed" /\ phase' = "measured"
  /\ \E flows \in Flows, times \in Travels, w \in Weathers, free \in FreeSpeeds :
       LET read == fetch_sensor_data(flows)  all == Aggregate(read) IN
       /\ times = Nothing => free = FreeFlow
       /\ travel' = times /\ sensors' = read /\ weather' = w
       /\ road' = [nodes |-> build_node_traffic_states(times, read),
                   inflow |-> all.inflow, speed |-> all.speed,
                   free |-> (free * w.speed) \div 100,
                   critical |-> (Critical * w.capacity) \div 100]
  /\ UNCHANGED <<tick, average, tracked, pictures, states, deviations, stopped, statuses,
                 predictions, corrections, advice>>

\* Where traffic is known to flow at normal speed.
Stoppable ==
  {c \in tracked \cap DOMAIN states \cap DOMAIN road.nodes : road.nodes[c].speed >= NormalSpeed}

Promote ==
  /\ phase = "measured" /\ phase' = "promoted"
  /\ stopped' \in SUBSET Stoppable
  /\ states' = _apply_stopped_vehicle_detection(states, stopped', road.critical)
  /\ UNCHANGED <<tick, average, tracked, pictures, travel, sensors, deviations, weather, statuses,
                 road, predictions, corrections, advice>>

Derive ==
  /\ phase = "promoted" /\ phase' = "derived"
  /\ states' = _apply_fused_capacity_derivation(
                 states, road.nodes, [speed |-> road.speed], road.free, road.critical,
                 weather.capacity)
  /\ UNCHANGED <<tick, average, tracked, inputs, road, predictions, corrections, advice>>

ApplySituations ==
  /\ phase = "derived" /\ phase' = "fused"
  /\ deviations' \in Situations
  /\ states' = apply_situation_capacity_impacts(states, deviations', road.critical)
  /\ UNCHANGED <<tick, average, tracked, pictures, travel, sensors, weather, stopped, statuses,
                 road, predictions, corrections, advice>>

\* A correction needs travel times.
Physics ==
  /\ phase = "fused" /\ ~Raises(states, road) /\ phase' = "computed"
  /\ predictions' = compute(states, road)
  /\ corrections' \in [Bottlenecks(states, road) -> IF travel = Nothing THEN {None} ELSE Corrections]
  /\ UNCHANGED <<tick, average, tracked, inputs, states, road, advice>>

\* The exception leaves tick_once: nothing is stored or published.
PhysicsFails ==
  /\ phase = "fused" /\ Raises(states, road) /\ phase' = "failed"
  /\ UNCHANGED <<tick, average, tracked, inputs, results>>

Publish ==
  /\ phase = "computed" /\ phase' = "published"
  /\ advice' = (UNION {generate_recommendations(predictions[c], corrections[c], weather.surface) :
                         c \in DOMAIN predictions})
               \cup generate_sensor_recommendations(detect_sensor_anomalies(sensors))
  /\ \E a \in Advisories : statuses' = fetch_vms_status(a)
  /\ UNCHANGED <<tick, average, tracked, pictures, travel, sensors, deviations, weather, stopped,
                 states, road, predictions, corrections>>

Next ==
  Fetch \/ Smooth \/ Measure \/ Promote \/ Derive \/ ApplySituations
  \/ Physics \/ PhysicsFails \/ Publish

Spec == Init /\ [][Next]_vars

(***************************************************************************)
(* What the operators see.                                                 *)
(***************************************************************************)
incidents == build_incident_reports(states)

TickResult ==
  [incidents |-> incidents, predictions |-> predictions, corrections |-> corrections,
   advice |-> advice, statuses |-> statuses, surface |-> weather.surface,
   proactive |-> weather.proactive, deviations |-> deviations]

Published == phase = "published"

(***************************************************************************)
(* Properties.                                                             *)
(***************************************************************************)

(* An authoritative situation is never played down: every located accident *)
(* or roadwork, however many there are at a camera and whatever the camera *)
(* shows, remembers or failed to show, is a confirmed incident with at     *)
(* least the loss of capacity it stands for (fusion_pipeline.py:560-657).  *)
ConfirmedMeansDrop ==
  Published => \A i \in DOMAIN deviations :
    deviations[i].place # None =>
      LET c == Nearest(deviations[i].place) IN
      /\ c \in DOMAIN incidents /\ incidents[c].confirmed
      /\ incidents[c].drop >= 100 - _situation_capacity_factor(deviations[i])

(* No queue is predicted behind a camera at which the operators see no     *)
(* incident, although the two are decided by different modules on          *)
(* different tests; except where the density is exactly critical           *)
(* (fusion_pipeline.py:511, physics_engine.py:147).                        *)
PredictionsAreAnnounced ==
  Published => \A c \in DOMAIN predictions :
    c \in DOMAIN incidents \/ states[c].density = road.critical

(* No incident outlives its cause: the average of the camera is above      *)
(* critical, or this very tick saw a wide box on the road of the corridor, *)
(* a stopped vehicle, or a situation (vision_engine.py:527-579,            *)
(* fusion_pipeline.py:484-531).                                            *)
IncidentsHaveCauses ==
  Published => \A c \in DOMAIN incidents :
    \/ c \in Watched /\ average[c] # None /\ average[c] > road.critical
    \/ c \in stopped
    \/ \E i \in DOMAIN deviations :
          deviations[i].place # None /\ Nearest(deviations[i].place) = c
    \/ /\ c \in Watched /\ pictures[c] \notin {Failed, Black}
       /\ \E i \in DOMAIN pictures[c] :
            /\ Wide(pictures[c][i]) # {}
            /\ Rois[c] = <<>> \/ Rois[c][i].road # "southbound"

\* The waves of a prediction's walk, and lengths that grow between the waves v and f
\* with n segments to round.
Waves(p) == IF p.segments = <<>> THEN {p.growth} ELSE {s.wave : s \in Range(p.segments)}
Within(p, v, f, n) ==
  LET at(h) == IF h = 0 THEN 0 ELSE p.lengths[h]
  IN \A h \in Horizons \cup {0}, k \in Horizons :
       h < k =>
         /\ at(k) - at(h) <= (Minutes(k - h) * f) \div 36000 + 1
         /\ at(k) - at(h) >= (Minutes(k - h) * v - n * f) \div 36000

(* Between any two horizons the queue grows by no more than its fastest    *)
(* and no less than its slowest wave allows, whatever segments its tail    *)
(* has passed or run beyond (physics_engine.py:514-573); up to a metre of  *)
(* rounding and a hundredth of a second at the end of each segment.        *)
GrowthFollowsWaves ==
  \A c \in DOMAIN predictions :
    LET p == predictions[c]
    IN Within(p, Min(Waves(p)), Max(Waves(p)), Len(p.segments))

(* Drivers towards every forecast tail are warned: of each prediction and  *)
(* horizon the last sign a kilometre ahead of the tail is advised, once,   *)
(* though horizons share signs (vms_orchestrator.py:257-268).              *)
EveryTailIsCovered ==
  Published => \A c \in DOMAIN predictions :
    LET mine == {a \in advice : a.kind = "queue" /\ a.camera = c}
        far(h) == predictions[c].origin - predictions[c].lengths[h] - MinUpstream
    IN /\ Cardinality({a.vms : a \in mine}) = Cardinality(mine)
       /\ \A h \in AdviceHorizons :
            (\E g \in Gantries : Mile[g] <= far(h)) =>
              \E a \in mine :
                /\ Mile[a.vms] <= far(h)
                /\ \A g \in Gantries : Mile[g] <= far(h) => Mile[g] <= Mile[a.vms]

(* The estimate lies in its band whatever was learned to correct it, and   *)
(* since a sign is judged by the end of the band, no predicted queue is    *)
(* urgent unless it was corrected by half a minute or more                 *)
(* (vms_orchestrator.py:296-299, 628-654).                                 *)
BandHoldsEta ==
  \A a \in {r \in advice : r.kind = "queue"} :
    /\ a.lower <= a.eta /\ a.eta <= a.upper
    /\ a.urgency = "immediate" =>
         corrections[a.camera] # None /\ corrections[a.camera] <= 120 - ErrorFloor

(* The two interfaces of the operators show the same advice with the same  *)
(* marks, although one of them may compute it anew                         *)
(* (operator_api.py:405-415, 446-456).                                     *)
FeedsAgree ==
  Published => get_vms_recommendations(TickResult) = export_datex2(TickResult).speeds

(* physics_engine.py:285, "if wave speed <= 0, queue stops growing here":  *)
(* a wave too slow to grow ends the walk, not the tick.                    *)
NoTickLost == phase # "failed"
=============================================================================
