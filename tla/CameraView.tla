----------------------------- MODULE CameraView -----------------------------
(***************************************************************************)
(* What a camera makes of a picture: src/vision_engine.py without the      *)
(* sensor it is never given by the service, and the part of                *)
(* src/fusion_pipeline.py that reduces the roads in view to one state.     *)
(*                                                                         *)
(* A picture is black or, for each region of interest of its camera (one,  *)
(* when none is configured), the sequence of boxes found there.  Densities *)
(* are in hundredths of veh/km/lane, flows in veh/h, speeds in km/h,       *)
(* lengths in metres, confidences and factors in percent; a division       *)
(* rounds down.                                                            *)
(***************************************************************************)
EXTENDS Integers, Sequences, FiniteSets, FiniteSetsExt, Functions

CONSTANTS
  Rois,          \* camera to its regions: [road, lanes, metres, quality]
  Lanes,         \* CameraMetadata.num_lanes, and default_total_lanes of a situation
  RoiMetres,     \* DEFAULT_ROI_LENGTH_KM
  Jam,           \* JAM_DENSITY_VEH_KM_LANE
  Critical,      \* K_CRITICAL_VEH_KM_LANE, in hundredths
  QCap,          \* Q_CAP_VPH_PER_LANE
  FreeFlow,      \* FREE_FLOW_SPEED_KMH
  Black          \* the picture of a camera that is off

Roads == {"northbound", "southbound", "other"}
ROI   == [road: Roads, lanes: Nat \ {0}, metres: Nat \ {0}, quality: 1..3]
Box   == [wide: BOOLEAN, confidence: 0..100]

Least(x, y)    == IF x <= y THEN x ELSE y
Greatest(x, y) == IF x <= y THEN y ELSE x

\* The sum of the values of a function.
Total(w) == MapThenSumSet(LAMBDA x : w[x], DOMAIN w)

Wide(boxes) == {i \in DOMAIN boxes : boxes[i].wide}

MeanConfidence(boxes) ==
  IF boxes = <<>> THEN 0
  ELSE Total([i \in DOMAIN boxes |-> boxes[i].confidence]) \div Len(boxes)

_estimate_density(count, lanes, metres) ==
  Least((count * 100000) \div (metres * lanes), 100 * Jam)

\* Flow of a dense road, q = k v, up to its capacity.
Throughput(density, lanes, speed) == Least((density * lanes * speed) \div 100, QCap * lanes)

Flow(density, lanes) ==
  IF density > Critical THEN Throughput(density, lanes, FreeFlow) ELSE QCap * lanes

_check_anomalies(boxes, density) ==
  IF Wide(boxes) # {} THEN <<"aspect ratio">>
  ELSE IF density > Critical THEN <<"density">> ELSE <<>>

_estimate_blocked_lanes(boxes, lanes) == Least(Cardinality(Wide(boxes)), lanes - 1)

(***************************************************************************)
(* A camera without regions.                                               *)
(***************************************************************************)
_handle_black_image ==
  [count |-> 0, blocked |-> 0, lanes |-> Lanes, capacity |-> 0, density |-> 0,
   direction |-> "none", anomaly |-> FALSE, reason |-> <<"black image">>, confidence |-> 0,
   quality |-> 1, confirmed |-> FALSE, situations |-> {}]

analyze_array(boxes) ==
  LET density == _estimate_density(Len(boxes), Lanes, RoiMetres)
      reason  == _check_anomalies(boxes, density)
      blocked == _estimate_blocked_lanes(boxes, Lanes)
      flow    == Flow(density, Lanes)
  IN [_handle_black_image EXCEPT
        !.count = Len(boxes), !.blocked = blocked, !.density = density,
        !.capacity = (flow * (Lanes - blocked)) \div Lanes,
        !.anomaly = (reason # <<>>), !.reason = reason, !.confidence = MeanConfidence(boxes)]

(***************************************************************************)
(* A camera with regions, one road each.                                   *)
(***************************************************************************)
Segment(roi, boxes) ==
  LET density == _estimate_density(Len(boxes), roi.lanes, roi.metres)
      reason  == _check_anomalies(boxes, density)
  IN [road |-> roi.road, lanes |-> roi.lanes, quality |-> roi.quality,
      count |-> Len(boxes), density |-> density, capacity |-> Flow(density, roi.lanes),
      anomaly |-> reason # <<>>, reason |-> reason, confidence |-> MeanConfidence(boxes)]

BlackSegment(roi) ==
  [Segment(roi, <<>>) EXCEPT !.capacity = 0]

analyze_multi_roi(rois, picture) ==
  [i \in DOMAIN rois |-> IF picture = Black THEN BlackSegment(rois[i])
                         ELSE Segment(rois[i], picture[i])]

\* Which roads a camera speaks for: the northbound ones; none if it only
\* looks at the other carriageway; all if it knows no directions.
\* Mutant: all roads in view.
EveryRoad(segments) == DOMAIN segments
PhysicsRoads(segments) ==
  LET on(road) == {i \in DOMAIN segments : segments[i].road = road} IN
  IF on("northbound") # {} THEN on("northbound")
  ELSE IF on("southbound") # {} THEN {} ELSE DOMAIN segments

\* At most one road of a camera is northbound in the configuration, so one of
\* the reasons stands for all.
_aggregate_multi_roi_capacity(segments) ==
  LET roads     == PhysicsRoads(segments)
      lanes     == Total([i \in roads |-> segments[i].lanes])
      anomalous == {i \in roads : segments[i].anomaly}
  IN [count      |-> Total([i \in roads |-> segments[i].count]),
      blocked    |-> 0,
      lanes      |-> IF lanes = 0 THEN Lanes ELSE lanes,
      capacity   |-> Total([i \in roads |-> segments[i].capacity]),
      density    |-> Max({0} \cup {segments[i].density : i \in roads}),
      direction  |-> IF \E i \in DOMAIN segments : segments[i].road # "other"
                     THEN "northbound" ELSE "none",
      anomaly    |-> anomalous # {},
      reason     |-> IF anomalous = {} THEN <<>> ELSE segments[CHOOSE i \in anomalous : TRUE].reason,
      confidence |-> IF roads = {} THEN 0
                     ELSE Total([i \in roads |-> segments[i].confidence]) \div Cardinality(roads),
      quality    |-> IF roads = {} THEN 1 ELSE Min({segments[i].quality : i \in roads}),
      confirmed  |-> FALSE, situations |-> {}]

\* The state of a camera whose picture could be fetched and decoded.
_process_camera(camera, picture) ==
  IF Rois[camera] # <<>>
  THEN _aggregate_multi_roi_capacity(analyze_multi_roi(Rois[camera], picture))
  ELSE IF picture = Black THEN _handle_black_image ELSE analyze_array(picture[1])
=============================================================================
