----------------------- MODULE MCTravelTimeCalibrator -----------------------
(***************************************************************************)
(* Units of five minutes.  Two routes share a corridor of twelve; with     *)
(* both in the answer the next one upstream of c1 begins behind its place, *)
(* with one alone it lies elsewhere.  Sparse answers, answers in another   *)
(* order and answers without lengths are among the readings.               *)
(***************************************************************************)
EXTENDS TravelTimeCalibrator, TLC

CONSTANTS c1, c2, r1, r2

MCCameras  == {c1, c2}
MCRoutes   == {r1, r2}
MCChainage == (c1 :> 8) @@ (c2 :> 4)
MCWaves    == {10}
MCGaps     == {1, 4}

R(route, status, speed, length) ==
  [route |-> route, status |-> status, speed |-> speed, length |-> length]
MCReadings ==
  {<<R(r1, "freeflow", 80, 1), R(r2, "freeflow", 40, 1)>>,
   <<R(r1, "congested", 20, 1), R(r2, "freeflow", 90, 1)>>,
   <<R(r1, "congested", 20, 1)>>,
   <<R(r2, "congested", 20, 1), R(r1, "unknown", 0, 1)>>,
   <<R(r1, "freeflow", 90, 0)>>}
=============================================================================
