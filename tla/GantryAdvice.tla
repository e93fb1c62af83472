---------------------------- MODULE GantryAdvice ----------------------------
(***************************************************************************)
(* src/vms_orchestrator.py without the slippery-road advisories (those are *)
(* in WeatherTick): which signs should warn of a queue, how soon, and what *)
(* they should show.  Times are in seconds.                                *)
(***************************************************************************)
EXTENDS QueuePhysics

CONSTANTS
  Gantries, Mile,   \* the signs and their chainages
  AdviceHorizons,   \* DEFAULT_TIME_HORIZONS of the orchestrator, in minutes
  MinUpstream,      \* MIN_UPSTREAM_DISTANCE_KM, in metres
  ErrorFloor        \* REPLAY_ERROR_FLOOR_MINUTES, in seconds

\* Every horizon of the orchestrator is one of the engine, so the lengths are there.
predict_queue_tail_chainage(prediction, h) == prediction.origin - prediction.lengths[h]

\* The last sign before the tail; none if all are beyond it.
find_upstream_vms(tail) ==
  LET before == {g \in Gantries : Mile[g] <= tail - MinUpstream} IN
  IF before = {} THEN None
  ELSE CHOOSE g \in before : \A o \in before : Mile[o] <= Mile[g]

Seconds(distance, growth) == (distance * 360) \div growth

_classify_urgency(eta) ==
  IF eta <= 120 THEN "immediate" ELSE IF eta <= 300 THEN "soon" ELSE "advisory"

_build_message(urgency, surface) ==
  [halka |-> surface \in {"snow", "ice"},
   speed |-> CASE urgency = "immediate" -> 50 [] urgency = "soon" -> 70 [] OTHER -> None]

(***************************************************************************)
(* The time until the queue reaches a sign.  Every prediction grows, so    *)
(* there is one.  A correction is None or a number of seconds.             *)
(***************************************************************************)
_eta_interval_minutes(prediction, g, h, eta) ==
  LET until(length) ==
        Seconds(Greatest(prediction.origin - length - Mile[g], 0), prediction.growth)
  IN [lower |-> Least(until(prediction.upper[h]), Greatest(eta - ErrorFloor, 0)),
      upper |-> Greatest(until(prediction.lower[h]), eta + ErrorFloor)]

\* Mutant: the bounds are not moved with the estimate.
EtaAlone(eta, band, correction) ==
  [eta   |-> IF correction = None THEN eta ELSE Greatest(eta + correction, 0),
   lower |-> band.lower, upper |-> band.upper]
_corrected_eta_interval(eta, band, correction) ==
  LET moved(t) == IF correction = None THEN t ELSE Greatest(t + correction, 0) IN
  [eta |-> moved(eta), lower |-> moved(band.lower), upper |-> moved(band.upper)]

\* A sign is advised once for a prediction, at the first horizon that names it.
\* Mutant: only the first horizon is looked at.
NamesAtFirst(prediction, h, g) ==
  /\ find_upstream_vms(predict_queue_tail_chainage(prediction, h)) = g
  /\ \A k \in AdviceHorizons : k >= h
Names(prediction, h, g) ==
  /\ find_upstream_vms(predict_queue_tail_chainage(prediction, h)) = g
  /\ \A k \in AdviceHorizons :
       k < h => find_upstream_vms(predict_queue_tail_chainage(prediction, k)) # g

Advice(prediction, correction, surface, h, g) ==
  LET away    == predict_queue_tail_chainage(prediction, h) - Mile[g]
      eta     == Seconds(away, prediction.growth)
      times   == _corrected_eta_interval(
                   eta, _eta_interval_minutes(prediction, g, h, eta), correction)
      urgency == _classify_urgency(times.upper)
  IN [kind |-> "queue", camera |-> prediction.camera, vms |-> g, horizon |-> h, distance |-> away,
      eta |-> times.eta, lower |-> times.lower, upper |-> times.upper,
      urgency |-> urgency, message |-> _build_message(urgency, surface),
      told |-> _classify_urgency(times.eta)]   \* what the text advises: _build_narrative

generate_recommendations(prediction, correction, surface) ==
  {Advice(prediction, correction, surface, hg[1], hg[2]) :
     hg \in {x \in AdviceHorizons \X Gantries : Names(prediction, x[1], x[2])}}

(***************************************************************************)
(* A severe drop of the speed at a station, now: the nearest sign at once. *)
(***************************************************************************)
find_nearest_vms_by_chainage(place) ==
  CHOOSE g \in Gantries : \A o \in Gantries :
    LET x == Distance(Mile[g], place)  y == Distance(Mile[o], place) IN
    x < y \/ (x = y /\ Mile[g] <= Mile[o])

generate_sensor_recommendations(anomalies) ==
  {[kind |-> "sensor", vms |-> g, urgency |-> "immediate", message |-> _build_message("immediate", None)] :
     g \in {find_nearest_vms_by_chainage(SitePlace[s]) :
              s \in {t \in DOMAIN anomalies : anomalies[t].severe}}}
=============================================================================
