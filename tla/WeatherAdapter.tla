-------------------------- MODULE WeatherAdapter --------------------------
(***************************************************************************)
(* How src/weather_adapter.py turns the weather stations, the road         *)
(* conditions and the SMHI forecast of one tick into a surface state with  *)
(* its physics factors.  Operators only: the adapter keeps no state.       *)
(*                                                                         *)
(* Times are UTC.  The tick's own now is naive local time; Offset is how   *)
(* far local time is ahead.  A sample time with a zone is compared with a  *)
(* now that is taken for UTC, one without is compared as it stands.        *)
(***************************************************************************)
EXTENDS Integers

CONSTANTS
  StaleAfter,      \* stale_minutes of the adapter
  Offset,          \* local time minus UTC
  FreeFlowFactor,  \* WEATHER_SURFACE_FACTORS, in percent, by surface
  CapacityFactor

Surfaces == {"dry", "wet", "snow", "ice"}
SURFACE_RANK == [dry |-> 0, wet |-> 1, snow |-> 2, ice |-> 3]
Slippery == {"snow", "ice"}

ASSUME FactorsAssumption ==
  /\ StaleAfter \in Nat /\ Offset \in Int
  /\ FreeFlowFactor \in [Surfaces -> Nat] /\ CapacityFactor \in [Surfaces -> Nat]

\* The tables of config.py fall with the rank.
Falling(factor) ==
  \A s, r \in Surfaces : SURFACE_RANK[s] <= SURFACE_RANK[r] => factor[r] <= factor[s]

NoTime == -1
StationRecord == [sampled: Nat \cup {NoTime}, zoned: BOOLEAN, snow: BOOLEAN, rain: BOOLEAN,
                  frozen: BOOLEAN, precipitation: {"", "snow", "rain", "other"}]
RoadRecord == [text: SUBSET {"wet", "snow", "ice"}, warning: BOOLEAN, km: Nat \cup {NoTime}]

Worst(S) == CHOOSE s \in S \cup {"dry"} : \A r \in S \cup {"dry"} : SURFACE_RANK[r] <= SURFACE_RANK[s]

(***************************************************************************)
(* The observed sources.                                                   *)
(***************************************************************************)
_is_stale(station, now) ==
  /\ station.sampled # NoTime
  /\ now + (IF station.zoned THEN Offset ELSE 0) - station.sampled > StaleAfter

\* Any precipitation text counts on a freezing surface.
SurfaceAt(station) ==
  CASE station.snow \/ station.precipitation = "snow"                    -> "snow"
    [] ~ (station.snow \/ station.precipitation = "snow")
       /\ station.frozen /\ (station.rain \/ station.precipitation # "") -> "ice"
    [] ~ (station.snow \/ station.precipitation = "snow") /\ ~ station.frozen
       /\ (station.rain \/ station.precipitation = "rain")               -> "wet"
    [] OTHER                                                             -> "dry"

Fresh(stations, now) == {s \in stations : ~ _is_stale(s, now)}

_classify_weather(stations, now) == Worst({SurfaceAt(s) : s \in Fresh(stations, now)})

Warnings(roads) == {r \in roads : r.warning}

_classify_road_conditions(roads) ==
  LET state == Worst({Worst(r.text) : r \in roads}) IN
  IF Warnings(roads) # {} /\ state = "dry" THEN "ice" ELSE state

Observed(stations, roads, now) ==
  Worst({_classify_road_conditions(roads), _classify_weather(stations, now)})

(***************************************************************************)
(* The combination.  forecast is "dry" where there is none.                *)
(***************************************************************************)

\* Mutant: a forecast replaces what the feeds observed.
ForecastFirst(observed, forecast) == IF forecast = "dry" THEN observed ELSE forecast
Combined(observed, forecast)      == Worst({observed, forecast})

compute(stations, roads, forecast, now) ==
  LET observed == Observed(stations, roads, now)
      state    == Combined(observed, forecast)
      sampled  == IF Fresh(stations, now) = {} THEN "low" ELSE "medium"
  IN [surface_state |-> state,
      free_flow     |-> FreeFlowFactor[state],
      capacity      |-> CapacityFactor[state],
      confidence    |-> IF Warnings(roads) # {} THEN "high"
                        ELSE IF state # "dry" THEN "medium" ELSE sampled,
      proactive_halka |-> /\ forecast \in Slippery
                          /\ SURFACE_RANK[forecast] > SURFACE_RANK[observed]
                          /\ Warnings(roads) = {}]
=============================================================================
