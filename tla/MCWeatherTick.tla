--------------------------- MODULE MCWeatherTick ---------------------------
(***************************************************************************)
(* One time unit is 15 minutes: hourly steps, a look-ahead of an hour, a   *)
(* poll interval and a staleness limit of half an hour.                    *)
(***************************************************************************)
EXTENDS WeatherTick

MCFreeFlow == [dry |-> 100, wet |-> 92, snow |-> 85, ice |-> 75]
MCCapacity == [dry |-> 100, wet |-> 90, snow |-> 75, ice |-> 65]
MCSteps    == {0, 4, 8, 12}
MCWeathers == {[pcat |-> "none", frost |-> FALSE], [pcat |-> "rain", frost |-> FALSE],
               [pcat |-> "rain", frost |-> TRUE]}
MCGaps     == {1, 2}
MCGantries == {1, 3}

Station(t, age, snow, rain, frozen, text) ==
  {[sampled |-> IF t < age THEN 0 ELSE t - age, zoned |-> TRUE, snow |-> snow, rain |-> rain,
    frozen |-> frozen, precipitation |-> text]}

\* Nothing; freezing rain just now; snow an hour ago, other weather since.
MCStations ==
  {[t \in 0..Horizon |-> {}],
   [t \in 0..Horizon |-> Station(t, 0, FALSE, TRUE, TRUE, "")],
   [t \in 0..Horizon |-> Station(t, 4, FALSE, FALSE, FALSE, "snow")
                           \cup Station(t, 1, FALSE, TRUE, FALSE, "other")]}

Road(text, warning, km) == [text |-> text, warning |-> warning, km |-> km]
MCRoads ==
  {{}, {Road({"wet"}, FALSE, 3)}, {Road({"wet"}, TRUE, 3)},
   {Road({}, TRUE, NoTime), Road({"snow"}, TRUE, 2)}}

ASSUME MCFalling == Falling(FreeFlowFactor) /\ Falling(CapacityFactor)
=============================================================================
