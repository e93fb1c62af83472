---------------------------- MODULE WeatherTick ----------------------------
(***************************************************************************)
(* The weather side of a tick: stations, road conditions and forecast are  *)
(* fetched, combined by the adapter, and turned into slippery-road         *)
(* advisories for the gantries (src/tick_orchestrator.py, and              *)
(* generate_weather_recommendations of src/vms_orchestrator.py).           *)
(***************************************************************************)
EXTENDS SmhiForecast

CONSTANTS
  Gantries,     \* chainages of the E4 gantries
  Stations,     \* sets of station records a tick may receive, as functions of its time
  Roads,        \* sets of road-condition records a tick may receive
  SoonLead,     \* lead up to which an advisory is "soon" (30 minutes)
  TickGaps,     \* distances between ticks
  Horizon,      \* bound: time of the last tick
  MaxFaults     \* bound: failed or late fetches, and restarts

ASSUME TickAssumption ==
  /\ Gantries \subseteq Nat /\ IsFiniteSet(Gantries) /\ Gantries # {}
  /\ \A t \in 0..Horizon, f \in Stations : f[t] \subseteq StationRecord
  /\ Roads \subseteq SUBSET RoadRecord
  /\ SoonLead \in Nat /\ TickGaps \subseteq Nat \ {0} /\ Horizon \in Nat /\ MaxFaults \in Nat

VARIABLES
  now,
  weather_records, road_condition_records, weather_forecast,  \* what this tick received
  adjustment,   \* weather_adjustment of this tick
  advisories,   \* slippery-road recommendations of this tick
  asked,        \* ghost: time of the last network fetch
  faults

tickVars == <<now, weather_records, road_condition_records, weather_forecast,
              adjustment, advisories, asked, faults>>
vars == <<sourceVars, tickVars>>

Adjustments == [surface_state: Surfaces, free_flow: Nat, capacity: Nat,
                confidence: {"high", "medium", "low"}, proactive_halka: BOOLEAN]
Advisory == [vms: Gantries, message: {"HALKA - VARNING", "HALKRISK"},
             urgency: {"immediate", "soon", "advisory"}]

TypeOK ==
  /\ SourceTypeOK
  /\ now \in 0..Horizon
  /\ weather_records \subseteq StationRecord /\ road_condition_records \subseteq RoadRecord
  /\ weather_forecast \in Forecast \cup {NoForecast}
  /\ adjustment \in Adjustments
  /\ advisories \subseteq Advisory
  /\ asked \in Nat \cup {NoTime}
  /\ faults \in 0..MaxFaults

(***************************************************************************)
(* Advisories.                                                             *)
(***************************************************************************)
Distance(a, b) == IF a < b THEN b - a ELSE a - b

\* The first nearest in order of chainage; a warning without a place gets the southernmost.
FirstGantry == Least(Gantries)
_find_weather_warning_vms(road) ==
  IF road.km = NoTime THEN FirstGantry
  ELSE Least({g \in Gantries : \A h \in Gantries : Distance(g, road.km) <= Distance(h, road.km)})

Warned(roads) ==
  {[vms |-> _find_weather_warning_vms(r), message |-> "HALKA - VARNING", urgency |-> "immediate"] :
     r \in Warnings(roads)}

\* Mutant: one advisory per tick, and a road warning of any kind comes first.
PreStagedIfQuiet(roads, adj, forecast) ==
  IF adj.proactive_halka /\ roads = {}
  THEN {[vms |-> FirstGantry, message |-> "HALKRISK",
         urgency |-> IF forecast.onset <= SoonLead THEN "soon" ELSE "advisory"]}
  ELSE {}

PreStaged(roads, adj, forecast) ==
  IF adj.proactive_halka /\ FirstGantry \notin {a.vms : a \in Warned(roads)}
  THEN {[vms |-> FirstGantry, message |-> "HALKRISK",
         urgency |-> IF forecast.onset <= SoonLead THEN "soon" ELSE "advisory"]}
  ELSE {}

generate_weather_recommendations(roads, adj, forecast) ==
  Warned(roads) \cup PreStaged(roads, adj, forecast)

(***************************************************************************)
(* The actions.                                                            *)
(***************************************************************************)
Init ==
  /\ SourceInit
  /\ now = 0
  /\ weather_records = {} /\ road_condition_records = {} /\ weather_forecast = NoForecast
  /\ adjustment = compute({}, {}, "dry", 0)
  /\ advisories = {}
  /\ asked = NoTime
  /\ faults = 0

TickTimes == {t \in {now + g : g \in TickGaps} : t <= Horizon}

\* What the tick does with the forecast it was given.
Analyse(t, stations, roads, forecast) ==
  LET adj == compute(stations, roads, forecast.surface_state, t) IN
  /\ now' = t
  /\ weather_records' = stations
  /\ road_condition_records' = roads
  /\ weather_forecast' = forecast
  /\ adjustment' = adj
  /\ advisories' = generate_weather_recommendations(roads, adj, forecast)

QuietTick(t, stations, roads) ==
  /\ ServeCached(t)
  /\ Analyse(t, stations, roads, _cached)
  /\ UNCHANGED <<asked, faults>>

FetchTick(t, stations, roads) ==
  /\ Fetch(t)
  /\ Analyse(t, stations, roads, _cached')
  /\ asked' = t
  /\ UNCHANGED faults

FailedFetchTick(t, stations, roads) ==
  /\ faults < MaxFaults
  /\ FetchFails(t)
  /\ Analyse(t, stations, roads, _cached)
  /\ asked' = t
  /\ faults' = faults + 1

\* The future times out: the tick goes on without a forecast, whatever becomes of the cache.
LateFetchTick(t, stations, roads) ==
  /\ faults < MaxFaults
  /\ Fetch(t) \/ FetchFails(t)
  /\ Analyse(t, stations, roads, NoForecast)
  /\ asked' = t
  /\ faults' = faults + 1

\* A new process has a new source.
Restart ==
  /\ faults < MaxFaults
  /\ _cached' = NoForecast /\ _fetched_at_utc' = NoTime
  /\ asked' = NoTime
  /\ faults' = faults + 1
  /\ UNCHANGED <<world, now, weather_records, road_condition_records, weather_forecast,
                 adjustment, advisories>>

Next ==
  \/ \E t \in TickTimes, f \in Stations, roads \in Roads :
       \/ QuietTick(t, f[t], roads)
       \/ FetchTick(t, f[t], roads)
       \/ FailedFetchTick(t, f[t], roads)
       \/ LateFetchTick(t, f[t], roads)
  \/ Restart

Spec == Init /\ [][Next]_vars

(***************************************************************************)
(* Properties.                                                             *)
(***************************************************************************)

(* Nothing slippery comes as a surprise: unless the last fetch failed, a   *)
(* tick with a forecast already assumes the surface of every step that is  *)
(* closer than the look-ahead minus the poll interval, although its cache  *)
(* may be as old as that.                                                  *)
Anticipated ==
  weather_forecast # NoForecast /\ asked # NoTime /\ asked = _fetched_at_utc =>
    \A s \in Steps :
       now <= s /\ s <= now + Lookahead - PollInterval =>
         SURFACE_RANK[_classify_step(world[s])] <= SURFACE_RANK[adjustment.surface_state]

(* Escalation only: with its forecast, stale or not, a tick never assumes  *)
(* more capacity or speed than it would have without.                      *)
EscalationOnly ==
  LET without == compute(weather_records, road_condition_records, "dry", now) IN
  /\ adjustment.capacity <= without.capacity
  /\ adjustment.free_flow <= without.free_flow

(* A slippery road ahead reaches the drivers: when the forecast is snow or *)
(* ice and the feeds show less, the tick recommends some advisory.         *)
NoticeGiven ==
  weather_forecast.surface_state \in Slippery
  /\ SURFACE_RANK[Observed(weather_records, road_condition_records, now)]
       < SURFACE_RANK[weather_forecast.surface_state]
  => advisories # {}

(* weather_adapter.py:71, observations "are ignored when all samples are   *)
(* stale", and only then: an icy sample just taken is counted.             *)
FreshSampleCounts ==
  \A s \in weather_records :
     s.sampled = now /\ SurfaceAt(s) = "ice" => adjustment.surface_state = "ice"
=============================================================================
