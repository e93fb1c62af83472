------------------------ MODULE WeatherTick_proofs ------------------------
(***************************************************************************)
(* Proofs about the weather side of a tick, for every poll interval,       *)
(* look-ahead, published series, table of factors and input.               *)
(***************************************************************************)
EXTENDS WeatherTick, WellFoundedInduction, TLAPS

(***************************************************************************)
(* Operators.                                                              *)
(***************************************************************************)

(* Worst picks a surface of the set, or dry, that no member outranks.      *)
LEMMA WorstOutranks ==
  ASSUME NEW S \in SUBSET Surfaces
  PROVE  /\ Worst(S) \in S \cup {"dry"}
         /\ Worst(S) \in Surfaces
         /\ \A r \in S \cup {"dry"} : SURFACE_RANK[r] <= SURFACE_RANK[Worst(S)]
<1> DEFINE T == S \cup {"dry"}
           Top(s) == \A r \in T : SURFACE_RANK[r] <= SURFACE_RANK[s]
<1>1. \E s \in T : Top(s)
  <2>1. CASE "ice" \in T
    BY <2>1 DEF Surfaces, SURFACE_RANK
  <2>2. CASE "ice" \notin T /\ "snow" \in T
    BY <2>2 DEF Surfaces, SURFACE_RANK
  <2>3. CASE "ice" \notin T /\ "snow" \notin T /\ "wet" \in T
    BY <2>3 DEF Surfaces, SURFACE_RANK
  <2>4. CASE T = {"dry"}
    BY <2>4 DEF Surfaces, SURFACE_RANK
  <2> QED
    BY <2>1, <2>2, <2>3, <2>4 DEF Surfaces
<1>2. Worst(S) \in T /\ Top(Worst(S))
  BY <1>1 DEF Worst
<1> QED
  BY <1>2 DEF Surfaces

(* A set of naturals that is not empty has a least element.                *)
LEMMA LeastExists ==
  ASSUME NEW S \in SUBSET Nat, S # {}
  PROVE  Least(S) \in S /\ \A r \in S : Least(S) <= r
<1>1. PICK x \in S : \A y \in S : ~ (<<y, x>> \in OpToRel(<, Nat))
  BY WFMin, NatLessThanWellFounded
<1>2. \A y \in S : x <= y
  <2> SUFFICES ASSUME NEW y \in S, y < x
               PROVE  FALSE
    OBVIOUS
  <2>1. <<y, x>> \in OpToRel(<, Nat)
    BY DEF OpToRel
  <2> QED
    BY <1>1, <2>1
<1> QED
  BY <1>1, <1>2 DEF Least

(* So has a bounded one a greatest.                                        *)
LEMMA GreatestExists ==
  ASSUME NEW bound \in Nat, NEW S \in SUBSET (0..bound), S # {}
  PROVE  Greatest(S) \in S /\ \A r \in S : r <= Greatest(S)
<1> DEFINE Mirror == {bound - s : s \in S}
<1>1. Mirror \in SUBSET Nat /\ Mirror # {}
  <2>1. \A s \in S : s \in 0..bound /\ bound - s \in Nat
    OBVIOUS
  <2>2. PICK s \in S : TRUE
    OBVIOUS
  <2> QED
    BY <2>1, <2>2
<1>2. PICK s \in S : Least(Mirror) = bound - s
  BY <1>1, LeastExists
<1>3. \A r \in S : r <= s
  <2> TAKE r \in S
  <2>1. bound - r \in Mirror
    OBVIOUS
  <2>2. bound - s <= bound - r
    BY <1>1, <1>2, <2>1, LeastExists
  <2> QED
    BY <2>2
<1> QED
  BY <1>3 DEF Greatest

(* Every source classifies into a surface.                                 *)
LEMMA SourcesAreSurfaces ==
  /\ \A w \in Weather : _classify_step(w) \in Surfaces
  /\ \A stations \in SUBSET StationRecord, roads \in SUBSET RoadRecord, t \in Nat :
       Observed(stations, roads, t) \in Surfaces
<1>1. \A w \in Weather : _classify_step(w) \in Surfaces
  BY DEF _classify_step, Surfaces
<1>2. ASSUME NEW stations \in SUBSET StationRecord, NEW roads \in SUBSET RoadRecord, NEW t \in Nat
      PROVE  Observed(stations, roads, t) \in Surfaces
  <2>1. _classify_weather(stations, t) \in Surfaces
    <3>1. \A s \in stations : SurfaceAt(s) \in Surfaces
      BY DEF SurfaceAt, Surfaces
    <3>2. {SurfaceAt(s) : s \in Fresh(stations, t)} \in SUBSET Surfaces
      BY <3>1 DEF Fresh
    <3> QED
      BY <3>2, WorstOutranks DEF _classify_weather
  <2>2. _classify_road_conditions(roads) \in Surfaces
    <3>1. \A r \in roads : Worst(r.text) \in Surfaces
      BY WorstOutranks DEF RoadRecord, Surfaces
    <3>2. {Worst(r.text) : r \in roads} \in SUBSET Surfaces
      BY <3>1
    <3>3. Worst({Worst(r.text) : r \in roads}) \in Surfaces
      BY <3>2, WorstOutranks
    <3> QED
      BY <3>3 DEF _classify_road_conditions, Surfaces
  <2> QED
    BY <2>1, <2>2, WorstOutranks DEF Observed
<1> QED
  BY <1>1, <1>2

(* The adapter's answer: at least as bad as either source, with that       *)
(* surface's factors.                                                      *)
LEMMA AdapterAnswers ==
  ASSUME NEW stations \in SUBSET StationRecord, NEW roads \in SUBSET RoadRecord,
         NEW forecast \in Surfaces, NEW t \in Nat
  PROVE  LET adj == compute(stations, roads, forecast, t) IN
         /\ adj \in Adjustments
         /\ adj.surface_state = Worst({Observed(stations, roads, t), forecast})
         /\ SURFACE_RANK[Observed(stations, roads, t)] <= SURFACE_RANK[adj.surface_state]
         /\ SURFACE_RANK[forecast] <= SURFACE_RANK[adj.surface_state]
         /\ adj.free_flow = FreeFlowFactor[adj.surface_state]
         /\ adj.capacity = CapacityFactor[adj.surface_state]
<1> DEFINE observed == Observed(stations, roads, t)
           state == Worst({observed, forecast})
<1>1. observed \in Surfaces
  BY SourcesAreSurfaces
<1>2. /\ state \in Surfaces
      /\ SURFACE_RANK[observed] <= SURFACE_RANK[state] /\ SURFACE_RANK[forecast] <= SURFACE_RANK[state]
  BY <1>1, WorstOutranks
<1>3. FreeFlowFactor[state] \in Nat /\ CapacityFactor[state] \in Nat
  BY <1>2, FactorsAssumption
<1> HIDE DEF observed, state
<1> QED
  BY <1>2, <1>3 DEF compute, Combined, Adjustments, observed, state

(* Without a forecast the surface is what the feeds observed.              *)
LEMMA WithoutForecast ==
  ASSUME NEW stations \in SUBSET StationRecord, NEW roads \in SUBSET RoadRecord, NEW t \in Nat
  PROVE  compute(stations, roads, "dry", t).surface_state = Observed(stations, roads, t)
<1>1. Observed(stations, roads, t) \in Surfaces
  BY SourcesAreSurfaces
<1>2. PICK o \in Surfaces : o = Observed(stations, roads, t)
  BY <1>1
<1>3. Worst({o, "dry"}) = o
  <2>1. /\ Worst({o, "dry"}) \in {o, "dry"}
        /\ SURFACE_RANK[o] <= SURFACE_RANK[Worst({o, "dry"})]
    BY WorstOutranks DEF Surfaces
  <2>2. o # "dry" => SURFACE_RANK[o] > 0
    BY DEF Surfaces, SURFACE_RANK
  <2>3. SURFACE_RANK["dry"] = 0
    BY DEF SURFACE_RANK
  <2>4. SURFACE_RANK[o] \in Int
    BY DEF Surfaces, SURFACE_RANK
  <2> QED
    BY <2>1, <2>2, <2>3, <2>4
<1> QED
  BY <1>2, <1>3, AdapterAnswers DEF Surfaces

(***************************************************************************)
(* Invariants.                                                             *)
(***************************************************************************)

\* What a tick shows is computed from what it received.
Derived ==
  /\ adjustment = compute(weather_records, road_condition_records, weather_forecast.surface_state, now)
  /\ advisories = generate_weather_recommendations(road_condition_records, adjustment, weather_forecast)

\* The cache is no worse informed than the window it was made from.
CacheCoversWindow ==
  _cached # NoForecast =>
    /\ _fetched_at_utc \in 0..now
    /\ \A s \in InWindow(_fetched_at_utc) :
         SURFACE_RANK[_classify_step(world[s])] <= SURFACE_RANK[_cached.surface_state]

\* The same of the forecast of the tick, as long as no fetch has failed since.
TickCoversWindow ==
  weather_forecast # NoForecast /\ asked # NoTime /\ asked = _fetched_at_utc =>
    /\ _fetched_at_utc \in 0..now
    /\ now - _fetched_at_utc < PollInterval
    /\ \A s \in InWindow(_fetched_at_utc) :
         SURFACE_RANK[_classify_step(world[s])] <= SURFACE_RANK[adjustment.surface_state]

Asked == asked = NoTime \/ asked \in 0..now

IInv == TypeOK /\ Derived /\ CacheCoversWindow /\ TickCoversWindow /\ Asked

(* A parsed forecast is a forecast, and no step of its window outranks it. *)
LEMMA ParseCovers ==
  ASSUME NEW t \in Nat, world \in [Steps -> Weathers], InWindow(t) # {}
  PROVE  /\ parse(t) \in Forecast
         /\ \A s \in InWindow(t) : SURFACE_RANK[_classify_step(world[s])] <= SURFACE_RANK[parse(t).surface_state]
<1> DEFINE ahead == InWindow(t)
           classes == {_classify_step(world[s]) : s \in ahead}
           state == Worst(classes)
           first == {s \in ahead : _classify_step(world[s]) = state}
<1>1. ahead \subseteq Steps /\ \A s \in ahead : s \in t..(t + Lookahead) /\ s \in 0..(t + Lookahead)
  BY SourceAssumption DEF InWindow
<1>2. \A s \in ahead : _classify_step(world[s]) \in Surfaces
  BY <1>1, SourceAssumption, SourcesAreSurfaces
<1>3. classes \in SUBSET Surfaces
  BY <1>2
<1>4. /\ state \in classes \cup {"dry"} /\ state \in Surfaces
      /\ \A r \in classes \cup {"dry"} : SURFACE_RANK[r] <= SURFACE_RANK[state]
  BY <1>3, WorstOutranks
<1>5. state # "dry" => Least(first) - t \in Nat
  <2> SUFFICES ASSUME state # "dry"
               PROVE  Least(first) - t \in Nat
    OBVIOUS
  <2>1. first # {}
    BY <1>4
  <2>2. first \in SUBSET Nat
    BY <1>1, SourceAssumption
  <2>3. Least(first) \in first
    BY <2>1, <2>2, LeastExists
  <2> QED
    BY <2>3, <1>1
<1>6. Greatest(ahead) \in Nat
  <2>1. t + Lookahead \in Nat /\ ahead \in SUBSET (0..(t + Lookahead)) /\ ahead # {}
    BY <1>1, SourceAssumption
  <2>2. Greatest(ahead) \in ahead
    BY <2>1, GreatestExists
  <2> QED
    BY <2>1, <2>2
<1>7. parse(t) = [surface_state |-> state, onset |-> IF state = "dry" THEN NoTime ELSE Least(first) - t,
                  valid_until |-> Greatest(ahead)]
  BY DEF parse
<1>8. parse(t) \in Forecast
  <2> HIDE DEF ahead, classes, state, first
  <2> QED
    BY <1>4, <1>5, <1>6, <1>7 DEF Forecast
<1>9. \A s \in ahead : SURFACE_RANK[_classify_step(world[s])] <= SURFACE_RANK[parse(t).surface_state]
  BY <1>4, <1>7
<1> QED
  BY <1>8, <1>9

(* The recommended gantries exist.                                         *)
LEMMA AdvisoriesTyped ==
  ASSUME NEW roads \in SUBSET RoadRecord, NEW adj \in Adjustments, NEW forecast
  PROVE  generate_weather_recommendations(roads, adj, forecast) \subseteq Advisory
<1>1. FirstGantry \in Gantries
  BY TickAssumption, LeastExists DEF FirstGantry
<1>2. ASSUME NEW r \in roads
      PROVE  _find_weather_warning_vms(r) \in Gantries
  <2>1. CASE r.km = NoTime
    BY <1>1, <2>1 DEF _find_weather_warning_vms
  <2>2. CASE r.km # NoTime
    <3> DEFINE Distances == {Distance(g, r.km) : g \in Gantries}
               Near == {g \in Gantries : \A h \in Gantries : Distance(g, r.km) <= Distance(h, r.km)}
    <3>1. r.km \in Nat
      BY <2>2 DEF RoadRecord
    <3>2. \A g \in Gantries : Distance(g, r.km) \in Nat
      BY <3>1, TickAssumption DEF Distance
    <3>3. Distances \in SUBSET Nat /\ Distances # {}
      BY <3>2, <1>1
    <3>4. Least(Distances) \in Distances /\ \A d \in Distances : Least(Distances) <= d
      BY <3>3, LeastExists
    <3>5. PICK g \in Gantries : Distance(g, r.km) = Least(Distances)
      BY <3>4
    <3>8. g \in Near
      BY <3>4, <3>5
    <3>6. Near \in SUBSET Nat /\ Near # {}
      BY <3>8, TickAssumption
    <3>7. Least(Near) \in Near
      BY <3>6, LeastExists
    <3> QED
      BY <2>2, <3>7 DEF _find_weather_warning_vms
  <2> QED
    BY <2>1, <2>2
<1>3. \A g \in Gantries, m \in {"HALKA - VARNING", "HALKRISK"}, u \in {"immediate", "soon", "advisory"} :
        [vms |-> g, message |-> m, urgency |-> u] \in Advisory
  BY DEF Advisory
<1>4. Warned(roads) \subseteq Advisory
  <2> SUFFICES ASSUME NEW a \in Warned(roads)
               PROVE  a \in Advisory
    OBVIOUS
  <2>1. PICK r \in Warnings(roads) :
          a = [vms |-> _find_weather_warning_vms(r), message |-> "HALKA - VARNING", urgency |-> "immediate"]
    BY DEF Warned
  <2>2. r \in roads
    BY DEF Warnings
  <2> QED
    BY <1>2, <1>3, <2>1, <2>2
<1>5. PreStaged(roads, adj, forecast) \subseteq Advisory
  <2> DEFINE urgency == IF forecast.onset <= SoonLead THEN "soon" ELSE "advisory"
  <2>1. urgency \in {"immediate", "soon", "advisory"}
    OBVIOUS
  <2> HIDE DEF urgency
  <2>2. [vms |-> FirstGantry, message |-> "HALKRISK", urgency |-> urgency] \in Advisory
    BY <1>1, <1>3, <2>1
  <2>3. PreStaged(roads, adj, forecast) \subseteq {[vms |-> FirstGantry, message |-> "HALKRISK", urgency |-> urgency]}
    BY DEF PreStaged, urgency
  <2> QED
    BY <2>2, <2>3
<1> QED
  BY <1>4, <1>5 DEF generate_weather_recommendations

(* A tick that analyses typed inputs leaves a typed, derived result.       *)
LEMMA AnalyseDerives ==
  ASSUME NEW t \in 0..Horizon, NEW stations \in SUBSET StationRecord, NEW roads \in SUBSET RoadRecord,
         NEW forecast \in Forecast \cup {NoForecast}, Analyse(t, stations, roads, forecast)
  PROVE  /\ Derived'
         /\ now' = t /\ weather_forecast' = forecast
         /\ weather_records' \subseteq StationRecord /\ road_condition_records' \subseteq RoadRecord
         /\ adjustment' \in Adjustments
         /\ SURFACE_RANK[forecast.surface_state] <= SURFACE_RANK[adjustment'.surface_state]
         /\ adjustment'.surface_state \in Surfaces
         /\ advisories' \subseteq Advisory
<1>1. forecast.surface_state \in Surfaces
  BY DEF Forecast, NoForecast, Surfaces
<1>2. adjustment' = compute(stations, roads, forecast.surface_state, t)
  BY DEF Analyse
<1>3. t \in Nat
  BY TickAssumption
<1>4. adjustment' \in Adjustments /\ SURFACE_RANK[forecast.surface_state] <= SURFACE_RANK[adjustment'.surface_state]
  BY <1>1, <1>2, <1>3, AdapterAnswers
<1>5. advisories' \subseteq Advisory
  BY <1>2, <1>4, AdvisoriesTyped DEF Analyse
<1>6. Derived'
  BY DEF Derived, Analyse
<1> QED
  BY <1>4, <1>5, <1>6 DEF Analyse, Adjustments

LEMMA InitiallyInvariant == Init => IInv
<1> SUFFICES ASSUME Init
             PROVE  IInv
  OBVIOUS
<1>1. compute({}, {}, "dry", 0) \in Adjustments
  BY AdapterAnswers DEF Surfaces
<1>2. ~ compute({}, {}, "dry", 0).proactive_halka
  BY DEF compute, Slippery
<1>3. TypeOK
  BY <1>1, TickAssumption, SourceAssumption DEF Init, SourceInit, TypeOK, SourceTypeOK
<1>4. Derived
  BY <1>2 DEF Init, Derived, NoForecast, generate_weather_recommendations, Warned, Warnings, PreStaged
<1> QED
  BY <1>3, <1>4 DEF Init, SourceInit, IInv, CacheCoversWindow, TickCoversWindow, Asked

(* No action leaves the invariant.                                         *)
LEMMA StepsKeepInvariant == IInv /\ [Next]_vars => IInv'
<1> SUFFICES ASSUME IInv, [Next]_vars
             PROVE  IInv'
  OBVIOUS
<1> USE DEF IInv
<1>0. /\ now \in Nat /\ world \in [Steps -> Weathers]
      /\ NoTime \notin Nat /\ \A t \in TickTimes : t \in 0..Horizon /\ now < t
  <2>1. now \in Nat /\ world \in [Steps -> Weathers] /\ NoTime \notin Nat
    BY TickAssumption DEF TypeOK, SourceTypeOK, NoTime
  <2>2. ASSUME NEW t \in TickTimes
        PROVE  t \in 0..Horizon /\ now < t
    <3>1. PICK g \in TickGaps : t = now + g /\ t <= Horizon
      BY DEF TickTimes
    <3>2. g \in Nat \ {0} /\ Horizon \in Nat
      BY TickAssumption
    <3> QED
      BY <2>1, <3>1, <3>2
  <2> QED
    BY <2>1, <2>2
<1>1. ASSUME NEW t \in TickTimes, NEW f \in Stations, NEW roads \in Roads,
             NEW forecast \in Forecast \cup {NoForecast}, Analyse(t, f[t], roads, forecast)
      PROVE  /\ Derived'
             /\ now' = t /\ weather_forecast' = forecast
             /\ weather_records' \subseteq StationRecord /\ road_condition_records' \subseteq RoadRecord
             /\ adjustment' \in Adjustments
             /\ SURFACE_RANK[forecast.surface_state] <= SURFACE_RANK[adjustment'.surface_state]
             /\ adjustment'.surface_state \in Surfaces
             /\ advisories' \subseteq Advisory
  <2>1. f[t] \in SUBSET StationRecord /\ roads \in SUBSET RoadRecord /\ t \in 0..Horizon
    BY <1>0, TickAssumption
  <2> QED
    BY <1>1, <2>1, AnalyseDerives
<1>2. \A s \in Steps : SURFACE_RANK[_classify_step(world[s])] \in Int
  <2>1. \A s \in Steps : _classify_step(world[s]) \in Surfaces
    BY <1>0, SourceAssumption, SourcesAreSurfaces
  <2> QED
    BY <2>1 DEF SURFACE_RANK, Surfaces
<1>3. \A x \in Surfaces : SURFACE_RANK[x] \in Int
  BY DEF SURFACE_RANK, Surfaces
<1>4. _cached \in Forecast \cup {NoForecast} /\ _cached.surface_state \in Surfaces
  BY DEF TypeOK, SourceTypeOK, Forecast, NoForecast, Surfaces
<1>5. ASSUME NEW t \in TickTimes, NEW f \in Stations, NEW roads \in Roads, QuietTick(t, f[t], roads)
      PROVE  IInv'
  <2>1. /\ _is_cache_fresh(t) /\ UNCHANGED sourceVars /\ UNCHANGED <<asked, faults>>
        /\ Analyse(t, f[t], roads, _cached)
    BY <1>5 DEF QuietTick, ServeCached
  <2>2. /\ now' = t /\ weather_forecast' = _cached /\ Derived'
        /\ SURFACE_RANK[_cached.surface_state] <= SURFACE_RANK[adjustment'.surface_state]
        /\ adjustment'.surface_state \in Surfaces
    BY <1>1, <1>4, <2>1
  <2>3. TypeOK'
    BY <1>0, <1>1, <1>4, <2>1 DEF TypeOK, SourceTypeOK, sourceVars
  <2>4. /\ _fetched_at_utc \in 0..now /\ t - _fetched_at_utc < PollInterval
        /\ \A s \in InWindow(_fetched_at_utc) :
             SURFACE_RANK[_classify_step(world[s])] <= SURFACE_RANK[_cached.surface_state]
    BY <2>1 DEF _is_cache_fresh, CacheCoversWindow
  <2>5. InWindow(_fetched_at_utc)' = InWindow(_fetched_at_utc) /\ InWindow(_fetched_at_utc) \subseteq Steps
    BY <2>1 DEF InWindow, sourceVars
  <2>6. CacheCoversWindow'
    BY <1>0, <2>1, <2>2, <2>4, <2>5 DEF CacheCoversWindow, sourceVars
  <2>7. TickCoversWindow'
    BY <1>0, <1>2, <1>3, <1>4, <2>1, <2>2, <2>4, <2>5 DEF TickCoversWindow, sourceVars
  <2>8. Asked'
    BY <1>0, <2>1, <2>2 DEF Asked
  <2> QED
    BY <2>2, <2>3, <2>6, <2>7, <2>8
<1>6. ASSUME NEW t \in TickTimes, NEW f \in Stations, NEW roads \in Roads, FetchTick(t, f[t], roads)
      PROVE  IInv'
  <2>1. /\ InWindow(t) # {} /\ _cached' = parse(t) /\ _fetched_at_utc' = t /\ UNCHANGED <<world, faults>>
        /\ asked' = t /\ Analyse(t, f[t], roads, _cached')
    BY <1>6 DEF FetchTick, Fetch
  <2>2. /\ _cached' \in Forecast
        /\ \A s \in InWindow(t) : SURFACE_RANK[_classify_step(world[s])] <= SURFACE_RANK[_cached'.surface_state]
    BY <1>0, <2>1, ParseCovers
  <2>3. /\ now' = t /\ weather_forecast' = _cached' /\ Derived'
        /\ SURFACE_RANK[_cached'.surface_state] <= SURFACE_RANK[adjustment'.surface_state]
        /\ adjustment'.surface_state \in Surfaces
    BY <1>1, <2>1, <2>2
  <2>4. TypeOK'
    BY <1>0, <1>1, <2>1, <2>2 DEF TypeOK, SourceTypeOK
  <2>5. InWindow(_fetched_at_utc)' = InWindow(t) /\ InWindow(t) \subseteq Steps
    BY <2>1 DEF InWindow
  <2>6. CacheCoversWindow'
    BY <1>0, <2>1, <2>2, <2>3, <2>5 DEF CacheCoversWindow
  <2>7. t - t < PollInterval /\ _cached'.surface_state \in Surfaces
    BY <1>0, <2>2, SourceAssumption DEF Forecast
  <2>8. TickCoversWindow'
    BY <1>0, <1>2, <1>3, <2>1, <2>2, <2>3, <2>5, <2>7 DEF TickCoversWindow
  <2>9. Asked'
    BY <1>0, <2>1, <2>3 DEF Asked
  <2> QED
    BY <2>3, <2>4, <2>6, <2>8, <2>9
<1>7. ASSUME NEW t \in TickTimes, NEW f \in Stations, NEW roads \in Roads, FailedFetchTick(t, f[t], roads)
      PROVE  IInv'
  <2>1. /\ UNCHANGED sourceVars /\ asked' = t /\ faults < MaxFaults /\ faults' = faults + 1
        /\ Analyse(t, f[t], roads, _cached)
    BY <1>7 DEF FailedFetchTick, FetchFails
  <2>2. now' = t /\ weather_forecast' = _cached /\ Derived'
    BY <1>1, <1>4, <2>1
  <2>3. TypeOK'
    BY <1>0, <1>1, <1>4, <2>1, TickAssumption DEF TypeOK, SourceTypeOK, sourceVars
  <2>4. InWindow(_fetched_at_utc)' = InWindow(_fetched_at_utc)
    BY <2>1 DEF InWindow, sourceVars
  <2>5. CacheCoversWindow'
    BY <1>0, <2>1, <2>2, <2>4 DEF CacheCoversWindow, sourceVars
  <2>6. _cached # NoForecast => _fetched_at_utc # t
    BY <1>0 DEF CacheCoversWindow
  <2>7. TickCoversWindow'
    BY <2>1, <2>2, <2>6 DEF TickCoversWindow, sourceVars
  <2>8. Asked'
    BY <1>0, <2>1, <2>2 DEF Asked
  <2> QED
    BY <2>2, <2>3, <2>5, <2>7, <2>8
<1>8. ASSUME NEW t \in TickTimes, NEW f \in Stations, NEW roads \in Roads, LateFetchTick(t, f[t], roads)
      PROVE  IInv'
  <2>1. /\ asked' = t /\ faults < MaxFaults /\ faults' = faults + 1
        /\ Fetch(t) \/ FetchFails(t)
        /\ Analyse(t, f[t], roads, NoForecast)
    BY <1>8 DEF LateFetchTick
  <2>2. now' = t /\ weather_forecast' = NoForecast /\ Derived'
    BY <1>1, <2>1
  <2>3. SourceTypeOK' /\ CacheCoversWindow'
    <3>1. CASE Fetch(t)
      <4>1. InWindow(t) # {} /\ _cached' = parse(t) /\ _fetched_at_utc' = t /\ UNCHANGED world
        BY <3>1 DEF Fetch
      <4>2. /\ _cached' \in Forecast
            /\ \A s \in InWindow(t) : SURFACE_RANK[_classify_step(world[s])] <= SURFACE_RANK[_cached'.surface_state]
        BY <1>0, <4>1, ParseCovers
      <4>3. InWindow(_fetched_at_utc)' = InWindow(t)
        BY <4>1 DEF InWindow
      <4> QED
        BY <1>0, <2>2, <4>1, <4>2, <4>3 DEF SourceTypeOK, CacheCoversWindow
    <3>2. CASE FetchFails(t)
      <4>1. UNCHANGED sourceVars /\ InWindow(_fetched_at_utc)' = InWindow(_fetched_at_utc)
        BY <3>2 DEF FetchFails, InWindow, sourceVars
      <4> QED
        BY <1>0, <2>2, <4>1 DEF TypeOK, SourceTypeOK, CacheCoversWindow, sourceVars
    <3> QED
      BY <2>1, <3>1, <3>2
  <2>4. TypeOK'
    BY <1>0, <1>1, <2>1, <2>3, TickAssumption DEF TypeOK
  <2>5. TickCoversWindow'
    BY <2>2 DEF TickCoversWindow
  <2>6. Asked'
    BY <1>0, <2>1, <2>2 DEF Asked
  <2> QED
    BY <2>2, <2>3, <2>4, <2>5, <2>6
<1>9. CASE Restart
  <2>1. TypeOK' /\ Derived'
    BY <1>9, TickAssumption DEF Restart, TypeOK, SourceTypeOK, Derived
  <2> QED
    BY <1>9, <2>1 DEF Restart, CacheCoversWindow, TickCoversWindow, Asked
<1>10. CASE UNCHANGED vars
  <2>1. InWindow(_fetched_at_utc)' = InWindow(_fetched_at_utc)
    BY <1>10 DEF InWindow, vars, sourceVars
  <2>2. TypeOK' /\ Derived'
    BY <1>10 DEF TypeOK, SourceTypeOK, Derived, vars, sourceVars, tickVars
  <2> QED
    BY <1>10, <2>1, <2>2 DEF CacheCoversWindow, TickCoversWindow, Asked, vars, sourceVars, tickVars
<1> QED
  BY <1>5, <1>6, <1>7, <1>8, <1>9, <1>10 DEF Next

LEMMA Invariance == Spec => []IInv
BY InitiallyInvariant, StepsKeepInvariant, PTL DEF Spec

(***************************************************************************)
(* Theorems.                                                               *)
(***************************************************************************)

(* Every variable of the weather side keeps its type.                      *)
THEOREM WeatherTypes == Spec => []TypeOK
<1>1. IInv => TypeOK
  BY DEF IInv
<1> QED
  BY <1>1, Invariance, PTL

(* Unless the last fetch failed, every step closer than the look-ahead     *)
(* minus the poll interval is already assumed.                             *)
THEOREM WeatherIsAnticipated == Spec => []Anticipated
<1>1. IInv => Anticipated
  <2> SUFFICES ASSUME IInv, weather_forecast # NoForecast, asked # NoTime, asked = _fetched_at_utc,
                      NEW s \in Steps, now <= s, s <= now + Lookahead - PollInterval
               PROVE  SURFACE_RANK[_classify_step(world[s])] <= SURFACE_RANK[adjustment.surface_state]
    BY DEF Anticipated
  <2>1. /\ _fetched_at_utc \in 0..now /\ now - _fetched_at_utc < PollInterval
        /\ \A r \in InWindow(_fetched_at_utc) :
             SURFACE_RANK[_classify_step(world[r])] <= SURFACE_RANK[adjustment.surface_state]
    BY DEF IInv, TickCoversWindow
  <2>2. now \in Nat /\ s \in Nat
    BY SourceAssumption, TickAssumption DEF IInv, TypeOK
  <2>3. _fetched_at_utc <= s /\ s <= _fetched_at_utc + Lookahead
    BY <2>1, <2>2, SourceAssumption
  <2> QED
    BY <2>1, <2>3 DEF InWindow
<1> QED
  BY <1>1, Invariance, PTL

(* As long as the tables of factors fall with the rank, a forecast never   *)
(* relaxes a tick.                                                         *)
THEOREM ForecastOnlyEscalates ==
  ASSUME Falling(FreeFlowFactor), Falling(CapacityFactor)
  PROVE  Spec => []EscalationOnly
<1>1. IInv => EscalationOnly
  <2> SUFFICES ASSUME IInv
               PROVE  EscalationOnly
    OBVIOUS
  <2> DEFINE forecast == weather_forecast.surface_state
             without == compute(weather_records, road_condition_records, "dry", now)
  <2>1. /\ weather_records \in SUBSET StationRecord /\ road_condition_records \in SUBSET RoadRecord
        /\ now \in Nat /\ forecast \in Surfaces /\ "dry" \in Surfaces
    BY TickAssumption DEF IInv, TypeOK, Forecast, NoForecast, Surfaces
  <2>2. adjustment = compute(weather_records, road_condition_records, forecast, now)
    BY DEF IInv, Derived
  <2> HIDE DEF without, forecast
  <2>3. /\ adjustment \in Adjustments
        /\ SURFACE_RANK[Observed(weather_records, road_condition_records, now)] <= SURFACE_RANK[adjustment.surface_state]
        /\ adjustment.free_flow = FreeFlowFactor[adjustment.surface_state]
        /\ adjustment.capacity = CapacityFactor[adjustment.surface_state]
    BY <2>1, <2>2, AdapterAnswers
  <2>4. /\ without \in Adjustments
        /\ without.surface_state = Observed(weather_records, road_condition_records, now)
        /\ without.free_flow = FreeFlowFactor[without.surface_state]
        /\ without.capacity = CapacityFactor[without.surface_state]
    BY <2>1, AdapterAnswers, WithoutForecast DEF without
  <2>5. adjustment.surface_state \in Surfaces /\ without.surface_state \in Surfaces
    BY <2>3, <2>4 DEF Adjustments
  <2>6. /\ FreeFlowFactor[adjustment.surface_state] <= FreeFlowFactor[without.surface_state]
        /\ CapacityFactor[adjustment.surface_state] <= CapacityFactor[without.surface_state]
    BY <2>3, <2>4, <2>5 DEF Falling
  <2> QED
    BY <2>3, <2>4, <2>6 DEF EscalationOnly, without
<1> QED
  BY <1>1, Invariance, PTL

(* Whatever the gantries, a forecast of snow or ice that the feeds do not  *)
(* show leads to an advisory.                                              *)
THEOREM NoticeIsGiven == Spec => []NoticeGiven
<1>1. IInv => NoticeGiven
  <2> DEFINE forecast == weather_forecast.surface_state
  <2> SUFFICES ASSUME IInv, forecast \in Slippery,
                      SURFACE_RANK[Observed(weather_records, road_condition_records, now)] < SURFACE_RANK[forecast]
               PROVE  advisories # {}
    BY DEF NoticeGiven
  <2>1. /\ adjustment = compute(weather_records, road_condition_records, forecast, now)
        /\ advisories = Warned(road_condition_records)
                          \cup PreStaged(road_condition_records, adjustment, weather_forecast)
    BY DEF IInv, Derived, generate_weather_recommendations
  <2>2. CASE Warnings(road_condition_records) # {}
    BY <2>1, <2>2 DEF Warned
  <2>3. CASE Warnings(road_condition_records) = {}
    <3>1. adjustment.proactive_halka
      BY <2>1, <2>3 DEF compute
    <3>2. Warned(road_condition_records) = {}
      BY <2>3 DEF Warned
    <3> QED
      BY <2>1, <3>1, <3>2 DEF PreStaged
  <2> QED
    BY <2>2, <2>3
<1> QED
  BY <1>1, Invariance, PTL
=============================================================================
