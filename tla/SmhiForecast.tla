--------------------------- MODULE SmhiForecast ---------------------------
(***************************************************************************)
(* The poll-throttled forecast source of src/smhi_forecast.py: one cached  *)
(* forecast, fetched again when it is older than the poll interval.  SMHI  *)
(* itself is external: it publishes the weather to come, step by step.     *)
(* Times are UTC, in units a model chooses.                                *)
(***************************************************************************)
EXTENDS WeatherAdapter, FiniteSets

CONSTANTS
  PollInterval,  \* poll_interval_minutes
  Lookahead,     \* lookahead_minutes
  Steps,         \* validTimes of the published series
  Weathers       \* the weather a step may announce

Weather == [pcat: {"none", "snow", "rain", "freezing"}, frost: BOOLEAN]

ASSUME SourceAssumption ==
  /\ PollInterval \in Nat \ {0} /\ Lookahead \in Nat
  /\ Steps \subseteq Nat /\ IsFiniteSet(Steps) /\ Weathers \subseteq Weather

VARIABLES
  world,       \* the weather that is coming, by step
  _cached,     \* last good forecast
  _fetched_at_utc

sourceVars == <<world, _cached, _fetched_at_utc>>

Forecast == [surface_state: Surfaces, onset: Nat \cup {NoTime}, valid_until: Nat]
NoForecast == [surface_state |-> "dry", onset |-> NoTime, valid_until |-> NoTime]

SourceTypeOK ==
  /\ world \in [Steps -> Weathers]
  /\ _cached \in Forecast \cup {NoForecast}
  /\ _fetched_at_utc \in Nat \cup {NoTime}

\* Rain onto a frozen surface freezes.
_classify_step(w) ==
  CASE w.pcat = "freezing" \/ (w.pcat = "rain" /\ w.frost) -> "ice"
    [] w.pcat = "snow"                                     -> "snow"
    [] w.pcat = "rain" /\ ~ w.frost                        -> "wet"
    [] OTHER                                               -> "dry"

\* Mutant: steps of the past are not skipped.
UpToWindowEnd(t) == {s \in Steps : s <= t + Lookahead}
InWindow(t)      == {s \in Steps : t <= s /\ s <= t + Lookahead}

Least(S)    == CHOOSE s \in S : \A r \in S : s <= r
Greatest(S) == CHOOSE s \in S : \A r \in S : r <= s

\* The worst state ahead, and how long until it is first reached.
parse(t) ==
  LET ahead == InWindow(t)
      state == Worst({_classify_step(world[s]) : s \in ahead})
  IN [surface_state |-> state,
      onset |-> IF state = "dry" THEN NoTime
                ELSE Least({s \in ahead : _classify_step(world[s]) = state}) - t,
      valid_until |-> Greatest(ahead)]

\* Mutant: the cache is served for as long as its window.
FreshForLookahead(t) == _cached # NoForecast /\ t - _fetched_at_utc < Lookahead
_is_cache_fresh(t)   == _cached # NoForecast /\ t - _fetched_at_utc < PollInterval

SourceInit ==
  /\ world \in [Steps -> Weathers]
  /\ _cached = NoForecast
  /\ _fetched_at_utc = NoTime

(***************************************************************************)
(* get_forecast: from the cache, from a fetch, or from the last good one.  *)
(***************************************************************************)
ServeCached(t) ==
  /\ _is_cache_fresh(t)
  /\ UNCHANGED sourceVars

Fetch(t) ==
  /\ ~ _is_cache_fresh(t)
  /\ InWindow(t) # {}
  /\ _cached' = parse(t)
  /\ _fetched_at_utc' = t
  /\ UNCHANGED world

\* The request failed, or its payload has no usable step.
FetchFails(t) ==
  /\ ~ _is_cache_fresh(t)
  /\ UNCHANGED sourceVars
=============================================================================
