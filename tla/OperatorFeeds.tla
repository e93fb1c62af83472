--------------------------- MODULE OperatorFeeds ----------------------------
(***************************************************************************)
(* What the operators' interfaces make of the result of a tick             *)
(* (src/operator_api.py): the list of recommendations and the DATEX II     *)
(* export, both with the mark that an operator has already acted, taken    *)
(* from the speed advisories on the road (fetch_vms_status of              *)
(* src/trafikverket_sources.py).                                           *)
(*                                                                         *)
(* An advisory is [e4, place, limit]; a tick has the fields incidents,     *)
(* predictions, corrections, advice, statuses, surface, proactive (whether *)
(* the forecast pre-stages a warning) and deviations.                      *)
(***************************************************************************)
EXTENDS GantryAdvice

CONSTANT
  Window  \* PROXY_GROUND_TRUTH_CHAINAGE_WINDOW_KM, in metres

\* Only an advisory on the E4 has a chainage; without a limit it is inactive.
\* The entries for gantries are inactive, too, and left out.
fetch_vms_status(advisories) ==
  {[place |-> IF a.e4 THEN a.place ELSE None, is_active |-> a.limit] : a \in advisories}

\* The id of an advisory is never that of a gantry, and all gantries are on the E4.
_match_proxy_ground_truth(rec, statuses) ==
  \E s \in statuses :
    s.is_active /\ s.place # None /\ Distance(s.place, Mile[rec.vms]) <= Window

Marked(recs, statuses) ==
  {[rec |-> r, acted |-> _match_proxy_ground_truth(r, statuses)] : r \in recs}

\* Without recommendations they are computed anew from the predictions, with the
\* corrections they carry, but without the surface.
\* Mutant: they are always computed anew.
AlwaysAnew(tick) ==
  Marked(UNION {generate_recommendations(tick.predictions[c], tick.corrections[c], "dry") :
                  c \in DOMAIN tick.predictions}, tick.statuses)
get_vms_recommendations(tick) ==
  IF tick.advice # {} THEN Marked(tick.advice, tick.statuses) ELSE AlwaysAnew(tick)

export_datex2(tick) ==
  [incidents  |-> tick.incidents,
   speeds     |-> Marked(tick.advice, tick.statuses),
   weather    |-> tick.surface # "dry" \/ tick.proactive,
   situations |-> tick.deviations]
=============================================================================
