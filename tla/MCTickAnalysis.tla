--------------------------- MODULE MCTickAnalysis ---------------------------
(***************************************************************************)
(* Two cameras on nine kilometres of road, of which c1 has regions of      *)
(* interest and c2 has none, and c0 upstream of both, which is not asked;  *)
(* three signs, two stations and two routes.                               *)
(***************************************************************************)
EXTENDS TickAnalysis

MCCameras  == {"c0", "c1", "c2"}
MCWatched  == {"c1", "c2"}
MCChainage == [c0 |-> 7000, c1 |-> 8000, c2 |-> 9000]
MCRank     == [c0 |-> 1, c1 |-> 2, c2 |-> 3]

Region(name) == [road |-> name, lanes |-> 3, metres |-> 100, quality |-> 3]
MCRois == [c0 |-> <<>>, c1 |-> <<Region("northbound"), Region("southbound")>>, c2 |-> <<>>]

Cars(n) == [i \in 1..n |-> [wide |-> FALSE, confidence |-> 90]]
Across  == <<[wide |-> TRUE, confidence |-> 80], [wide |-> FALSE, confidence |-> 60]>>
MCPictures ==
  [c1 |-> {<<Cars(20), <<>>>>, <<Cars(2), Across>>},
   c2 |-> {Black, <<Across>>, <<Cars(9)>>, <<Cars(14)>>}]
MCMemories == [c1 |-> {None}, c2 |-> {None, 7600}]

MCRouteOrder == <<"r1", "r2">>
MCTravels ==
  {Nothing, [r1 |-> [speed |-> 80, metres |-> 6400], r2 |-> [speed |-> 30, metres |-> 1600]]}
MCSitePlace == [s0 |-> 7100, s2 |-> 8800]
MCLimit     == [s0 |-> 70, s2 |-> 70]
LaneAt(s, volume, speed) == [site |-> s, volume |-> volume, speed |-> speed]
MCFlows ==
  {<<>>,
   <<LaneAt("s0", 4000, 0), LaneAt("s2", 3000, 60)>>,
   <<LaneAt("s0", 1801, 80), LaneAt("s2", 2400, 80)>>,
   <<LaneAt("s0", 4500, 70), LaneAt("s2", 2500, 40), LaneAt("s2", 2400, 0)>>}

Situated(kind, restricted, severe, place) ==
  [kind |-> kind, restricted |-> restricted, severe |-> severe, place |-> place]
MCSituations ==
  {<<>>,
   <<Situated("accident", 3, FALSE, 8900), Situated("roadwork", None, FALSE, 9100)>>,
   <<Situated("accident", None, FALSE, 8900), Situated("roadwork", None, TRUE, None),
     Situated("roadwork", 1, FALSE, 2500)>>}

MCMile       == [g0 |-> 1000, g1 |-> 6000, g2 |-> 7500]
MCAdvisories == {{}, {[e4 |-> TRUE, place |-> 6500, limit |-> TRUE],
                      [e4 |-> FALSE, place |-> 1000, limit |-> TRUE]}}
MCWeathers   == {Dry, [surface |-> "snow", proactive |-> TRUE, speed |-> 70, capacity |-> 70]}
MCCorrections == {None, 120, -180}
=============================================================================
