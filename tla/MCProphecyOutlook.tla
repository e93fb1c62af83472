------------------------ MODULE MCProphecyOutlook -------------------------
(***************************************************************************)
(* Two cameras, one prediction: the queue at camera 2 reaches camera 1 in  *)
(* six units of 30 s: ticks before, in and after the window.               *)
(***************************************************************************)
EXTENDS ProphecyOutlook

MCChainage == <<0, 6>>
MCGaps == {2, 3, 8}
MCQueued  == [is_anomaly |-> FALSE, capacity |-> 4, lanes |-> 2]
MCHealthy == [is_anomaly |-> FALSE, capacity |-> 10, lanes |-> 2]
\* The queue predicted from camera 2 reaches camera 1 at any time, or never.
MCArrivals  == {[c \in 1..2 |-> IF c = 1 THEN t ELSE 0] : t \in 0..Horizon + 1}
MCForecasts == {<<>>, [c \in {2} |-> 1]}
MCViews == [1..2 -> {MCQueued, MCHealthy}]
=============================================================================
